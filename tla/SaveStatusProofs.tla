-------------------------- MODULE SaveStatusProofs --------------------------
(***************************************************************************)
(* The thread of action_save is gone when the editor takes commands again, *)
(* and nobody waits for it in vain unless the save of an empty file fails. *)
(***************************************************************************)
EXTENDS SaveStatus, TLAPS

\* the thread lives from the pthread_create to the pthread_join
Lives == pc = "idle" <=> thread = "none"

\* A save that could not open the file returns 0, and so is found to have
\* failed by its size; one that could has left 100 behind.
Outcome ==
  /\ pc # "idle" => writable \/ shown # 0
  /\ pc = "check" => \/ complete = 100
                     \/ ~writable /\ returned = 0

StatusInv == Lives /\ (~EmptyFails => Outcome /\ JoinSees100)

\* The inductive invariant; FinishReported breaks it.
THEOREM StatusInvariant == Spec => []StatusInv
  <1>1. Init => StatusInv
    BY DEF Init, StatusInv, Lives, Outcome, JoinSees100
  <1>2. StatusInv /\ [Next]_vars => StatusInv'
    <2> SUFFICES ASSUME StatusInv, [Next]_vars PROVE StatusInv'
      OBVIOUS
    <2> USE DEF StatusInv, Lives, Outcome, JoinSees100
    <2>1. CASE Begin
      BY <2>1, SaveStatusAssumption DEF Begin
    <2>2. CASE Enter
      BY <2>2 DEF Enter, file
    <2>3. CASE Report
      BY <2>3 DEF Report, file
    <2>4. CASE Finish
      BY <2>4 DEF Finish, file
    <2>5. CASE Check
      BY <2>5 DEF Check, file
    <2>6. CASE Key
      BY <2>6 DEF Key, file
    <2>7. CASE Join
      BY <2>7 DEF Join, file
    <2>8. CASE Poll
      BY <2>8 DEF Poll, main
    <2>9. CASE Test
      BY <2>9 DEF Test, main
    <2>10. CASE Draw
      BY <2>10 DEF Draw, main
    <2>11. CASE UNCHANGED vars
      BY <2>11 DEF vars, main
    <2> QED
      BY <2>1, <2>2, <2>3, <2>4, <2>5, <2>6, <2>7, <2>8, <2>9, <2>10, <2>11
      DEF Next, Work, Status
  <1> QED
    BY <1>1, <1>2, PTL DEF Spec

\* The thread counts its polls up to the limit.
Counts == thread = "poll" => polls < Polls

\* The variables keep their types; `complete` needs none of the two threads to be
\* careful, and the thread stops counting at the fifth poll.
THEOREM StatusTyped == Spec => []TypeOK
  <1> USE DEF TypeOK, Counts, Polls, Percent
  <1>1. Init => TypeOK /\ Counts
    BY SaveStatusAssumption DEF Init
  <1>2. TypeOK /\ Counts /\ [Next]_vars => TypeOK' /\ Counts'
    <2> SUFFICES ASSUME TypeOK, Counts, [Next]_vars PROVE TypeOK' /\ Counts'
      OBVIOUS
    <2>1. CASE Begin
      BY <2>1 DEF Begin
    <2>2. CASE Enter
      BY <2>2 DEF Enter, file
    <2>3. CASE Report
      BY <2>3, SaveStatusAssumption DEF Report, file
    <2>4. CASE Finish
      BY <2>4 DEF Finish, file
    <2>5. CASE Check
      BY <2>5 DEF Check, file
    <2>6. CASE Key
      BY <2>6 DEF Key, file
    <2>7. CASE Join
      BY <2>7 DEF Join, file
    <2>8. CASE Poll
      BY <2>8 DEF Poll, main
    <2>9. CASE Test
      BY <2>9 DEF Test, main
    <2>10. CASE Draw
      BY <2>10 DEF Draw, main
    <2>11. CASE UNCHANGED vars
      BY <2>11 DEF vars, main
    <2> QED
      BY <2>1, <2>2, <2>3, <2>4, <2>5, <2>6, <2>7, <2>8, <2>9, <2>10, <2>11
      DEF Next, Work, Status
  <1> QED
    BY <1>1, <1>2, PTL DEF Spec

\* The thread never outlives the variable it reads.
THEOREM ThreadGone == Spec => []FrameAlive
  <1>1. StatusInv => FrameAlive
    BY DEF StatusInv, Lives, FrameAlive
  <1> QED
    BY <1>1, StatusInvariant, PTL

\* pthread_join is called only when the thread is bound to read 100, for every
\* size of the file, unless the save of an empty file can fail.
THEOREM JoinNotInVain ==
  ASSUME ~EmptyFails
  PROVE  Spec => []JoinSees100
  <1>1. StatusInv => JoinSees100
    BY DEF StatusInv
  <1> QED
    BY <1>1, StatusInvariant, PTL
=============================================================================
