----------------------------- MODULE SaveStatus -----------------------------
(***************************************************************************)
(* action_save and the thread that shows its progress (src/actions.c).     *)
(* The two share one integer, `complete`, on the stack of action_save:     *)
(* vf_save writes it, the thread reads it and ends when it reads 100, and  *)
(* action_save waits for that.                                             *)
(***************************************************************************)
EXTENDS Integers

CONSTANTS
  Sizes,     \* the file sizes, 0 among them
  Chunks,    \* bound: how often vf_save reports progress
  EmptyFails \* whether the save of a file without bytes may fail

ASSUME SaveStatusAssumption ==
  Sizes \subseteq Nat /\ Chunks \in Nat /\ EmptyFails \in BOOLEAN

\* of the values of `complete` only 100 makes a difference
Percent == {0, 50, 100}

Polls == 5  \* the tenths of a second before the box is shown

VARIABLES
  pc,        \* where action_save is
  fsize,     \* f->fm.size
  shown,     \* display_info.file_size
  writable,  \* whether fopen "r+" succeeds
  left,      \* the reports of progress vf_save still makes
  returned,  \* what vf_save returned
  complete,
  thread,    \* where the thread is
  polls      \* how often it has looked

file == <<fsize, shown, writable>>
main == <<pc, fsize, shown, writable, left, returned>>
vars == <<main, complete, thread, polls>>

Init ==
  /\ pc = "idle" /\ thread = "none"
  /\ fsize \in Sizes /\ shown = fsize /\ writable \in BOOLEAN
  /\ left = 0 /\ returned = 0 /\ complete = 0 /\ polls = 0

(***************************************************************************)
(* action_save                                                             *)
(***************************************************************************)

\* the thread is created; `complete` is not initialised yet
Begin ==
  /\ pc = "idle" /\ pc' = "enter"
  /\ fsize' \in Sizes /\ shown' \in Sizes /\ writable' \in BOOLEAN
  /\ EmptyFails \/ writable' \/ shown' # 0
  /\ complete' \in Percent
  /\ thread' = "poll" /\ polls' = 0
  /\ left' \in 0 .. Chunks
  /\ UNCHANGED returned

\* faulty: failure is reported by -1
EnterMinus ==
  /\ pc = "enter"
  /\ complete' = 0
  /\ returned' = IF writable THEN 0 ELSE -1
  /\ pc' = IF writable THEN "write" ELSE "check"
  /\ UNCHANGED <<file, left, thread, polls>>

\* vf_save up to the fopen
Enter ==
  /\ pc = "enter"
  /\ complete' = 0
  /\ returned' = 0
  /\ pc' = IF writable THEN "write" ELSE "check"
  /\ UNCHANGED <<file, left, thread, polls>>

\* compute_percent_complete, which leaves `complete` alone for an empty file
Report ==
  /\ pc = "write" /\ left > 0
  /\ left' = left - 1
  /\ IF fsize = 0 THEN UNCHANGED complete ELSE complete' \in Percent
  /\ UNCHANGED <<pc, file, returned, thread, polls>>

\* faulty: what was reported last stands
FinishReported ==
  /\ pc = "write" /\ left = 0
  /\ returned' = fsize
  /\ pc' = "check"
  /\ UNCHANGED <<file, left, complete, thread, polls>>

\* the end of vf_save
Finish ==
  /\ pc = "write" /\ left = 0
  /\ complete' = 100
  /\ returned' = fsize
  /\ pc' = "check"
  /\ UNCHANGED <<file, left, thread, polls>>

\* a failed save ends the thread and says so; msg_box waits for a key
Check ==
  /\ pc = "check"
  /\ IF returned # shown THEN complete' = 100 /\ pc' = "box"
                         ELSE pc' = "join" /\ UNCHANGED complete
  /\ UNCHANGED <<file, left, returned, thread, polls>>

Key == pc = "box" /\ pc' = "join" /\ UNCHANGED <<file, left, returned, complete, thread, polls>>

\* pthread_join; then the screen is printed and action_save returns
Join ==
  /\ pc = "join" /\ thread = "exit"
  /\ pc' = "idle" /\ thread' = "none"
  /\ UNCHANGED <<file, left, returned, complete, polls>>

Work == Begin \/ Enter \/ Report \/ Finish \/ Check \/ Join

(***************************************************************************)
(* save_status_update_thread                                               *)
(***************************************************************************)
Poll ==
  /\ thread = "poll"
  /\ polls' = polls + 1
  /\ thread' = CASE complete = 100 -> "exit"
                 [] complete # 100 /\ polls' < Polls -> "poll"
                 [] OTHER -> "test"
  /\ UNCHANGED <<main, complete>>

Test ==
  /\ thread = "test"
  /\ thread' = IF complete = 100 THEN "exit" ELSE "draw"
  /\ UNCHANGED <<main, complete, polls>>

Draw == thread = "draw" /\ thread' = "test" /\ UNCHANGED <<main, complete, polls>>

Status == Poll \/ Test \/ Draw

Next == Work \/ Key \/ Status

(***************************************************************************)
(* Both threads run when they can; a key may never be pressed, and nobody  *)
(* has to save.                                                            *)
(***************************************************************************)
Fairness ==
  /\ WF_vars(Enter \/ Report \/ Finish \/ Check \/ Join)
  /\ WF_vars(Status)

Spec == Init /\ [][Next]_vars /\ Fairness

TypeOK ==
  /\ pc \in {"idle", "enter", "write", "check", "box", "join"}
  /\ thread \in {"none", "poll", "test", "draw", "exit"}
  /\ {fsize, shown} \subseteq Sizes /\ returned \in Sizes \cup {0}
  /\ writable \in BOOLEAN /\ left \in 0 .. Chunks
  /\ complete \in Percent /\ polls \in 0 .. Polls

\* The thread never outlives the stack frame `complete` is in, nor draws over
\* the screen action_save leaves: when the editor takes commands again it is
\* gone.  `complete` is read and written without a lock; the join is all there
\* is.
FrameAlive == pc = "idle" => thread = "none"

\* Whoever waits for the thread has made sure that it will read 100 and end:
\* by the end of vf_save or by the report of its failure.
JoinSees100 == pc \in {"box", "join"} => complete = 100

\* ":w Save" (src/help.c): the editor always comes back to its user, to take
\* commands or to show the message of a failed save.
ControlReturns == []<>(pc \in {"idle", "box"})
=============================================================================
