--------------------------- MODULE LinearHistory ---------------------------
(***************************************************************************)
(* The history of one file as its user sees it: the changes made so far,   *)
(* oldest first, and how many of them are in force.  A new change takes    *)
(* the place of those that were undone.                                    *)
(***************************************************************************)
EXTENDS Naturals, Sequences

VARIABLES log, pos

vars == <<log, pos>>

Init == log = <<>> /\ pos = 0

\* a change is made on top of those in force; which one is left open
Record ==
  /\ pos' = pos + 1
  /\ Len(log') = pos + 1
  /\ SubSeq(log', 1, pos) = SubSeq(log, 1, pos)

\* a change that was asked for could not be made
Forget == log' = SubSeq(log, 1, pos) /\ UNCHANGED pos

Back  == pos' \in 0 .. pos /\ UNCHANGED log
Forth == pos' \in pos .. Len(log) /\ UNCHANGED log

Next == Record \/ Forget \/ Back \/ Forth

Spec == Init /\ [][Next]_vars
=============================================================================
