---------------------------- MODULE EditBuffer ----------------------------
(***************************************************************************)
(* What the virtual file layer (include/virt_file.h) promises its callers: *)
(* a text of bytes with a linear history.  An edit forgets what was undone *)
(* and starts a new version, undo and redo walk along the versions.  An    *)
(* edit outside the text changes nothing and returns 0; the versions that  *)
(* were undone are gone all the same.                                      *)
(***************************************************************************)
EXTENDS TextHistory, Integers, Sequences

CONSTANT Call   \* the calls: records [op, offset, buf, len]

VARIABLES
  versions, \* the texts of the history, oldest first
  pos,      \* the version that is current
  call,     \* the last call
  done      \* what it returned: bytes edited, or versions travelled

vars == <<versions, pos, call, done>>

History == [versions |-> versions, pos |-> pos]

Follow(c) == LET h == After(History, c) IN versions' = h.versions /\ pos' = h.pos

Init ==
  /\ pos = 1
  /\ Len(versions) = 1
  /\ call = [op |-> "init", offset |-> 0, buf |-> <<>>, len |-> 0]
  /\ done = 0

Next == call' \in Call /\ Follow(call') /\ done' = Result(History, call')

Spec == Init /\ [][Next]_vars
=============================================================================
