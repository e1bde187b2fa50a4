------------------------------ MODULE TabBar ------------------------------
(***************************************************************************)
(* What the ring of open files is to its user: a row of tabs, one of them  *)
(* chosen, that of the file commands act on.  A new file opens in front of *)
(* the tab chosen, or at the end when that is the first; when a tab is     *)
(* closed the one behind it is chosen, the first behind the last.          *)
(***************************************************************************)
EXTENDS Naturals, SequencesExt

VARIABLES
  tabs, chosen,
  begun  \* the files of the command line are there

vars == <<tabs, chosen, begun>>

Init == tabs = <<>> /\ chosen = 1 /\ begun = FALSE

\* the tabs are those of before and one more, which stands at place
OpenedAt(place) ==
  \E new \in ToSet(tabs') \ ToSet(tabs) : tabs' = InsertAt(tabs, place, new)

Argument == ~begun /\ OpenedAt(Len(tabs) + 1) /\ UNCHANGED <<chosen, begun>>

Begin ==
  /\ ~begun /\ begun'
  /\ IF tabs = <<>> THEN OpenedAt(1) ELSE UNCHANGED tabs
  /\ UNCHANGED chosen

Open ==
  LET place == IF chosen = 1 THEN Len(tabs) + 1 ELSE chosen
  IN  /\ begun
      /\ OpenedAt(place)
      /\ chosen' = place
      /\ UNCHANGED begun

Close ==
  /\ begun /\ tabs # <<>>
  /\ tabs' = RemoveAt(tabs, chosen)
  /\ chosen' = IF chosen <= Len(tabs') \/ tabs' = <<>> THEN chosen ELSE 1
  /\ UNCHANGED begun

Go == begun /\ chosen' \in DOMAIN tabs /\ UNCHANGED <<tabs, begun>>

Next == Argument \/ Begin \/ Open \/ Close \/ Go

Spec == Init /\ [][Next]_vars
===========================================================================
