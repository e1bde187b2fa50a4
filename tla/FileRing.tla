----------------------------- MODULE FileRing -----------------------------
(***************************************************************************)
(* The ring of open files (vf_ring_t of src/virt_file.c): a circular       *)
(* doubly linked list, as operators on a ring value r.  r.next and r.last  *)
(* are the links of the nodes in the ring; r.cur and r.head are the fields *)
(* next and head of the anchor, None when the ring is empty.               *)
(***************************************************************************)
EXTENDS Naturals, FiniteSets

CONSTANTS
  Node,  \* the ring elements malloc can give out, each with its file
  None   \* NULL

ASSUME FileRingAssumption == None \notin Node

InRing(r) == DOMAIN r.next

EmptyRing ==
  [next |-> [n \in {} |-> n], last |-> [n \in {} |-> n], cur |-> None, head |-> None]

\* vf_add_fm_to_ring: link n in just before the current node
AddNode(r, n) ==
  LET first  == r.cur = None
      after  == IF first THEN n ELSE r.cur
      before == IF first THEN n ELSE r.last[r.cur]
      nodes  == InRing(r) \cup {n}
  IN  [next |-> [m \in nodes |-> IF m = before THEN n ELSE IF m = n THEN after ELSE r.next[m]],
       last |-> [m \in nodes |-> IF m = after THEN n ELSE IF m = n THEN before ELSE r.last[m]],
       cur  |-> after,
       head |-> IF first THEN n ELSE r.head]

\* faulty: the head steps back; the node behind keeps its link back
RemoveHeadBack(r, n) ==
  LET nodes == InRing(r) \ {n}
  IN  IF r.next[n] = n THEN EmptyRing
      ELSE [next |-> [m \in nodes |-> IF m = r.last[n] THEN r.next[n] ELSE r.next[m]],
            last |-> [m \in nodes |-> IF m = r.next[n] THEN r.last[n] ELSE r.last[m]],
            cur  |-> IF r.cur = n THEN r.next[n] ELSE r.cur,
            head |-> IF r.head = n THEN r.last[n] ELSE r.head]
RemoveOneWay(r, n) ==
  LET nodes == InRing(r) \ {n}
  IN  IF r.next[n] = n THEN EmptyRing
      ELSE [next |-> [m \in nodes |-> IF m = r.last[n] THEN r.next[n] ELSE r.next[m]],
            last |-> [m \in nodes |-> r.last[m]],
            cur  |-> IF r.cur = n THEN r.next[n] ELSE r.cur,
            head |-> IF r.head = n THEN r.next[n] ELSE r.head]

\* vf_remove_fm_from_ring, for a node in the ring
RemoveNode(r, n) ==
  LET nodes == InRing(r) \ {n}
  IN  IF r.next[n] = n THEN EmptyRing
      ELSE [next |-> [m \in nodes |-> IF m = r.last[n] THEN r.next[n] ELSE r.next[m]],
            last |-> [m \in nodes |-> IF m = r.next[n] THEN r.last[n] ELSE r.last[m]],
            cur  |-> IF r.cur = n THEN r.next[n] ELSE r.cur,
            head |-> IF r.head = n THEN r.next[n] ELSE r.head]

\* vf_get_next_fm_from_ring, vf_get_last_fm_from_ring, vf_get_head_fm_from_ring:
\* each moves the ring to the node it returns
GoNext(r) == [r EXCEPT !.cur = r.next[@]]
GoLast(r) == [r EXCEPT !.cur = r.last[@]]
GoHead(r) == [r EXCEPT !.cur = r.head]

\* vf_set_current_fm_from_ring: nothing happens when n is not in the ring
SetCurrent(r, n) == IF n \in InRing(r) THEN [r EXCEPT !.cur = n] ELSE r

\* update_file_tabs_window, at the end of every print_screen: from the head once
\* around the ring and back to the file shown
ShowTabs(r, current) == SetCurrent(GoHead(r), current)

\* the nodes met from n on, n first, once around the ring
From(r, n) ==
  LET turn == Cardinality(InRing(r))
      walk[k \in 0 .. turn] == IF k = 0 THEN n ELSE r.next[walk[k - 1]]
  IN  [k \in 1 .. turn |-> walk[k - 1]]

(***************************************************************************)
(* The links are those of a ring: next and last are inverse, and the       *)
(* anchor points into it.                                                  *)
(***************************************************************************)
Linked(r) ==
  /\ InRing(r) \subseteq Node
  /\ DOMAIN r.last = InRing(r)
  /\ \A n \in InRing(r) :
       /\ r.next[n] \in InRing(r) /\ r.last[n] \in InRing(r)
       /\ r.last[r.next[n]] = n /\ r.next[r.last[n]] = n
  /\ {r.cur, r.head} \subseteq IF InRing(r) = {} THEN {None} ELSE InRing(r)
===========================================================================
