---------------------------- MODULE SessionProofs ----------------------------
(***************************************************************************)
(* The open files of a session, for any number of files, names and edits.  *)
(*                                                                         *)
(* Through every command the ring of open files stays a ring: the pointer  *)
(* surgery of vf_add_fm_to_ring and vf_remove_fm_from_ring keeps its links *)
(* inverse to each other.                                                  *)
(*                                                                         *)
(* The ring is also a row of tabs: it is one cycle, not several, and the   *)
(* walk from the head meets its files in the order of the row.  Linked     *)
(* links alone do not say so (two rings side by side are linked too), so   *)
(* the invariant is that there is such a row.  It is what brings the walks *)
(* of :wa and :qa back to current_file, and every command is shown to do   *)
(* to it what TabBar says.                                                 *)
(*                                                                         *)
(* Then the files themselves and the disk below them: an open file shows   *)
(* its edits on top of what its stream delivers, so whatever a command     *)
(* does to one file or to the disk must leave every other open file with   *)
(* the bytes its edits were made for.  That takes a user who is careful.   *)
(***************************************************************************)
EXTENDS Session, DataLemmas, SequencesExt, FiniteSetTheorems, WellFoundedInduction, SequenceTheorems

\* A sequence without repetitions has as many elements as places.
LEMMA RowCardinality ==
  ASSUME NEW S, NEW row \in Seq(S),
         \A i, j \in 1 .. Len(row) : row[i] = row[j] => i = j
  PROVE  Cardinality({row[i] : i \in 1 .. Len(row)}) = Len(row)
  <1> DEFINE T == {row[i] : i \in 1 .. Len(row)}
  <1>1. Len(row) \in Nat /\ row = [i \in 1 .. Len(row) |-> row[i]]
    BY LenProperties
  <1>2. row \in Bijection(1 .. Len(row), T)
    BY <1>1 DEF Bijection, Injection, Surjection, IsInjective
  <1> HIDE DEF T
  <1>3. ExistsBijection(1 .. Len(row), T)
    BY <1>2 DEF ExistsBijection
  <1> QED
    BY <1>1, <1>3, FS_CountingElements DEF T

\* InsertAt and RemoveAt, place by place.
LEMMA InsertAtIs ==
  ASSUME NEW S, NEW row \in Seq(S), NEW p \in 1 .. Len(row) + 1, NEW e \in S
  PROVE  /\ InsertAt(row, p, e) \in Seq(S)
         /\ Len(InsertAt(row, p, e)) = Len(row) + 1
         /\ \A i \in 1 .. Len(row) + 1 :
              InsertAt(row, p, e)[i] = IF i < p THEN row[i] ELSE IF i = p THEN e ELSE row[i - 1]
  <1>1. InsertAt(row, p, e) = Insertion(row, p, e)
    BY DEF InsertAt, Insertion
  <1> QED
    BY <1>1, InsertionIs

LEMMA InsertIntoEmpty ==
  ASSUME NEW e
  PROVE  InsertAt(<<>>, 1, e) = <<e>>
  <1> DEFINE row == <<>>
             new == InsertAt(row, 1, e)
  <1>1. row \in Seq({e}) /\ Len(row) = 0
    BY EmptySeq
  <1>2. <<e>> \in Seq({e}) /\ Len(<<e>>) = 1 /\ <<e>>[1] = e
    OBVIOUS
  <1> HIDE DEF row
  <1>3. new \in Seq({e}) /\ Len(new) = 1 /\ new[1] = e
    <2> DEFINE p == 1
    <2>1. p \in 1 .. Len(row) + 1 /\ row \in Seq({e}) /\ e \in {e}
      BY <1>1
    <2> HIDE DEF p
    <2>2. /\ InsertAt(row, p, e) \in Seq({e}) /\ Len(InsertAt(row, p, e)) = Len(row) + 1
          /\ \A i \in 1 .. Len(row) + 1 :
               InsertAt(row, p, e)[i] = IF i < p THEN row[i] ELSE IF i = p THEN e ELSE row[i - 1]
      BY <2>1, InsertAtIs
    <2> QED
      BY <1>1, <2>1, <2>2 DEF p
  <1> HIDE DEF new
  <1>4. new = <<e>>
    BY <1>2, <1>3, SeqEqual
  <1> QED
    BY <1>4 DEF new, row

LEMMA RemoveAtIs ==
  ASSUME NEW S, NEW row \in Seq(S), NEW p \in 1 .. Len(row)
  PROVE  /\ RemoveAt(row, p) \in Seq(S)
         /\ Len(RemoveAt(row, p)) = Len(row) - 1
         /\ \A i \in 1 .. Len(row) - 1 :
              RemoveAt(row, p)[i] = IF i < p THEN row[i] ELSE row[i + 1]
  <1>1. RemoveAt(row, p) = Removal(row, p)
    BY DEF RemoveAt, Removal
  <1> QED
    BY <1>1, RemovalIs

\* r has the fields of a ring
Shape(r) == r = [next |-> r.next, last |-> r.last, cur |-> r.cur, head |-> r.head]

Ring(r) == Shape(r) /\ Linked(r)

RingInv == Ring(ring) /\ (current # None => current \in InRing(ring) /\ ring.cur = current)

(***************************************************************************)
(* The operations on a ring.                                               *)
(***************************************************************************)

\* A ring that is not empty has a current node and a head.
LEMMA AnchorInRing ==
  ASSUME NEW r, Linked(r)
  PROVE  /\ InRing(r) = {} => r.cur = None /\ r.head = None
         /\ InRing(r) # {} => r.cur \in InRing(r) /\ r.head \in InRing(r)
         /\ r.cur = None <=> InRing(r) = {}
         /\ None \notin InRing(r)
  BY FileRingAssumption DEF Linked

\* vf_add_fm_to_ring keeps the links of a ring inverse to each other.
LEMMA AddKeepsRing ==
  ASSUME NEW r, Linked(r), NEW n \in Node \ InRing(r)
  PROVE  /\ Ring(AddNode(r, n))
         /\ InRing(AddNode(r, n)) = InRing(r) \cup {n}
         /\ AddNode(r, n).cur # None
  <1>1. CASE r.cur = None
    <2>1. InRing(r) = {}
      BY <1>1, AnchorInRing
    <2> QED
      BY <1>1, <2>1, FileRingAssumption DEF AddNode, Linked, Ring, Shape, InRing
  <1>2. CASE r.cur # None
    <2>1. r.cur \in InRing(r) /\ r.head \in InRing(r)
      BY <1>2, AnchorInRing
    <2> DEFINE s == AddNode(r, n)
    <2>2. /\ Shape(s) /\ s.cur = r.cur /\ s.head = r.head
          /\ InRing(s) = InRing(r) \cup {n}
          /\ DOMAIN s.last = InRing(s)
      BY <1>2 DEF AddNode, Shape, InRing
    <2>3. \A m \in InRing(s) :
            /\ s.next[m] = IF m = r.last[r.cur] THEN n ELSE IF m = n THEN r.cur ELSE r.next[m]
            /\ s.last[m] = IF m = r.cur THEN n ELSE IF m = n THEN r.last[r.cur] ELSE r.last[m]
      BY <1>2 DEF AddNode, InRing
    <2> HIDE DEF s
    <2>4. \A m \in InRing(s) : s.next[m] \in InRing(s) /\ s.last[m] \in InRing(s)
      BY <2>1, <2>2, <2>3 DEF Linked
    <2>i. \A m \in InRing(r) : /\ r.next[m] \in InRing(r) /\ r.last[m] \in InRing(r)
                               /\ r.last[r.next[m]] = m /\ r.next[r.last[m]] = m
      BY DEF Linked
    <2>5. ASSUME NEW m \in InRing(s)
          PROVE  s.last[s.next[m]] = m /\ s.next[s.last[m]] = m
      <3>1. CASE m = n
        BY <2>1, <2>2, <2>3, <2>i, <3>1
      <3>2. CASE m # n
        <4>1. s.last[s.next[m]] = m
          BY <2>1, <2>2, <2>3, <2>4, <2>i, <3>2
        <4>2. s.next[s.last[m]] = m
          BY <2>1, <2>2, <2>3, <2>4, <2>i, <3>2
        <4> QED
          BY <4>1, <4>2
      <3> QED
        BY <3>1, <3>2
    <2>6. InRing(s) \subseteq Node /\ {s.cur, s.head} \subseteq InRing(s) /\ s.cur # None
      BY <1>2, <2>1, <2>2 DEF Linked
    <2> QED
      BY <2>2, <2>4, <2>5, <2>6 DEF Ring, Linked, s
  <1> QED
    BY <1>1, <1>2

\* vf_remove_fm_from_ring keeps the links of a ring inverse to each other, and
\* leaves an anchor that points into the ring.
LEMMA RemoveKeepsRing ==
  ASSUME NEW r, Linked(r), NEW n \in InRing(r)
  PROVE  Ring(RemoveNode(r, n))
  <1>1. CASE r.next[n] = n
    BY <1>1 DEF RemoveNode, EmptyRing, Ring, Shape, Linked, InRing
  <1>2. CASE r.next[n] # n
    <2> DEFINE s == RemoveNode(r, n)
    <2>1. /\ r.next[n] \in InRing(r) /\ r.last[n] \in InRing(r)
          /\ r.next[n] # n /\ r.last[n] # n
          /\ r.cur \in InRing(r) /\ r.head \in InRing(r)
      BY <1>2, AnchorInRing DEF Linked
    <2>2. /\ Shape(s)
          /\ InRing(s) = InRing(r) \ {n}
          /\ DOMAIN s.last = InRing(s)
          /\ s.cur = IF r.cur = n THEN r.next[n] ELSE r.cur
          /\ s.head = IF r.head = n THEN r.next[n] ELSE r.head
      BY <1>2 DEF RemoveNode, Shape, InRing
    <2>3. \A m \in InRing(s) :
            /\ s.next[m] = IF m = r.last[n] THEN r.next[n] ELSE r.next[m]
            /\ s.last[m] = IF m = r.next[n] THEN r.last[n] ELSE r.last[m]
      BY <1>2 DEF RemoveNode, InRing
    <2> HIDE DEF s
    <2>4. \A m \in InRing(s) : s.next[m] \in InRing(s) /\ s.last[m] \in InRing(s)
      BY <2>1, <2>2, <2>3 DEF Linked
    <2>i. \A m \in InRing(r) : /\ r.next[m] \in InRing(r) /\ r.last[m] \in InRing(r)
                               /\ r.last[r.next[m]] = m /\ r.next[r.last[m]] = m
      BY DEF Linked
    <2>5. ASSUME NEW m \in InRing(s)
          PROVE  s.last[s.next[m]] = m /\ s.next[s.last[m]] = m
      <3>1. s.last[s.next[m]] = m
        <4>1. CASE m = r.last[n]
          BY <2>1, <2>2, <2>3, <2>i, <4>1
        <4>2. CASE m # r.last[n]
          <5>1. s.next[m] = r.next[m] /\ r.next[m] # n /\ r.next[m] # r.next[n]
            BY <2>2, <2>3, <2>i, <4>2
          <5> QED
            BY <2>2, <2>3, <2>4, <2>i, <5>1
        <4> QED
          BY <4>1, <4>2
      <3>2. s.next[s.last[m]] = m
        <4>1. CASE m = r.next[n]
          BY <2>1, <2>2, <2>3, <2>i, <4>1
        <4>2. CASE m # r.next[n]
          <5>1. s.last[m] = r.last[m] /\ r.last[m] # n /\ r.last[m] # r.last[n]
            BY <2>2, <2>3, <2>i, <4>2
          <5> QED
            BY <2>2, <2>3, <2>4, <2>i, <5>1
        <4> QED
          BY <4>1, <4>2
      <3> QED
        BY <3>1, <3>2
    <2>6. InRing(s) \subseteq Node /\ {s.cur, s.head} \subseteq InRing(s)
      BY <2>1, <2>2 DEF Linked
    <2> QED
      BY <2>2, <2>4, <2>5, <2>6 DEF Ring, Linked, s
  <1> QED
    BY <1>1, <1>2

\* Moving the anchor to a node of the ring leaves the links alone.
LEMMA MoveKeepsRing ==
  ASSUME NEW r, Ring(r), NEW n \in InRing(r)
  PROVE  LET s == [r EXCEPT !.cur = n]
         IN  Ring(s) /\ InRing(s) = InRing(r) /\ s.cur = n
  BY DEF Ring, Shape, Linked, InRing

\* update_file_tabs_window takes the ring back to current_file.
LEMMA ShowTabsKeepsRing ==
  ASSUME NEW r, Ring(r), NEW c, InRing(r) = {} \/ c \in InRing(r)
  PROVE  LET s == ShowTabs(r, c)
         IN  Ring(s) /\ InRing(s) = InRing(r) /\ s.cur = IF InRing(r) = {} THEN None ELSE c
  <1>1. CASE InRing(r) = {}
    BY <1>1, AnchorInRing DEF ShowTabs, GoHead, SetCurrent, Ring, Shape, Linked, InRing
  <1>2. CASE c \in InRing(r)
    <2>1. r.head \in InRing(r)
      BY <1>2, AnchorInRing DEF Ring
    <2>2. Ring(GoHead(r)) /\ InRing(GoHead(r)) = InRing(r)
      BY <2>1, MoveKeepsRing DEF GoHead
    <2> QED
      BY <1>2, <2>2, MoveKeepsRing DEF ShowTabs, SetCurrent
  <1> QED
    BY <1>1, <1>2

(***************************************************************************)
(* The steps.                                                              *)
(***************************************************************************)

\* A ring made by a step, shown with its own current node, keeps the invariant.
LEMMA ShownKeepsInv ==
  ASSUME NEW r, Ring(r), ring' = ShowTabs(r, r.cur), current' = r.cur
  PROVE  RingInv'
  <1>1. InRing(r) = {} \/ r.cur \in InRing(r)
    BY AnchorInRing DEF Ring
  <1>2. Ring(ring') /\ InRing(ring') = InRing(r)
        /\ ring'.cur = IF InRing(r) = {} THEN None ELSE r.cur
    BY <1>1, ShowTabsKeepsRing
  <1> QED
    BY <1>1, <1>2, AnchorInRing DEF RingInv, Ring

LEMMA EnterKeepsInv ==
  ASSUME RingInv, NEW op, NEW f, NEW dk, Enter(op, f, dk)
  PROVE  RingInv'
  <1>1. PICK n \in Node \ InRing(ring) :
          ring' = ShowTabs(AddNode(ring, n), n) /\ current' = n
    BY DEF Enter
  <1>2. Ring(AddNode(ring, n)) /\ n \in InRing(AddNode(ring, n))
    BY AddKeepsRing DEF RingInv, Ring
  <1>3. Ring(ring') /\ InRing(ring') = InRing(AddNode(ring, n)) /\ ring'.cur = n
    BY <1>1, <1>2, ShowTabsKeepsRing
  <1> QED
    BY <1>1, <1>2, <1>3 DEF RingInv

LEMMA GoToKeepsInv ==
  ASSUME RingInv, NEW op, NEW n \in InRing(ring), GoTo(op, [ring EXCEPT !.cur = n])
  PROVE  RingInv'
  <1>1. Ring([ring EXCEPT !.cur = n])
    BY MoveKeepsRing DEF RingInv
  <1> QED
    BY <1>1, ShownKeepsInv DEF GoTo

LEMMA LoadKeepsInv ==
  ASSUME RingInv, current = None, OpenArgument \/ Start
  PROVE  RingInv'
  <1>1. CASE OpenArgument
    <2>1. PICK n \in Node \ InRing(ring) :
            ring' = AddNode(ring, n) \/ ring' = RemoveNode(AddNode(ring, n), n)
      BY <1>1 DEF OpenArgument
    <2>2. Ring(AddNode(ring, n)) /\ n \in InRing(AddNode(ring, n))
      BY AddKeepsRing DEF RingInv, Ring
    <2>3. Ring(ring')
      BY <2>1, <2>2, RemoveKeepsRing DEF Ring
    <2> QED
      BY <1>1, <2>3 DEF OpenArgument, RingInv
  <1>2. CASE Start
    <2>1. CASE ring.cur # None
      BY <1>2, <2>1, ShownKeepsInv DEF Start, Begin, RingInv
    <2>2. CASE ring.cur = None
      <3>1. PICK n \in Node : Begin(AddNode(ring, n), Put(file, n, Blank))
        BY <1>2, <2>2 DEF Start
      <3>2. InRing(ring) = {}
        BY <2>2, AnchorInRing DEF RingInv, Ring
      <3>3. Ring(AddNode(ring, n))
        BY <3>2, AddKeepsRing DEF RingInv, Ring
      <3> QED
        BY <3>1, <3>3, ShownKeepsInv DEF Begin
    <2> QED
      BY <2>1, <2>2
  <1> QED
    BY <1>1, <1>2

(***************************************************************************)
(* The row of tabs.                                                        *)
(***************************************************************************)

\* row lists the nodes of r, each once and each followed by its next
Cycle(r, row) ==
  /\ row \in Seq(Node)
  /\ InRing(r) = {row[i] : i \in 1 .. Len(row)}
  /\ \A i, j \in 1 .. Len(row) : row[i] = row[j] => i = j
  /\ \A i \in 1 .. Len(row) : r.next[row[i]] = row[IF i = Len(row) THEN 1 ELSE i + 1]

\* and starts at the head
Row(r, row) == Cycle(r, row) /\ (row # <<>> => row[1] = r.head)

RowInv ==
  /\ RingInv
  /\ \E row : Row(ring, row)
  /\ current = None => ring.cur = ring.head

(***************************************************************************)
(* The walk around the ring.                                               *)
(***************************************************************************)

\* Facts about a row that the proofs below use place by place.
LEMMA RowFacts ==
  ASSUME NEW r, NEW row, Cycle(r, row)
  PROVE  /\ Len(row) \in Nat
         /\ \A i \in 1 .. Len(row) : row[i] \in InRing(r) /\ row[i] \in Node
         /\ \A n \in InRing(r) : \E i \in 1 .. Len(row) : row[i] = n
         /\ row = <<>> <=> InRing(r) = {}
         /\ row = <<>> <=> Len(row) = 0
         /\ Cardinality(InRing(r)) = Len(row)
  <1>1. Len(row) \in Nat /\ \A i \in 1 .. Len(row) : row[i] \in InRing(r) /\ row[i] \in Node
    BY LenProperties DEF Cycle
  <1>2. \A n \in InRing(r) : \E i \in 1 .. Len(row) : row[i] = n
    BY DEF Cycle
  <1>3. row = <<>> <=> Len(row) = 0
    BY EmptySeq DEF Cycle
  <1>4. Cardinality(InRing(r)) = Len(row)
    BY RowCardinality DEF Cycle
  <1> QED
    BY <1>1, <1>2, <1>3, <1>4

\* From the first node of a row once around the ring is the row.
LEMMA WalkIsRow ==
  ASSUME NEW r, NEW row, Cycle(r, row), row # <<>>
  PROVE  From(r, row[1]) = row
  <1> DEFINE turn == Cardinality(InRing(r))
             Walk(g) == g = [k \in 0 .. turn |-> IF k = 0 THEN row[1] ELSE r.next[g[k - 1]]]
             w == [k \in 0 .. turn |-> IF k < turn THEN row[k + 1] ELSE row[1]]
             walk == CHOOSE g : Walk(g)
  <1>1. turn = Len(row) /\ turn \in Nat \ {0}
    BY RowFacts
  <1>2. Walk(w)
    <2> DEFINE v == [k \in 0 .. turn |-> IF k = 0 THEN row[1] ELSE r.next[w[k - 1]]]
    <2>1. ASSUME NEW k \in 0 .. turn PROVE w[k] = v[k]
      <3>1. CASE k = 0
        BY <1>1, <3>1
      <3>2. CASE k # 0
        <4>1. w[k - 1] = row[k]
          BY <1>1, <3>2
        <4>2. r.next[row[k]] = row[IF k = Len(row) THEN 1 ELSE k + 1]
          <5>1. k \in 1 .. Len(row)
            BY <1>1, <3>2
          <5> QED
            BY <5>1 DEF Cycle
        <4> QED
          BY <1>1, <3>2, <4>1, <4>2
      <3> QED
        BY <3>1, <3>2
    <2>2. w = [k \in 0 .. turn |-> w[k]] /\ v = [k \in 0 .. turn |-> v[k]]
      OBVIOUS
    <2>3. w = v
      BY <2>1, <2>2
    <2> QED
      BY <2>3
  <1>3. Walk(walk)
    <2> HIDE DEF Walk, w
    <2> QED
      BY <1>2
  <1>4. \A k \in 0 .. turn : walk[k] = w[k]
    <2> DEFINE S == {k \in 0 .. turn : walk[k] = w[k]}
    <2> HIDE DEF walk, w, turn
    <2>w. /\ w[0] = row[1]
          /\ \A k \in 0 .. turn - 1 : w[k + 1] = r.next[w[k]]
      BY <1>1, <1>2
    <2>v. /\ walk[0] = row[1]
          /\ \A k \in 0 .. turn - 1 : walk[k + 1] = r.next[walk[k]]
      BY <1>1, <1>3
    <2>1. 0 \in S
      BY <1>1, <2>w, <2>v
    <2>2. \A k \in 0 .. turn - 1 : k \in S => k + 1 \in S
      BY <1>1, <2>w, <2>v
    <2>3. turn \in Nat
      BY <1>1
    <2>4. 0 .. turn \subseteq S
      <3> HIDE DEF S
      <3> QED
        BY <2>1, <2>2, <2>3, UpTo
    <2> QED
      BY <2>4
  <1>5. From(r, row[1]) = [k \in 1 .. turn |-> walk[k - 1]]
    BY DEF From
  <1>6. \A k \in 1 .. turn : walk[k - 1] = row[k]
    <2> HIDE DEF walk
    <2>1. ASSUME NEW k \in 1 .. turn PROVE walk[k - 1] = row[k]
      BY <1>1, <1>4
    <2> QED
      BY <2>1
  <1>7. row = [k \in 1 .. turn |-> row[k]]
    <2> HIDE DEF turn
    <2> QED
      BY <1>1, LenProperties DEF Cycle
  <1> HIDE DEF walk, turn
  <1> QED
    BY <1>5, <1>6, <1>7

\* A walk around no ring meets nothing.
LEMMA NoWalk ==
  ASSUME NEW r, NEW n, InRing(r) = {}
  PROVE  From(r, n) = <<>>
  <1>1. Cardinality(InRing(r)) = 0
    BY FS_EmptySet
  <1> QED
    BY <1>1 DEF From

(***************************************************************************)
(* The operations on a row.                                                *)
(***************************************************************************)

\* The first file of a session.
LEMMA AddFirst ==
  ASSUME NEW r, Linked(r), InRing(r) = {}, NEW n \in Node
  PROVE  Row(AddNode(r, n), <<n>>)
  <1>1. r.cur = None
    BY AnchorInRing
  <1>2. AddNode(r, n).head = n /\ InRing(AddNode(r, n)) = {n} /\ AddNode(r, n).next[n] = n
    BY <1>1 DEF AddNode, InRing
  <1> HIDE DEF AddNode
  <1>3. <<n>> \in Seq(Node) /\ Len(<<n>>) = 1 /\ <<n>>[1] = n
    OBVIOUS
  <1> QED
    BY <1>2, <1>3 DEF Row, Cycle

\* vf_add_fm_to_ring: the new node comes just before the current one, and behind
\* the last when that is the first.
LEMMA AddToRow ==
  ASSUME NEW r, Linked(r), NEW row, Row(r, row), NEW p \in 1 .. Len(row), r.cur = row[p],
         NEW n \in Node \ InRing(r)
  PROVE  Row(AddNode(r, n), InsertAt(row, IF p = 1 THEN Len(row) + 1 ELSE p, n))
  <1> DEFINE q   == IF p = 1 THEN Len(row) + 1 ELSE p
             b   == IF p = 1 THEN Len(row) ELSE p - 1
             s   == AddNode(r, n)
             new == InsertAt(row, q, n)
  <1>1. /\ Len(row) \in Nat /\ row \in Seq(Node) /\ row # <<>>
        /\ \A i \in 1 .. Len(row) : row[i] \in InRing(r)
    BY RowFacts DEF Row, Cycle
  <1>2. /\ q \in 1 .. Len(row) + 1 /\ b \in 1 .. Len(row)
        /\ q # 1 /\ b = q - 1 /\ p = IF q = Len(row) + 1 THEN 1 ELSE q
    BY <1>1
  <1>3. /\ new \in Seq(Node) /\ Len(new) = Len(row) + 1
        /\ \A i \in 1 .. Len(row) + 1 :
             new[i] = IF i < q THEN row[i] ELSE IF i = q THEN n ELSE row[i - 1]
    <2> HIDE DEF q, b
    <2> QED
      BY <1>1, <1>2, InsertAtIs
  <1>n. \A h \in 1 .. Len(row) : r.next[row[h]] = row[IF h = Len(row) THEN 1 ELSE h + 1]
    BY DEF Row, Cycle
  <1>4. r.last[r.cur] = row[b]
    <2>1. r.next[row[b]] = row[p]
      <3>1. CASE p = 1
        BY <1>1, <1>2, <1>n, <3>1
      <3>2. CASE p # 1
        <4>1. b # Len(row) /\ b + 1 = p
          BY <1>1, <1>2, <3>2
        <4> QED
          BY <1>2, <1>n, <4>1
      <3> QED
        BY <3>1, <3>2
    <2> QED
      BY <1>1, <1>2, <2>1 DEF Linked
  <1>5. r.cur # None /\ r.cur \in InRing(r)
    BY <1>1, AnchorInRing
  <1>6. /\ InRing(s) = InRing(r) \cup {n} /\ s.head = r.head
        /\ \A m \in InRing(s) :
             s.next[m] = IF m = row[b] THEN n ELSE IF m = n THEN row[p] ELSE r.next[m]
    BY <1>4, <1>5 DEF AddNode, InRing
  <1> HIDE DEF s, new, q, b
  <1>7. InRing(s) = {new[i] : i \in 1 .. Len(new)}
    <2>1. ASSUME NEW i \in 1 .. Len(new) PROVE new[i] \in InRing(s)
      <3>1. CASE i < q
        BY <1>1, <1>2, <1>3, <1>6, <3>1
      <3>2. CASE i = q
        BY <1>1, <1>2, <1>3, <1>6, <3>2
      <3>3. CASE i > q
        <4>1. i - 1 \in 1 .. Len(row) /\ new[i] = row[i - 1]
          BY <1>1, <1>2, <1>3, <3>3
        <4> QED
          BY <1>1, <1>6, <4>1
      <3> QED
        BY <1>1, <1>2, <1>3, <3>1, <3>2, <3>3
    <2>2. ASSUME NEW m \in InRing(s) PROVE \E i \in 1 .. Len(new) : new[i] = m
      <3>1. CASE m = n
        BY <1>1, <1>2, <1>3, <3>1
      <3>2. CASE m # n
        <4>1. PICK i \in 1 .. Len(row) : row[i] = m
          BY <1>6, <3>2, RowFacts DEF Row
        <4>2. CASE i < q
          BY <1>1, <1>2, <1>3, <4>1, <4>2
        <4>3. CASE i >= q
          <5>1. i + 1 \in 1 .. Len(new) /\ new[i + 1] = row[i]
            BY <1>1, <1>2, <1>3, <4>3
          <5> QED
            BY <4>1, <5>1
        <4> QED
          BY <1>2, <4>2, <4>3
      <3> QED
        BY <3>1, <3>2
    <2> QED
      BY <2>1, <2>2
  <1>u. \A i, j \in 1 .. Len(row) : row[i] = row[j] => i = j
    BY DEF Row, Cycle
  <1>8. ASSUME NEW i \in 1 .. Len(new), NEW j \in 1 .. Len(new), new[i] = new[j]
        PROVE  i = j
    <2> DEFINE k == IF i < q THEN i ELSE i - 1
               l == IF j < q THEN j ELSE j - 1
    <2>1. /\ i # q => k \in 1 .. Len(row) /\ new[i] = row[k]
          /\ j # q => l \in 1 .. Len(row) /\ new[j] = row[l]
          /\ i = q => new[i] = n
          /\ j = q => new[j] = n
      BY <1>1, <1>2, <1>3
    <2>2. CASE i = q \/ j = q
      <3> HIDE DEF k, l
      <3> QED
        BY <1>1, <1>8, <2>1, <2>2
    <2>3. CASE i # q /\ j # q
      <3>1. /\ k \in 1 .. Len(row) /\ l \in 1 .. Len(row)
            /\ new[i] = row[k] /\ new[j] = row[l]
        BY <2>1, <2>3
      <3>2. k = l
        <4> HIDE DEF k, l
        <4> QED
          BY <1>u, <1>8, <3>1
      <3> QED
        BY <1>2, <2>3, <3>2
    <2> QED
      BY <2>2, <2>3
  <1>9. ASSUME NEW i \in 1 .. Len(new)
        PROVE  s.next[new[i]] = new[IF i = Len(new) THEN 1 ELSE i + 1]
    <2>s. new[i] \in InRing(s)
      BY <1>7
    <2>1. CASE i = q
      <3>1. s.next[new[i]] = row[p]
        BY <1>1, <1>2, <1>3, <1>6, <2>1, <2>s
      <3>2. CASE q = Len(row) + 1
        BY <1>1, <1>2, <1>3, <2>1, <3>1, <3>2
      <3>3. CASE q # Len(row) + 1
        <4>1. new[i + 1] = row[p] /\ i # Len(new)
          BY <1>1, <1>2, <1>3, <2>1, <3>3
        <4> QED
          BY <3>1, <4>1
      <3> QED
        BY <3>2, <3>3
    <2>2. CASE i = b
      <3>1. new[i] = row[b] /\ new[i + 1] = n /\ i # Len(new)
        BY <1>1, <1>2, <1>3, <2>2
      <3> QED
        BY <1>6, <2>s, <3>1
    <2>3. CASE i < b
      <3>1. new[i] = row[i] /\ i \in 1 .. Len(row) /\ new[i + 1] = row[i + 1] /\ i # Len(new)
            /\ i # Len(row) /\ i # b
        BY <1>1, <1>2, <1>3, <2>3
      <3>2. new[i] # row[b] /\ new[i] # n
        BY <1>1, <1>2, <1>u, <3>1
      <3> QED
        BY <1>6, <1>n, <2>s, <3>1, <3>2
    <2>4. CASE i > q
      <3>1. new[i] = row[i - 1] /\ i - 1 \in 1 .. Len(row) /\ i - 1 # b
        BY <1>1, <1>2, <1>3, <2>4
      <3>2. new[i] # row[b] /\ new[i] # n
        BY <1>1, <1>2, <1>u, <3>1
      <3>3. s.next[new[i]] = row[IF i - 1 = Len(row) THEN 1 ELSE i]
        <4>1. r.next[row[i - 1]] = row[IF i - 1 = Len(row) THEN 1 ELSE i - 1 + 1]
          BY <1>n, <3>1
        <4> QED
          BY <1>6, <2>s, <3>1, <3>2, <4>1
      <3>4. row[1] = new[1]
        BY <1>1, <1>2, <1>3
      <3>5. CASE i = Len(new)
        BY <1>1, <1>3, <3>3, <3>4, <3>5
      <3>6. CASE i # Len(new)
        <4>1. new[i + 1] = row[i] /\ i - 1 # Len(row)
          <5> HIDE DEF q, b, new
          <5>1. Len(row) \in Nat /\ q \in Nat /\ Len(new) = Len(row) + 1
            BY <1>1, <1>2, <1>3
          <5>2. i + 1 \in 1 .. Len(new) /\ i + 1 > q /\ i + 1 - 1 = i /\ i - 1 # Len(row)
            BY ONLY <2>4, <3>6, <5>1, i \in 1 .. Len(new)
          <5> QED
            BY <1>3, <5>1, <5>2
        <4> QED
          BY <3>3, <3>6, <4>1
      <3> QED
        BY <3>5, <3>6
    <2> QED
      BY <1>1, <1>2, <1>3, <2>1, <2>2, <2>3, <2>4
  <1>10. new[1] = s.head
    BY <1>1, <1>2, <1>3, <1>6 DEF Row
  <1> QED
    BY <1>3, <1>7, <1>8, <1>9, <1>10 DEF Row, Cycle, new, s, q

\* vf_remove_fm_from_ring: the row closes up.
LEMMA RemoveFromRow ==
  ASSUME NEW r, Linked(r), NEW row, Row(r, row), NEW p \in 1 .. Len(row)
  PROVE  Row(RemoveNode(r, row[p]), RemoveAt(row, p))
  <1> DEFINE s   == RemoveNode(r, row[p])
             new == RemoveAt(row, p)
             c   == Len(row)
             old(i) == IF i < p THEN i ELSE i + 1
  <1>1. /\ c \in Nat /\ row \in Seq(Node) /\ p \in 1 .. c
        /\ \A i \in 1 .. c : row[i] \in InRing(r)
        /\ \A n \in InRing(r) : \E i \in 1 .. c : row[i] = n
        /\ c # 0 /\ row[1] = r.head
    BY RowFacts DEF Row, Cycle
  <1>u. \A i, j \in 1 .. c : row[i] = row[j] => i = j
    BY DEF Row, Cycle
  <1>n. \A i \in 1 .. c : r.next[row[i]] = row[IF i = c THEN 1 ELSE i + 1]
    BY DEF Row, Cycle
  <1>3. /\ new \in Seq(Node) /\ Len(new) = c - 1
        /\ \A i \in 1 .. c - 1 : new[i] = row[old(i)]
    BY <1>1, RemoveAtIs
  <1>e. r.next[row[p]] = row[p] <=> c = 1
    <2> HIDE DEF c
    <2>1. CASE c = 1
      BY <1>1, <1>n, <2>1
    <2>2. CASE c # 1
      <3>1. (IF p = c THEN 1 ELSE p + 1) \in 1 .. c /\ (IF p = c THEN 1 ELSE p + 1) # p
        BY <1>1, <2>2
      <3> QED
        BY <1>1, <1>u, <1>n, <2>2, <3>1
    <2> QED
      BY <2>1, <2>2
  <1>4. CASE c = 1
    <2>1. s = EmptyRing
      BY <1>e, <1>4 DEF RemoveNode
    <2>2. new = <<>>
      BY <1>3, <1>4, EmptySeq
    <2>3. InRing(s) = {} /\ Row(s, <<>>)
      BY <2>1, EmptySeq DEF EmptyRing, InRing, Row, Cycle
    <2> QED
      BY <2>2, <2>3
  <1>5. CASE c # 1
    <2> DEFINE before == IF p = 1 THEN c ELSE p - 1
               after  == IF p = c THEN 1 ELSE p + 1
    <2>1. /\ before \in 1 .. c /\ after \in 1 .. c /\ before # p /\ after # p
          /\ before # c => before + 1 = p
          /\ before = c => p = 1
      <3> HIDE DEF c
      <3>1. CASE p = 1
        BY <1>1, <1>5, <3>1
      <3>2. CASE p # 1
        BY <1>1, <1>5, <3>2
      <3> QED
        BY <3>1, <3>2
    <2>2. r.last[row[p]] = row[before] /\ r.next[row[p]] = row[after]
      <3>1. r.next[row[before]] = row[p]
        <4> HIDE DEF before
        <4>1. r.next[row[before]] = row[IF before = c THEN 1 ELSE before + 1]
          BY <1>n, <2>1
        <4> QED
          BY <2>1, <4>1
      <3>2. r.last[row[p]] = row[before]
        BY <1>1, <2>1, <3>1 DEF Linked
      <3> QED
        BY <1>1, <1>n, <3>2
    <2>3. /\ InRing(s) = InRing(r) \ {row[p]}
          /\ s.head = IF r.head = row[p] THEN row[after] ELSE r.head
          /\ \A m \in InRing(s) : s.next[m] = IF m = row[before] THEN row[after] ELSE r.next[m]
      BY <1>5, <1>e, <2>2 DEF RemoveNode, InRing
    <2>4. \A i \in 1 .. c - 1 : old(i) \in 1 .. c /\ old(i) # p
      BY <1>1
    <2>5. \A h \in 1 .. c : h # p => \E i \in 1 .. c - 1 : old(i) = h
      <3> SUFFICES ASSUME NEW h \in 1 .. c, h # p PROVE \E i \in 1 .. c - 1 : old(i) = h
        OBVIOUS
      <3>1. CASE h < p
        <4>1. h \in 1 .. c - 1 /\ old(h) = h
          BY <1>1, <3>1
        <4> QED
          BY <4>1
      <3>2. CASE h > p
        <4>1. h - 1 \in 1 .. c - 1 /\ old(h - 1) = h
          BY <1>1, <3>2
        <4> QED
          BY <4>1
      <3> QED
        BY <1>1, <3>1, <3>2
    <2>6. \A i, j \in 1 .. c - 1 : old(i) = old(j) => i = j
      BY <1>1
    <2>o. ASSUME NEW i \in 1 .. c - 1
          PROVE  /\ old(i) = before <=> i = IF p = 1 THEN c - 1 ELSE p - 1
                 /\ i = c - 1 => \/ old(i) = before /\ old(1) = after
                                 \/ old(i) # before /\ old(i) = c /\ old(1) = 1
                 /\ i # c - 1 => \/ old(i) = before /\ old(i + 1) = after
                                 \/ old(i) # before /\ old(i) # c /\ old(i + 1) = old(i) + 1
      BY <1>1, <1>5
    <2> HIDE DEF s, new, old, before, after, c
    <2>7. InRing(s) = {new[i] : i \in 1 .. c - 1}
      <3>1. ASSUME NEW i \in 1 .. c - 1 PROVE new[i] \in InRing(s)
        <4>1. new[i] = row[old(i)] /\ old(i) \in 1 .. c /\ old(i) # p
          BY <1>3, <2>4
        <4> QED
          BY <1>1, <1>u, <2>3, <4>1
      <3>2. ASSUME NEW m \in InRing(s) PROVE \E i \in 1 .. c - 1 : new[i] = m
        <4>1. PICK h \in 1 .. c : row[h] = m
          BY <1>1, <2>3
        <4>2. h # p
          BY <2>3, <4>1
        <4> QED
          BY <1>3, <2>5, <4>1, <4>2
      <3> QED
        BY <3>1, <3>2
    <2>8. \A i, j \in 1 .. c - 1 : new[i] = new[j] => i = j
      BY <1>3, <1>u, <2>4, <2>6
    <2>9. ASSUME NEW i \in 1 .. c - 1
          PROVE  s.next[new[i]] = new[IF i = c - 1 THEN 1 ELSE i + 1]
      <3>1. new[i] = row[old(i)] /\ old(i) \in 1 .. c /\ new[i] \in InRing(s)
        BY <1>3, <2>4, <2>7
      <3>2. CASE old(i) = before
        <4>1. s.next[new[i]] = row[after]
          BY <2>3, <3>1, <3>2
        <4>2. CASE i = c - 1
          <5>1. new[1] = row[old(1)] /\ old(1) = after
            BY <1>1, <1>3, <1>5, <2>o, <3>2, <4>2
          <5> QED
            BY <4>1, <4>2, <5>1
        <4>3. CASE i # c - 1
          <5>1. new[i + 1] = row[old(i + 1)] /\ old(i + 1) = after
            BY <1>1, <1>3, <2>o, <3>2, <4>3
          <5> QED
            BY <4>1, <4>3, <5>1
        <4> QED
          BY <4>2, <4>3
      <3>3. CASE old(i) # before
        <4>1. s.next[new[i]] = r.next[row[old(i)]]
          BY <1>u, <2>1, <2>3, <3>1, <3>3
        <4>2. CASE i = c - 1
          <5>1. new[1] = row[old(1)] /\ old(1) = 1 /\ old(i) = c
            BY <1>1, <1>3, <1>5, <2>o, <3>3, <4>2
          <5> QED
            BY <1>n, <3>1, <4>1, <4>2, <5>1
        <4>3. CASE i # c - 1
          <5>1. i + 1 \in 1 .. c - 1
            BY <1>1, <4>3
          <5>2. new[i + 1] = row[old(i + 1)]
            BY <1>3, <5>1
          <5>3. old(i + 1) = old(i) + 1 /\ old(i) # c
            BY <2>o, <3>3, <4>3
          <5> QED
            BY <1>n, <3>1, <4>1, <4>3, <5>2, <5>3
        <4> QED
          BY <4>2, <4>3
      <3> QED
        BY <3>2, <3>3
    <2>10. new[1] = s.head
      <3>1. new[1] = row[old(1)]
        BY <1>1, <1>3, <1>5
      <3>2. CASE p = 1
        <4>1. old(1) = 2 /\ after = 2
          BY <1>1, <1>5, <3>2 DEF old, after
        <4> QED
          BY <1>1, <2>3, <3>1, <3>2, <4>1
      <3>3. CASE p # 1
        <4>1. old(1) = 1 /\ r.head # row[p]
          BY <1>1, <1>u, <1>5, <3>3 DEF old
        <4> QED
          BY <1>1, <2>3, <3>1, <4>1
      <3> QED
        BY <3>2, <3>3
    <2> QED
      BY <1>3, <2>7, <2>8, <2>9, <2>10 DEF Row, Cycle, new, s, c
  <1> QED
    BY <1>4, <1>5

\* Only the current node is another one: the row is the same.
LEMMA MoveKeepsRow ==
  ASSUME NEW r, Ring(r), NEW row, NEW n
  PROVE  Row([r EXCEPT !.cur = n], row) <=> Row(r, row)
  BY DEF Ring, Shape, Row, Cycle, InRing

(***************************************************************************)
(* The tab bar of a ring.                                                  *)
(***************************************************************************)

\* r shows the tabs of row, and the p-th of them is the chosen one
Shows(r, row, p) ==
  /\ Row(r, row)
  /\ IF row = <<>> THEN r.cur = None /\ p = 1 ELSE p \in 1 .. Len(row) /\ r.cur = row[p]

\* That is what the tab bar is mapped to.
LEMMA BarIs ==
  ASSUME NEW r, Linked(r), NEW row, NEW p, Shows(r, row, p)
  PROVE  /\ From(r, r.head) = row
         /\ (IF r.cur = None THEN 1 ELSE CHOOSE i \in DOMAIN row : row[i] = r.cur) = p
  <1>1. CASE row = <<>>
    <2>1. InRing(r) = {}
      BY <1>1, RowFacts DEF Shows, Row
    <2> QED
      BY <1>1, <2>1, NoWalk DEF Shows
  <1>2. CASE row # <<>>
    <2>1. Cycle(r, row) /\ row[1] = r.head /\ p \in 1 .. Len(row) /\ r.cur = row[p]
      BY <1>2 DEF Shows, Row
    <2>2. From(r, r.head) = row
      BY <1>2, <2>1, WalkIsRow
    <2>3. r.cur # None
      BY <2>1, RowFacts, AnchorInRing
    <2>4. DOMAIN row = 1 .. Len(row)
      BY <2>1, LenProperties DEF Cycle
    <2>5. \A i \in DOMAIN row : row[i] = r.cur <=> i = p
      BY <2>1, <2>4 DEF Cycle
    <2> QED
      BY <2>1, <2>2, <2>3, <2>4, <2>5
  <1> QED
    BY <1>1, <1>2

\* A ring with a row shows one of its tabs.
LEMMA RowShows ==
  ASSUME NEW r, Linked(r), NEW row, Row(r, row)
  PROVE  \E p : Shows(r, row, p)
  <1>1. CASE row = <<>>
    BY <1>1, RowFacts, AnchorInRing DEF Shows, Row
  <1>2. CASE row # <<>>
    BY <1>2, RowFacts, AnchorInRing DEF Shows, Row
  <1> QED
    BY <1>1, <1>2

LEMMA BarNow ==
  ASSUME RowInv
  PROVE  Shows(ring, TabRow, TabChosen)
  <1>1. PICK row, p : Shows(ring, row, p)
    BY RowShows DEF RowInv, RingInv, Ring
  <1>2. TabRow = row
    BY <1>1, BarIs DEF TabRow, RowInv, RingInv, Ring
  <1>3. TabChosen = p
    BY <1>1, <1>2, BarIs DEF TabChosen, RowInv, RingInv, Ring
  <1> QED
    BY <1>1, <1>2, <1>3

\* The tabs of a ring are its nodes.
LEMMA TabsAreNodes ==
  ASSUME NEW r, NEW row, Row(r, row)
  PROVE  /\ ToSet(row) = InRing(r)
         /\ DOMAIN row = 1 .. Len(row) /\ Len(row) \in Nat
         /\ row \in Seq(Node)
  <1>1. row \in Seq(Node) /\ DOMAIN row = 1 .. Len(row) /\ Len(row) \in Nat
    BY LenProperties DEF Row, Cycle
  <1> QED
    BY <1>1 DEF ToSet, Row, Cycle

\* What has to be shown of a step: the ring that it leaves shows the tabs row,
\* the p-th of them chosen.
LEMMA StepShows ==
  ASSUME RingInv', NEW row, NEW p, Shows(ring', row, p),
         current' = None => ring'.cur = ring'.head
  PROVE  RowInv' /\ TabRow' = row /\ TabChosen' = p
  <1>1. RowInv'
    BY DEF RowInv, Shows
  <1>2. TabRow' = row
    BY BarIs DEF TabRow, RingInv, Ring
  <1>3. TabChosen' = p
    BY <1>2, BarIs DEF TabChosen, RingInv, Ring
  <1> QED
    BY <1>1, <1>2, <1>3

\* update_file_tabs_window has no other effect than to show c.
LEMMA ShowTabsIs ==
  ASSUME NEW r, Ring(r)
  PROVE  /\ \A c \in InRing(r) : ShowTabs(r, c) = [r EXCEPT !.cur = c]
         /\ ShowTabs(r, r.cur) = r
  <1>1. InRing(GoHead(r)) = InRing(r)
    BY DEF GoHead, InRing, Ring, Shape
  <1>2. \A c \in InRing(r) : ShowTabs(r, c) = [r EXCEPT !.cur = c]
    BY <1>1 DEF ShowTabs, SetCurrent, GoHead, Ring, Shape
  <1>3. CASE InRing(r) = {}
    <2>1. r.cur = r.head
      BY <1>3, AnchorInRing DEF Ring
    <2>2. ShowTabs(r, r.cur) = GoHead(r)
      BY <1>1, <1>3 DEF ShowTabs, SetCurrent
    <2> QED
      BY <1>2, <1>3, <2>1, <2>2 DEF GoHead, Ring, Shape
  <1>4. CASE InRing(r) # {}
    <2>1. r.cur \in InRing(r)
      BY <1>4, AnchorInRing DEF Ring
    <2> QED
      BY <1>2, <2>1 DEF Ring, Shape
  <1> QED
    BY <1>2, <1>3, <1>4

(***************************************************************************)
(* The walks of :wa and :qa.                                               *)
(***************************************************************************)

\* Once around the ring from any of its nodes is a row of all of them.
LEMMA Rotated ==
  ASSUME NEW r, NEW row, Cycle(r, row), NEW n \in InRing(r)
  PROVE  Cycle(r, From(r, n)) /\ From(r, n)[1] = n
  <1>1. PICK p \in 1 .. Len(row) : row[p] = n
    BY RowFacts
  <1> DEFINE len == Len(row)
             At(i) == IF i + p - 1 <= len THEN i + p - 1 ELSE i + p - 1 - len
             new == [i \in 1 .. len |-> row[At(i)]]
  <1>2. /\ len \in Nat \ {0} /\ row \in Seq(Node)
        /\ \A i \in 1 .. len : row[i] \in Node
        /\ \A i, j \in 1 .. len : row[i] = row[j] => i = j
    BY <1>1, RowFacts DEF Cycle
  <1>3. /\ \A i \in 1 .. len : At(i) \in 1 .. len
        /\ \A i, j \in 1 .. len : At(i) = At(j) => i = j
        /\ \A i \in 1 .. len : \E j \in 1 .. len : At(j) = i
        /\ \A i \in 1 .. len : At(IF i = len THEN 1 ELSE i + 1) = IF At(i) = len THEN 1 ELSE At(i) + 1
        /\ At(1) = p
    <2>1. len \in Nat /\ p \in 1 .. len
      BY <1>1, <1>2
    <2> HIDE DEF len
    <2>2. ASSUME NEW i \in 1 .. len PROVE \E j \in 1 .. len : At(j) = i
      <3>1. CASE i >= p
        <4>1. i - p + 1 \in 1 .. len /\ At(i - p + 1) = i
          BY <2>1, <3>1
        <4> QED
          BY <4>1
      <3>2. CASE i < p
        <4>1. i - p + 1 + len \in 1 .. len /\ At(i - p + 1 + len) = i
          BY <2>1, <3>2
        <4> QED
          BY <4>1
      <3> QED
        BY <2>1, <3>1, <3>2
    <2> QED
      BY <2>1, <2>2
  <1> HIDE DEF At
  <1>4. new \in [1 .. len -> Node]
    BY <1>2, <1>3
  <1>5. new \in Seq(Node) /\ Len(new) = len
    BY <1>2, <1>4, FcnIsRow
  <1>6. \A i \in 1 .. len : new[i] = row[At(i)]
    OBVIOUS
  <1> HIDE DEF new
  <1>7. {row[i] : i \in 1 .. len} = {new[i] : i \in 1 .. len}
    <2>1. \A i \in 1 .. len : \E j \in 1 .. len : row[i] = new[j]
      BY <1>3, <1>6
    <2>2. \A i \in 1 .. len : \E j \in 1 .. len : new[i] = row[j]
      BY <1>3, <1>6
    <2>3. ASSUME NEW x PROVE x \in {row[i] : i \in 1 .. len} <=> x \in {new[i] : i \in 1 .. len}
      <3>1. x \in {row[i] : i \in 1 .. len} <=> \E i \in 1 .. len : x = row[i]
        OBVIOUS
      <3>2. x \in {new[i] : i \in 1 .. len} <=> \E i \in 1 .. len : x = new[i]
        OBVIOUS
      <3> QED
        BY <2>1, <2>2, <3>1, <3>2
    <2> QED
      BY <2>3
  <1>8. ASSUME NEW i \in 1 .. len
        PROVE  r.next[new[i]] = new[IF i = len THEN 1 ELSE i + 1]
    <2>1. r.next[row[At(i)]] = row[IF At(i) = len THEN 1 ELSE At(i) + 1]
      BY <1>3 DEF Cycle
    <2>2. (IF i = len THEN 1 ELSE i + 1) \in 1 .. len
      BY <1>2
    <2> QED
      BY <1>3, <1>6, <2>1, <2>2
  <1>9. Cycle(r, new)
    <2>1. InRing(r) = {new[i] : i \in 1 .. len}
      BY <1>7 DEF Cycle
    <2>2. ASSUME NEW i \in 1 .. len, NEW j \in 1 .. len, new[i] = new[j] PROVE i = j
      <3>1. row[At(i)] = row[At(j)] /\ At(i) \in 1 .. len /\ At(j) \in 1 .. len
        BY <1>3, <1>6, <2>2
      <3>2. At(i) = At(j)
        BY <1>2, <3>1
      <3> QED
        BY <1>3, <3>2
    <2> HIDE DEF len
    <2> QED
      BY <1>5, <1>8, <2>1, <2>2 DEF Cycle
  <1>10. new # <<>> /\ new[1] = n
    <2>1. len # 0 /\ 1 \in 1 .. len
      BY <1>1, <1>2
    <2>2. new # <<>>
      BY <1>5, <2>1
    <2>3. new[1] = n
      BY <1>1, <1>2, <1>3, <1>6, <2>1
    <2> QED
      BY <2>2, <2>3
  <1>11. From(r, n) = new
    BY <1>9, <1>10, WalkIsRow
  <1> QED
    BY <1>9, <1>10, <1>11

\* The walk of action_save_all goes from turn to turn.
LEMMA SaveWalkIs ==
  ASSUME NEW last \in Nat, NEW ask
  PROVE  \E walk : /\ walk[0] = SetOut
                   /\ \A k \in 0 .. last - 1 :
                        walk[k + 1] = IF k + 1 > 1 /\ walk[k].ring.cur = current THEN walk[k]
                                      ELSE SaveNext(walk[k], ask)
                   /\ SaveWalk(last, ask) = walk[last]
  <1> DEFINE Step(a, k) == IF k > 1 /\ a.ring.cur = current THEN a ELSE SaveNext(a, ask)
             Is(g, m) == g = [k \in 0 .. m |-> IF k = 0 THEN SetOut ELSE Step(g[k - 1], k)]
             S == {m \in Nat : \E g : Is(g, m)}
             walk == CHOOSE g : Is(g, last)
  <1>1. 0 \in S
    <2> DEFINE g == [k \in 0 .. 0 |-> SetOut]
               h == [k \in 0 .. 0 |-> IF k = 0 THEN SetOut ELSE Step(g[k - 1], k)]
    <2>1. g = h
      <3>1. \A k \in 0 .. 0 : k = 0
        OBVIOUS
      <3> HIDE DEF Step
      <3> QED
        BY <3>1
    <2>2. Is(g, 0)
      BY <2>1
    <2> QED
      BY <2>2
  <1>2. ASSUME NEW m \in S PROVE m + 1 \in S
    <2>1. m \in Nat /\ m + 1 \in Nat
      OBVIOUS
    <2>2. PICK g : Is(g, m)
      OBVIOUS
    <2> DEFINE h == [k \in 0 .. m + 1 |-> IF k = m + 1 THEN Step(g[m], m + 1) ELSE g[k]]
               i == [k \in 0 .. m + 1 |-> IF k = 0 THEN SetOut ELSE Step(h[k - 1], k)]
    <2>3. ASSUME NEW k \in 0 .. m + 1 PROVE h[k] = i[k]
      <3> HIDE DEF Step
      <3>1. CASE k = m + 1
        <4>1. h[k - 1] = g[m] /\ k # 0
          BY <2>1, <3>1
        <4> QED
          BY <2>1, <3>1, <4>1
      <3>2. CASE k = 0
        BY <2>1, <2>2, <3>2
      <3>3. CASE k \in 1 .. m
        <4>1. h[k - 1] = g[k - 1] /\ h[k] = g[k]
          BY <2>1, <3>3
        <4>2. g[k] = Step(g[k - 1], k)
          BY <2>1, <2>2, <3>3
        <4> QED
          BY <2>1, <3>3, <4>1, <4>2
      <3> QED
        BY <2>1, <3>1, <3>2, <3>3
    <2>4. h = i
      BY <2>3
    <2>5. Is(h, m + 1)
      BY <2>4
    <2> QED
      BY <2>1, <2>5
  <1>3. S = Nat
    <2> HIDE DEF S
    <2>1. S \in SUBSET Nat
      BY DEF S
    <2> QED
      BY <1>1, <1>2, <2>1, SetInduction
  <1>4. Is(walk, last)
    <2>1. \E g : Is(g, last)
      BY <1>3
    <2> HIDE DEF Is
    <2> QED
      BY <2>1
  <1>5. SaveWalk(last, ask) = walk[last]
    BY DEF SaveWalk
  <1> HIDE DEF walk
  <1>6. walk[0] = SetOut
    BY <1>4
  <1>7. ASSUME NEW k \in 0 .. last - 1 PROVE walk[k + 1] = Step(walk[k], k + 1)
    <2> HIDE DEF Step
    <2>1. k + 1 \in 0 .. last /\ k + 1 # 0 /\ k + 1 - 1 = k
      OBVIOUS
    <2> QED
      BY <1>4, <2>1
  <1> QED
    BY <1>5, <1>6, <1>7

\* The turn of a walk from the node behind current_file on: every file of the
\* ring once, current_file last.
IsTurn(turn) ==
  /\ Cycle(ring, turn)
  /\ Len(turn) \in Nat \ {0} /\ Len(turn) = Cardinality(InRing(ring))
  /\ turn[1] = ring.next[current] /\ turn[Len(turn)] = current

LEMMA TurnExists ==
  ASSUME RowInv, current # None
  PROVE  \E turn : IsTurn(turn)
  <1>1. /\ current \in InRing(ring) /\ ring.cur = current /\ Linked(ring)
        /\ ring.next[current] \in InRing(ring)
    BY DEF RowInv, RingInv, Ring, Linked
  <1>2. PICK row : Cycle(ring, row)
    BY DEF RowInv, Row
  <1> DEFINE first == ring.next[current]
             turn  == From(ring, first)
  <1>3. Cycle(ring, turn) /\ turn[1] = first
    BY <1>1, <1>2, Rotated
  <1> HIDE DEF turn
  <1>4. Len(turn) \in Nat \ {0} /\ Len(turn) = Cardinality(InRing(ring))
    BY <1>1, <1>3, RowFacts
  <1>5. turn[Len(turn)] = current
    <2>1. Len(turn) \in 1 .. Len(turn) /\ turn[Len(turn)] \in InRing(ring)
      BY <1>3, <1>4, RowFacts
    <2>2. ring.next[turn[Len(turn)]] = turn[1]
      BY <1>3, <2>1 DEF Cycle
    <2> QED
      BY <1>1, <1>3, <2>1, <2>2 DEF Linked
  <1> QED
    BY <1>3, <1>4, <1>5 DEF IsTurn

\* One step of vf_get_next_fm_from_ring along the turn.
LEMMA TurnStep ==
  ASSUME RowInv, current # None, NEW turn, IsTurn(turn), NEW k \in 1 .. Len(turn)
  PROVE  /\ turn[k] \in InRing(ring)
         /\ turn[k] = current <=> k = Len(turn)
         /\ k < Len(turn) => GoNext([ring EXCEPT !.cur = turn[k]]) = [ring EXCEPT !.cur = turn[k + 1]]
         /\ GoNext(ring) = [ring EXCEPT !.cur = turn[1]]
  <1>1. /\ turn[k] \in InRing(ring) /\ Len(turn) \in Nat \ {0} /\ Len(turn) \in 1 .. Len(turn)
        /\ ring.cur = current /\ turn[1] = ring.next[current] /\ turn[Len(turn)] = current
        /\ ring = [next |-> ring.next, last |-> ring.last, cur |-> ring.cur, head |-> ring.head]
    BY RowFacts DEF IsTurn, RowInv, RingInv, Ring, Shape
  <1>2. turn[k] = current <=> k = Len(turn)
    BY <1>1 DEF IsTurn, Cycle
  <1>3. k < Len(turn) => ring.next[turn[k]] = turn[k + 1]
    BY <1>1 DEF IsTurn, Cycle
  <1> QED
    BY <1>1, <1>2, <1>3 DEF GoNext

\* The walk of :wa meets the files in turn.
LEMMA SaveAllInTurn ==
  ASSUME RowInv, current # None, NEW ask, NEW turn, IsTurn(turn)
  PROVE  \E walk :
           /\ walk[0] = SetOut
           /\ \A k \in 0 .. Len(turn) - 1 :
                walk[k + 1] = SaveAt(walk[k], [ring EXCEPT !.cur = turn[k + 1]], ask)
           /\ \A k \in 1 .. Len(turn) : walk[k].ring = [ring EXCEPT !.cur = turn[k]]
           /\ SaveAll(ask) = walk[Len(turn)]
  <1> DEFINE last  == Len(turn)
             At(k) == [ring EXCEPT !.cur = turn[k]]
  <1>1. last \in Nat \ {0} /\ last = Cardinality(InRing(ring))
    BY DEF IsTurn
  <1>2. PICK walk : /\ walk[0] = SetOut
                    /\ \A k \in 0 .. last - 1 :
                         walk[k + 1] = IF k + 1 > 1 /\ walk[k].ring.cur = current THEN walk[k]
                                       ELSE SaveNext(walk[k], ask)
                    /\ SaveWalk(last, ask) = walk[last]
    <2> HIDE DEF last
    <2> QED
      BY <1>1, SaveWalkIs
  <1>3. ASSUME NEW k \in 1 .. last
        PROVE  /\ turn[k] \in InRing(ring) /\ Ring(At(k)) /\ At(k).cur = turn[k]
               /\ turn[k] = current <=> k = last
               /\ k < last => GoNext(At(k)) = At(k + 1)
               /\ GoNext(ring) = At(1)
    <2>1. /\ turn[k] \in InRing(ring)
          /\ turn[k] = current <=> k = last
          /\ k < last => GoNext(At(k)) = At(k + 1)
          /\ GoNext(ring) = At(1)
      BY TurnStep
    <2>2. Ring(At(k)) /\ At(k).cur = turn[k]
      BY <2>1, MoveKeepsRing DEF RowInv, RingInv
    <2> QED
      BY <2>1, <2>2
  <1> HIDE DEF At, last
  <1>4. ASSUME NEW k \in 1 .. last, NEW t PROVE SaveAt(t, At(k), ask).ring = At(k)
    BY <1>3, ShowTabsIs DEF SaveAt
  <1> DEFINE Moved(k) == walk[k + 1] = SaveAt(walk[k], At(k + 1), ask) /\ walk[k + 1].ring = At(k + 1)
             S == {k \in 0 .. last - 1 : Moved(k)}
  <1>5. 0 \in S
    <2>1. 0 \in 0 .. last - 1 /\ 1 \in 1 .. last /\ ~(0 + 1 > 1) /\ 0 + 1 = 1
      BY <1>1
    <2>2. walk[1] = SaveNext(SetOut, ask)
      BY <1>2, <2>1
    <2>3. GoNext(SetOut.ring) = At(1)
      BY <1>3, <2>1 DEF SetOut
    <2>4. walk[1] = SaveAt(SetOut, At(1), ask)
      BY <2>2, <2>3 DEF SaveNext
    <2> QED
      BY <1>2, <1>4, <2>1, <2>4
  <1>6. ASSUME NEW k \in 0 .. last - 1 - 1, k \in S PROVE k + 1 \in S
    <2>1. /\ k + 1 \in 0 .. last - 1 /\ k + 1 \in 1 .. last /\ k + 1 < last /\ k + 1 + 1 \in 1 .. last
          /\ k + 1 + 1 > 1
      BY <1>1
    <2>2. walk[k + 1].ring = At(k + 1)
      BY <1>6
    <2>3. walk[k + 1].ring.cur # current
      BY <1>3, <2>1, <2>2
    <2>4. walk[k + 1 + 1] = SaveNext(walk[k + 1], ask)
      BY <1>2, <2>1, <2>3
    <2>5. GoNext(walk[k + 1].ring) = At(k + 1 + 1)
      BY <1>3, <2>1, <2>2
    <2>6. walk[k + 1 + 1] = SaveAt(walk[k + 1], At(k + 1 + 1), ask)
      BY <2>4, <2>5 DEF SaveNext
    <2>7. walk[k + 1 + 1].ring = At(k + 1 + 1)
      BY <1>4, <2>1, <2>6
    <2> QED
      BY <2>1, <2>6, <2>7
  <1>7. 0 .. last - 1 \subseteq S
    <2>1. last - 1 \in Nat
      BY <1>1
    <2> HIDE DEF S
    <2> QED
      BY <1>5, <1>6, <2>1, UpTo
  <1>8. ASSUME NEW k \in 1 .. last PROVE walk[k].ring = At(k)
    <2>1. k - 1 \in 0 .. last - 1 /\ k - 1 + 1 = k
      BY <1>1
    <2> QED
      BY <1>7, <2>1
  <1>9. SaveAll(ask) = walk[last]
    BY <1>1, <1>2 DEF SaveAll
  <1> QED
    BY <1>2, <1>7, <1>8, <1>9 DEF At, last

\* :wa comes back to current_file, and if that had to be saved it is what was
\* printed last.
LEMMA SaveAllReturns ==
  ASSUME RowInv, current # None, NEW ask
  PROVE  LET t == SaveAll(ask)
         IN  /\ t.ring = ring
             /\ t.printed \in InRing(ring) \cup {printed}
             /\ t.printed = current \/ ~NeedSave(t.saved.file[current])
  <1>1. PICK turn : IsTurn(turn)
    BY TurnExists
  <1> DEFINE last  == Len(turn)
             At(k) == [ring EXCEPT !.cur = turn[k]]
  <1>2. PICK walk : /\ walk[0] = SetOut
                    /\ \A k \in 0 .. last - 1 : walk[k + 1] = SaveAt(walk[k], At(k + 1), ask)
                    /\ \A k \in 1 .. last : walk[k].ring = At(k)
                    /\ SaveAll(ask) = walk[last]
    BY <1>1, SaveAllInTurn
  <1>3. last \in Nat \ {0} /\ turn[last] = current /\ \A k \in 1 .. last : turn[k] \in InRing(ring)
    BY <1>1, RowFacts DEF IsTurn
  <1>4. At(last) = ring /\ \A k \in 1 .. last : At(k).cur = turn[k]
    BY <1>3 DEF RowInv, RingInv, Ring, Shape
  <1> HIDE DEF last, At
  <1> DEFINE S == {k \in 0 .. last : walk[k].printed \in InRing(ring) \cup {printed}}
  <1>5. 0 \in S
    BY <1>2, <1>3 DEF SetOut
  <1>6. ASSUME NEW k \in 0 .. last - 1, k \in S PROVE k + 1 \in S
    <2>1. k + 1 \in 0 .. last /\ k + 1 \in 1 .. last
      BY <1>3
    <2>2. walk[k + 1].printed \in {turn[k + 1], walk[k].printed}
      <3> DEFINE t == walk[k]
                 r == At(k + 1)
      <3>1. walk[k + 1] = SaveAt(t, r, ask) /\ r.cur = turn[k + 1]
        BY <1>2, <1>4, <2>1
      <3> HIDE DEF t, r
      <3>2. SaveAt(t, r, ask).printed \in {r.cur, t.printed}
        BY DEF SaveAt
      <3> QED
        BY <3>1, <3>2 DEF t
    <2> QED
      BY <1>3, <1>6, <2>1, <2>2
  <1>7. last \in S
    <2>1. 0 .. last \subseteq S
      <3> HIDE DEF S
      <3> QED
        BY <1>3, <1>5, <1>6, UpTo
    <2> QED
      BY <1>3, <2>1
  <1>8. walk[last].printed = current \/ ~NeedSave(walk[last].saved.file[current])
    <2>1. last - 1 \in 0 .. last - 1 /\ last - 1 + 1 = last /\ last \in 1 .. last
      BY <1>3
    <2>2. walk[last] = SaveAt(walk[last - 1], At(last), ask) /\ At(last).cur = current
      BY <1>2, <1>3, <1>4, <2>1
    <2> DEFINE s == walk[last - 1].saved
    <2>3. CASE NeedSave(s.file[current])
      BY <2>2, <2>3 DEF SaveAt
    <2>4. CASE ~NeedSave(s.file[current])
      BY <2>2, <2>4 DEF SaveAt, SaveShown
    <2> QED
      BY <2>3, <2>4
  <1> QED
    BY <1>2, <1>3, <1>4, <1>7, <1>8

\* :qa stops at current_file or at a file with unsaved changes; in the first case
\* it has seen no such file on its way.
LEMMA AskedAtIs ==
  ASSUME RowInv, current # None, NEW fs
  PROVE  LET r == AskedAt(ring, fs)
         IN  /\ \E n \in InRing(ring) : r = [ring EXCEPT !.cur = n]
             /\ r.cur = current =>
                  r = ring /\ \A n \in InRing(ring) \ {current} : ~NeedSave(fs[n])
  <1>1. PICK turn : IsTurn(turn)
    BY TurnExists
  <1> DEFINE last  == Len(turn)
             At(k) == [ring EXCEPT !.cur = turn[k]]
             stops == {k \in 1 .. last : turn[k] = current \/ NeedSave(fs[turn[k]])}
             stop  == Bottom(stops)
  <1>2. last \in Nat \ {0} /\ last = Cardinality(InRing(ring))
    BY <1>1 DEF IsTurn
  <1>3. ASSUME NEW k \in 1 .. last
        PROVE  /\ turn[k] \in InRing(ring) /\ At(k).cur = turn[k]
               /\ turn[k] = current <=> k = last
               /\ k < last => GoNext(At(k)) = At(k + 1)
               /\ GoNext(ring) = At(1)
    <2>1. /\ turn[k] \in InRing(ring)
          /\ turn[k] = current <=> k = last
          /\ k < last => GoNext(At(k)) = At(k + 1)
          /\ GoNext(ring) = At(1)
      BY <1>1, TurnStep
    <2>2. At(k).cur = turn[k]
      BY DEF RowInv, RingInv, Ring, Shape
    <2> QED
      BY <2>1, <2>2
  <1>r. At(last) = ring
    BY <1>1 DEF IsTurn, RowInv, RingInv, Ring, Shape
  <1> HIDE DEF At, last
  <1>4. stop \in stops /\ \A k \in stops : stop <= k
    <2>1. last \in stops /\ stops \in SUBSET Nat
      BY <1>2, <1>3
    <2> HIDE DEF stops
    <2> QED
      BY <2>1, BottomIs
  <1>5. /\ stop \in 1 .. last
        /\ \A k \in 1 .. last : k < stop => turn[k] # current /\ ~NeedSave(fs[turn[k]])
        /\ turn[stop] = current \/ NeedSave(fs[turn[stop]])
    <2>1. stop \in 1 .. last /\ (turn[stop] = current \/ NeedSave(fs[turn[stop]]))
      BY <1>4
    <2>2. ASSUME NEW k \in 1 .. last, k < stop PROVE k \notin stops
      <3> HIDE DEF stops, stop
      <3> QED
        BY <1>2, <1>4, <2>1, <2>2
    <2> QED
      BY <2>1, <2>2
  <1> HIDE DEF stops, stop
  <1> DEFINE Walk(g) == g = [k \in 1 .. last |->
               IF k = 1 THEN GoNext(ring)
               ELSE IF g[k - 1].cur = current \/ NeedSave(fs[g[k - 1].cur]) THEN g[k - 1]
               ELSE GoNext(g[k - 1])]
             place(k) == IF k < stop THEN k ELSE stop
             w == [k \in 1 .. last |-> At(place(k))]
             walk == CHOOSE g : Walk(g)
             v == [k \in 1 .. last |->
               IF k = 1 THEN GoNext(ring)
               ELSE IF w[k - 1].cur = current \/ NeedSave(fs[w[k - 1].cur]) THEN w[k - 1]
               ELSE GoNext(w[k - 1])]
  <1>6. ASSUME NEW k \in 1 .. last PROVE w[k] = v[k]
    <2>1. CASE k = 1
      <3>1. place(1) = 1
        BY <1>2, <1>5
      <3> QED
        BY <1>2, <1>3, <2>1, <3>1
    <2>2. CASE k # 1
      <3>1. k - 1 \in 1 .. last /\ w[k - 1] = At(place(k - 1)) /\ w[k] = At(place(k))
        BY <1>2, <2>2
      <3>2. place(k - 1) \in 1 .. last /\ w[k - 1].cur = turn[place(k - 1)]
        <4>1. place(k - 1) \in 1 .. last
          BY <1>2, <1>5, <3>1
        <4> HIDE DEF place, w
        <4> QED
          BY <1>3, <3>1, <4>1
      <3>3. v[k] = IF w[k - 1].cur = current \/ NeedSave(fs[w[k - 1].cur]) THEN w[k - 1]
                   ELSE GoNext(w[k - 1])
        BY <2>2
      <3> HIDE DEF w, v
      <3>4. CASE k - 1 < stop
        <4>1. place(k - 1) = k - 1 /\ place(k) = k /\ k - 1 < last
          BY <1>2, <1>5, <3>4
        <4>2. ~(w[k - 1].cur = current \/ NeedSave(fs[w[k - 1].cur]))
          BY <1>5, <3>1, <3>2, <3>4, <4>1
        <4>3. GoNext(At(k - 1)) = At(k)
          <5>1. GoNext(At(k - 1)) = At(k - 1 + 1)
            BY <1>3, <3>1, <4>1
          <5>2. k - 1 + 1 = k
            BY <1>2
          <5> QED
            BY <5>1, <5>2
        <4> QED
          BY <3>1, <3>3, <4>1, <4>2, <4>3
      <3>5. CASE ~(k - 1 < stop)
        <4>1. place(k - 1) = stop /\ place(k) = stop
          BY <1>2, <1>5, <3>5
        <4> QED
          BY <1>5, <3>1, <3>2, <3>3, <4>1
      <3> QED
        BY <3>4, <3>5
    <2> QED
      BY <2>1, <2>2
  <1>7. Walk(w)
    <2>1. w = v
      BY <1>6
    <2> QED
      BY <2>1
  <1>8. Walk(walk)
    <2> HIDE DEF Walk, w
    <2> QED
      BY <1>7
  <1>9. walk[last] = At(stop)
    <2> DEFINE S == {k \in 0 .. last : k = 0 \/ walk[k] = w[k]}
    <2>1. 0 \in S
      BY <1>2
    <2>2. ASSUME NEW k \in 0 .. last - 1, k \in S PROVE k + 1 \in S
      <3>1. k + 1 \in 1 .. last /\ k + 1 - 1 = k
        BY <1>2
      <3>2. CASE k = 0
        <4>1. walk[1] = GoNext(ring) /\ w[1] = v[1] /\ v[1] = GoNext(ring)
          <5>1. 1 \in 1 .. last
            BY <1>2
          <5>2. walk[1] = GoNext(ring)
            <6> HIDE DEF walk
            <6> QED
              BY <1>8, <5>1
          <5> QED
            BY <1>6, <5>1, <5>2
        <4> QED
          BY <3>1, <3>2, <4>1
      <3>3. CASE k # 0
        <4>1. walk[k] = w[k]
          BY <2>2, <3>3
        <4>2. v[k + 1] = IF w[k].cur = current \/ NeedSave(fs[w[k].cur]) THEN w[k] ELSE GoNext(w[k])
          <5> HIDE DEF w
          <5> QED
            BY <1>2, <3>1, <3>3
        <4>3. walk[k + 1] = IF walk[k].cur = current \/ NeedSave(fs[walk[k].cur]) THEN walk[k]
                            ELSE GoNext(walk[k])
          <5> HIDE DEF walk
          <5> QED
            BY <1>2, <1>8, <3>1, <3>3
        <4> HIDE DEF walk, w, v
        <4> QED
          BY <1>6, <3>1, <4>1, <4>2, <4>3
      <3> QED
        BY <3>2, <3>3
    <2>3. 0 .. last \subseteq S
      <3> HIDE DEF S
      <3> QED
        BY <1>2, <2>1, <2>2, UpTo
    <2>4. walk[last] = w[last] /\ last \in 1 .. last
      BY <1>2, <2>3
    <2>5. place(last) = stop
      BY <1>2, <1>5
    <2> HIDE DEF walk
    <2> QED
      BY <2>4, <2>5
  <1>10. AskedAt(ring, fs) = walk[last]
    BY <1>2 DEF AskedAt
  <1> HIDE DEF walk, w, v
  <1>11. AskedAt(ring, fs) = [ring EXCEPT !.cur = turn[stop]] /\ turn[stop] \in InRing(ring)
    BY <1>3, <1>5, <1>9, <1>10 DEF At
  <1>12. ASSUME turn[stop] = current
         PROVE  At(stop) = ring /\ \A n \in InRing(ring) \ {current} : ~NeedSave(fs[n])
    <2>1. stop = last
      BY <1>3, <1>5, <1>12
    <2>2. ASSUME NEW n \in InRing(ring) \ {current} PROVE ~NeedSave(fs[n])
      <3>1. PICK k \in 1 .. last : turn[k] = n
        BY <1>1, RowFacts DEF IsTurn, last
      <3>2. k < stop
        BY <1>2, <1>3, <2>1, <3>1
      <3> QED
        BY <1>5, <3>1, <3>2
    <2> QED
      BY <1>r, <2>1, <2>2
  <1> QED
    BY <1>3, <1>5, <1>9, <1>10, <1>11, <1>12 DEF At

(***************************************************************************)
(* The steps.                                                              *)
(***************************************************************************)

\* TabBar takes its sequences from the same module.
LEMMA SameOperators ==
  /\ \A s : Tabs!ToSet(s) = ToSet(s)
  /\ \A s, i, e : Tabs!InsertAt(s, i, e) = InsertAt(s, i, e)
  /\ \A s, i : Tabs!RemoveAt(s, i) = RemoveAt(s, i)
  BY DEF Tabs!ToSet, ToSet, Tabs!InsertAt, InsertAt, Tabs!RemoveAt, RemoveAt

Stutters == UNCHANGED <<TabRow, TabChosen, quit \/ current # None>>

\* A command that stays with the file it acts on leaves ring and tabs alone.
LEMMA ShowStutters ==
  ASSUME RowInv, current # None, NEW op, NEW failed, Show(op, failed)
  PROVE  RowInv' /\ Stutters
  <1>1. ring' = ring /\ current' = current /\ quit' = quit
    BY ShowTabsIs DEF Show, PrintScreen, Finish, RowInv, RingInv
  <1> QED
    BY <1>1 DEF RowInv, RingInv, Stutters, TabRow, TabChosen

LEMMA SilentStutters ==
  ASSUME RowInv, NEW op, Silent(op)
  PROVE  RowInv' /\ Stutters
  BY DEF Silent, Finish, RowInv, RingInv, Stutters, TabRow, TabChosen

\* Opening a file adds one tab.
LEMMA EnterIsOpen ==
  ASSUME RowInv, current # None, NEW op, NEW f, NEW dk, Enter(op, f, dk)
  PROVE  RowInv' /\ Tabs!Open
  <1> DEFINE row == TabRow
             p   == TabChosen
             q   == IF p = 1 THEN Len(row) + 1 ELSE p
  <1>1. PICK n \in Node \ InRing(ring) :
          ring' = ShowTabs(AddNode(ring, n), n) /\ current' = n /\ quit' = quit
    BY DEF Enter
  <1> DEFINE r   == AddNode(ring, n)
             new == InsertAt(row, q, n)
  <1>2. Linked(ring) /\ current \in InRing(ring) /\ Ring(r) /\ InRing(r) = InRing(ring) \cup {n}
    BY AddKeepsRing DEF RowInv, RingInv, Ring
  <1>3. /\ Row(ring, row) /\ row \in Seq(Node) /\ Len(row) \in Nat
        /\ p \in 1 .. Len(row) /\ ring.cur = row[p]
        /\ ToSet(row) = InRing(ring)
    BY <1>2, BarNow, TabsAreNodes, RowFacts DEF Shows, Row
  <1> HIDE DEF row, p
  <1>4. Row(r, new)
    BY <1>2, <1>3, AddToRow
  <1>5. /\ q \in 1 .. Len(row) + 1 /\ Len(new) = Len(row) + 1 /\ new[q] = n
        /\ ToSet(new) = InRing(r)
    <2>1. q \in 1 .. Len(row) + 1
      BY <1>3
    <2> HIDE DEF q
    <2>2. Len(new) = Len(row) + 1 /\ new[q] = n
      BY <1>3, <2>1, InsertAtIs
    <2> QED
      BY <1>4, <2>1, <2>2, TabsAreNodes
  <1> HIDE DEF r, new
  <1>6. ring' = [r EXCEPT !.cur = n]
    BY <1>1, <1>2, ShowTabsIs DEF r
  <1>7. Row(ring', new) /\ ring'.cur = n /\ n # None
    <2>1. n # None
      BY FileRingAssumption
    <2> QED
      BY <1>2, <1>4, <1>6, <2>1, MoveKeepsRow DEF Ring, Shape
  <1>8. Shows(ring', new, q)
    <2>1. new # <<>>
      BY <1>3, <1>5, <1>7, RowFacts DEF Row
    <2> HIDE DEF q
    <2> QED
      BY <1>5, <1>7, <2>1 DEF Shows
  <1>9. RingInv'
    BY EnterKeepsInv DEF RowInv
  <1>10. RowInv' /\ TabRow' = new /\ TabChosen' = q
    <2> HIDE DEF q
    <2> QED
      BY <1>1, <1>7, <1>8, <1>9, StepShows
  <1>11. n \in ToSet(TabRow') \ ToSet(TabRow)
    BY <1>2, <1>3, <1>5, <1>10 DEF row
  <1>12. Tabs!OpenedAt(q)
    BY <1>10, <1>11, SameOperators DEF Tabs!OpenedAt, new, row
  <1>13. (quit \/ current # None) = TRUE /\ (quit' \/ current' # None) = TRUE
    BY <1>1, <1>7
  <1> QED
    BY <1>10, <1>12, <1>13 DEF Tabs!Open, row, p

\* Closing the current file takes its tab away, and shows the one behind it.
LEMMA LeaveIsClose ==
  ASSUME RowInv, current # None, NEW op, NEW s, Leave(op, s)
  PROVE  RowInv' /\ Tabs!Close
  <1> DEFINE row == TabRow
             p   == TabChosen
             r   == RemoveNode(ring, current)
             new == RemoveAt(row, p)
             q   == IF p <= Len(new) \/ new = <<>> THEN p ELSE 1
  <1>1. ring' = ShowTabs(r, r.cur) /\ current' = r.cur /\ quit' = (r.cur = None)
    BY DEF Leave
  <1>2. Linked(ring) /\ current \in InRing(ring) /\ ring.cur = current /\ Ring(r)
    BY RemoveKeepsRing DEF RowInv, RingInv, Ring
  <1>3. /\ Row(ring, row) /\ row \in Seq(Node) /\ Len(row) \in Nat
        /\ p \in 1 .. Len(row) /\ current = row[p] /\ row # <<>>
    BY <1>2, BarNow, TabsAreNodes, RowFacts DEF Shows, Row
  <1> HIDE DEF row, p
  <1>4. Row(r, new)
    BY <1>2, <1>3, RemoveFromRow
  <1>5. /\ Len(new) = Len(row) - 1
        /\ \A i \in 1 .. Len(row) - 1 : new[i] = IF i < p THEN row[i] ELSE row[i + 1]
    BY <1>3, RemoveAtIs
  <1>n. /\ ring.next[current] = row[IF p = Len(row) THEN 1 ELSE p + 1]
        /\ \A i, j \in 1 .. Len(row) : row[i] = row[j] => i = j
    BY <1>3 DEF Row, Cycle
  <1> HIDE DEF new
  <1>6. Shows(r, new, q)
    <2>1. CASE Len(row) = 1
      <3>1. new = <<>> /\ q = 1
        BY <1>3, <1>4, <1>5, <2>1, RowFacts DEF Row
      <3>2. r.cur = None
        BY <1>2, <1>4, <3>1, RowFacts, AnchorInRing DEF Row, Ring
      <3> QED
        BY <1>4, <3>1, <3>2 DEF Shows
    <2>2. CASE Len(row) # 1
      <3>1. new # <<>> /\ q = IF p = Len(row) THEN 1 ELSE p
        BY <1>3, <1>4, <1>5, <2>2, RowFacts DEF Row
      <3>2. new[q] = row[IF p = Len(row) THEN 1 ELSE p + 1] /\ q \in 1 .. Len(new)
        <4> HIDE DEF q
        <4>1. CASE p = Len(row)
          BY <1>3, <1>5, <2>2, <3>1, <4>1
        <4>2. CASE p # Len(row)
          BY <1>3, <1>5, <2>2, <3>1, <4>2
        <4> QED
          BY <4>1, <4>2
      <3>3. ring.next[current] # current
        <4> DEFINE h == IF p = Len(row) THEN 1 ELSE p + 1
        <4>1. h \in 1 .. Len(row) /\ h # p
          <5>1. CASE p = Len(row)
            BY <1>3, <2>2, <5>1
          <5>2. CASE p # Len(row)
            BY <1>3, <5>2
          <5> QED
            BY <5>1, <5>2
        <4> HIDE DEF h
        <4> QED
          BY <1>3, <1>n, <4>1 DEF h
      <3>4. r.cur = ring.next[current]
        BY <1>2, <3>3 DEF RemoveNode
      <3> HIDE DEF q, r
      <3> QED
        BY <1>4, <1>n, <3>1, <3>2, <3>4 DEF Shows
    <2> QED
      BY <2>1, <2>2
  <1>7. ring' = r
    BY <1>1, <1>2, ShowTabsIs
  <1> HIDE DEF r, q
  <1>8. RingInv'
    BY <1>1, <1>2, ShownKeepsInv
  <1>9. current' = None => ring'.cur = ring'.head
    BY <1>1, <1>2, <1>7, AnchorInRing DEF Ring
  <1>10. RowInv' /\ TabRow' = new /\ TabChosen' = q
    BY <1>6, <1>7, <1>8, <1>9, StepShows
  <1>11. (quit \/ current # None) = TRUE /\ (quit' \/ current' # None) = TRUE
    BY <1>1
  <1> QED
    BY <1>3, <1>10, <1>11, SameOperators DEF Tabs!Close, row, p, q, new

\* Going to another file shows another tab.
LEMMA GoToIsGo ==
  ASSUME RowInv, current # None, NEW op, NEW n \in InRing(ring),
         GoTo(op, [ring EXCEPT !.cur = n])
  PROVE  RowInv' /\ Tabs!Go
  <1> DEFINE r == [ring EXCEPT !.cur = n]
  <1>1. /\ ring' = ShowTabs(r, r.cur) /\ current' = n /\ quit' = quit
        /\ Ring(r) /\ InRing(r) = InRing(ring) /\ r.cur = n
    BY MoveKeepsRing DEF GoTo, RowInv, RingInv
  <1>2. Shows(ring, TabRow, TabChosen) /\ Row(ring, TabRow)
    BY BarNow DEF Shows
  <1>3. PICK i \in 1 .. Len(TabRow) : TabRow[i] = n
    BY <1>2, RowFacts DEF Row
  <1>4. Row(r, TabRow)
    BY <1>2, MoveKeepsRow DEF RowInv, RingInv
  <1> HIDE DEF r
  <1>5. ring' = r
    BY <1>1, ShowTabsIs
  <1>6. TabRow # <<>>
    BY <1>2, RowFacts DEF Row
  <1>7. Shows(ring', TabRow, i)
    BY <1>1, <1>3, <1>4, <1>5, <1>6 DEF Shows
  <1>8. n # None
    BY AnchorInRing DEF RowInv, RingInv, Ring
  <1>9. RingInv'
    BY <1>1, ShownKeepsInv
  <1>10. RowInv' /\ TabRow' = TabRow /\ TabChosen' = i
    BY <1>1, <1>7, <1>8, <1>9, StepShows
  <1>11. (quit \/ current # None) = TRUE /\ (quit' \/ current' # None) = TRUE
    BY <1>1, <1>8
  <1>12. i \in DOMAIN TabRow
    BY <1>2, TabsAreNodes
  <1> QED
    BY <1>10, <1>11, <1>12 DEF Tabs!Go

\* A file of the command line gets the last tab, and none when it cannot be
\* opened: the node that was linked in goes again.
LEMMA OpenArgumentIsArgument ==
  ASSUME RowInv, current = None, ~quit, OpenArgument
  PROVE  RowInv' /\ (Tabs!Argument \/ Stutters)
  <1> DEFINE row == TabRow
  <1>1. PICK n \in Node \ InRing(ring) :
          ring' = AddNode(ring, n) \/ ring' = RemoveNode(AddNode(ring, n), n)
    BY DEF OpenArgument
  <1>2. current' = None /\ quit' = quit /\ RingInv'
    BY LoadKeepsInv DEF OpenArgument, RowInv
  <1> DEFINE r   == AddNode(ring, n)
             q   == Len(row) + 1
             new == InsertAt(row, q, n)
  <1>3. Ring(ring) /\ Linked(ring) /\ Linked(r) /\ InRing(r) = InRing(ring) \cup {n}
    BY AddKeepsRing DEF RowInv, RingInv, Ring
  <1>4. Shows(ring, row, TabChosen) /\ row \in Seq(Node) /\ Len(row) \in Nat
    BY BarNow, TabsAreNodes DEF Shows
  <1>5. TabChosen = 1
    <2>1. row # <<>> => TabChosen = 1
      <3>1. row # <<>> => row[TabChosen] = row[1] /\ TabChosen \in 1 .. Len(row) /\ 1 \in 1 .. Len(row)
        BY <1>4, EmptySeq DEF Shows, Row, RowInv
      <3> QED
        BY <1>4, <3>1 DEF Shows, Row, Cycle
    <2> QED
      BY <1>4, <2>1 DEF Shows
  <1> HIDE DEF row
  <1>6. /\ new \in Seq(Node) /\ Len(new) = q /\ new[q] = n /\ q \in 1 .. q
        /\ \A i \in 1 .. q : i < q => new[i] = row[i]
    <2>1. q \in 1 .. Len(row) + 1
      BY <1>4
    <2>3. q = Len(row) + 1
      OBVIOUS
    <2> HIDE DEF q
    <2>2. /\ new \in Seq(Node) /\ Len(new) = Len(row) + 1
          /\ \A i \in 1 .. Len(row) + 1 :
               new[i] = IF i < q THEN row[i] ELSE IF i = q THEN n ELSE row[i - 1]
      BY <1>4, <2>1, InsertAtIs
    <2> QED
      BY <1>4, <2>1, <2>2, <2>3
  <1>7. Row(r, new) /\ r.cur = r.head
    <2>1. CASE row = <<>>
      <3>1. InRing(ring) = {} /\ ring.cur = None
        BY <1>4, <2>1, RowFacts DEF Shows, Row
      <3>2. Row(r, <<n>>)
        BY <1>3, <3>1, AddFirst
      <3>3. new = <<n>>
        BY <2>1, EmptySeq, InsertIntoEmpty
      <3> QED
        BY <3>1, <3>2, <3>3 DEF AddNode
    <2>2. CASE row # <<>>
      <3>1. ring.cur = row[1] /\ 1 \in 1 .. Len(row) /\ Row(ring, row)
        BY <1>4, <1>5, <2>2 DEF Shows
      <3>2. Row(r, new)
        BY <1>3, <3>1, AddToRow
      <3>3. ring.cur # None
        BY <1>3, <3>1, RowFacts, AnchorInRing DEF Row
      <3>4. ring.cur = ring.head
        BY DEF RowInv
      <3> QED
        BY <3>2, <3>3, <3>4 DEF AddNode
    <2> QED
      BY <2>1, <2>2
  <1>8. new # <<>>
    BY <1>4, <1>6, EmptySeq
  <1>9. CASE ring' = r
    <2> HIDE DEF r, new, q
    <2>1. Shows(ring', new, 1)
      BY <1>4, <1>6, <1>7, <1>8, <1>9, EmptySeq DEF Shows, Row
    <2>2. RowInv' /\ TabRow' = new /\ TabChosen' = 1
      BY <1>2, <1>7, <1>9, <2>1, StepShows
    <2>3. n \in ToSet(TabRow') \ ToSet(TabRow)
      BY <1>3, <1>4, <1>7, <2>2, TabsAreNodes DEF Shows, row
    <2>4. Tabs!OpenedAt(q)
      BY <2>2, <2>3, SameOperators DEF Tabs!OpenedAt, new, row
    <2>5. ~(quit \/ current # None) /\ (quit' \/ current' # None) = (quit \/ current # None)
      BY <1>2
    <2> QED
      BY <1>5, <2>2, <2>4, <2>5 DEF Tabs!Argument, row, q
  <1>10. CASE ring' = RemoveNode(r, n)
    <2> DEFINE old == RemoveAt(new, q)
    <2>1. Row(RemoveNode(r, n), old)
      <3> HIDE DEF r, new, q
      <3> QED
        BY <1>3, <1>6, <1>7, RemoveFromRow
    <2>2. old = row
      <3> HIDE DEF new
      <3>1. /\ old \in Seq(Node) /\ Len(old) = Len(row)
            /\ \A i \in 1 .. Len(row) : old[i] = row[i]
        <4>1. q \in 1 .. Len(new) /\ q = Len(row) + 1
          BY <1>4, <1>6
        <4> HIDE DEF q
        <4>2. /\ old \in Seq(Node) /\ Len(old) = Len(new) - 1
              /\ \A i \in 1 .. Len(new) - 1 : old[i] = IF i < q THEN new[i] ELSE new[i + 1]
          BY <1>6, <4>1, RemoveAtIs
        <4> QED
          BY <1>4, <1>6, <4>1, <4>2
      <3> QED
        BY <1>4, <3>1, SeqEqual
    <2>3. ring'.cur = ring.cur
      <3>1. CASE ring.cur = None
        <4>1. InRing(ring) = {}
          BY <1>3, <3>1, AnchorInRing
        <4>2. r.next[n] = n
          BY <3>1 DEF AddNode
        <4> QED
          BY <1>10, <3>1, <4>2 DEF RemoveNode, EmptyRing
      <3>2. CASE ring.cur # None
        <4>1. ring.cur \in InRing(ring)
          BY <1>3, <3>2, AnchorInRing
        <4>2. ring.last[ring.cur] \in InRing(ring)
          BY <1>3, <4>1 DEF Linked
        <4>3. r.next[n] = ring.cur /\ r.cur = ring.cur /\ n # ring.cur
          BY <3>2, <4>1, <4>2 DEF AddNode, InRing
        <4> QED
          BY <1>10, <4>3 DEF RemoveNode
      <3> QED
        BY <3>1, <3>2
    <2>4. Shows(ring', row, 1)
      BY <1>4, <1>5, <1>10, <2>1, <2>2, <2>3 DEF Shows
    <2>5. ring'.cur = ring'.head
      <3>1. CASE row = <<>>
        BY <1>2, <2>4, <3>1, RowFacts, AnchorInRing DEF Shows, Row, RingInv, Ring
      <3>2. CASE row # <<>>
        BY <2>4, <3>2 DEF Shows, Row
      <3> QED
        BY <3>1, <3>2
    <2>6. RowInv' /\ TabRow' = row /\ TabChosen' = 1
      BY <1>2, <2>4, <2>5, StepShows
    <2> QED
      BY <1>2, <1>5, <2>6 DEF Stutters, row
  <1> QED
    BY <1>1, <1>9, <1>10

\* The first screen shows the tabs of the command line, or one of an empty file.
LEMMA StartIsBegin ==
  ASSUME RowInv, current = None, ~quit, Start
  PROVE  RowInv' /\ Tabs!Begin
  <1>1. RingInv' /\ Ring(ring) /\ Linked(ring)
    BY LoadKeepsInv DEF RowInv, RingInv, Ring
  <1>2. Shows(ring, TabRow, TabChosen)
    BY BarNow
  <1>3. CASE ring.cur # None
    <2>1. ring' = ring /\ current' = ring.cur /\ quit' = quit
      BY <1>1, <1>3, ShowTabsIs DEF Start, Begin
    <2>2. TabRow # <<>>
      BY <1>2, <1>3 DEF Shows
    <2>3. TabRow' = TabRow /\ TabChosen' = TabChosen
      BY <2>1 DEF TabRow, TabChosen
    <2>4. RowInv'
      BY <1>1, <1>3, <2>1 DEF RowInv
    <2> QED
      BY <1>3, <2>1, <2>2, <2>3, <2>4 DEF Tabs!Begin
  <1>4. CASE ring.cur = None
    <2>1. PICK n \in Node : Begin(AddNode(ring, n), Put(file, n, Blank))
      BY <1>4 DEF Start
    <2> DEFINE r == AddNode(ring, n)
    <2>2. InRing(ring) = {}
      BY <1>1, <1>4, AnchorInRing
    <2>3. Ring(r) /\ Row(r, <<n>>) /\ InRing(r) = {n}
      BY <1>1, <2>2, AddKeepsRing, AddFirst
    <2>4. r.cur = n /\ r.head = n
      BY <1>4 DEF AddNode
    <2> HIDE DEF r
    <2>5. ring' = r /\ current' = n /\ quit' = quit /\ n # None
      BY <2>1, <2>3, <2>4, ShowTabsIs, FileRingAssumption DEF Begin, r
    <2>6. Len(<<n>>) = 1 /\ <<n>>[1] = n /\ <<n>> # <<>>
      OBVIOUS
    <2>7. Shows(ring', <<n>>, 1)
      BY <2>3, <2>4, <2>5, <2>6 DEF Shows
    <2>8. RowInv' /\ TabRow' = <<n>> /\ TabChosen' = 1
      BY <1>1, <2>5, <2>7, StepShows
    <2>9. TabRow = <<>> /\ TabChosen = 1
      BY <1>2, <2>2, RowFacts DEF Shows, Row
    <2>10. n \in ToSet(TabRow') \ ToSet(TabRow) /\ TabRow' = InsertAt(TabRow, 1, n)
      <3>1. ToSet(<<n>>) = {n} /\ ToSet(<<>>) = {}
        BY <2>2, <2>3, <2>9, <1>2, TabsAreNodes DEF Shows
      <3> QED
        BY <2>8, <2>9, <3>1, InsertIntoEmpty
    <2>11. Tabs!OpenedAt(1)
      BY <2>10, SameOperators DEF Tabs!OpenedAt
    <2> QED
      BY <2>5, <2>8, <2>9, <2>11 DEF Tabs!Begin
  <1> QED
    BY <1>3, <1>4

LEMMA QuitIsClose ==
  ASSUME RowInv, current # None, NEW op, NEW s, NEW force, ActionQuit(op, s, force)
  PROVE  RowInv' /\ (Tabs!Close \/ Stutters)
  BY ShowStutters, LeaveIsClose DEF ActionQuit

\* :wa has moved the ring around and back.
LEMMA WriteAllStutters ==
  ASSUME RowInv, current # None, NEW ask, WriteAll(ask)
  PROVE  RowInv' /\ Stutters
  <1>1. ring' = ring /\ current' = current /\ quit' = quit
    BY SaveAllReturns DEF WriteAll, Finish
  <1> QED
    BY <1>1 DEF RowInv, RingInv, Stutters, TabRow, TabChosen

\* So has :qa, whether it quits or finds unsaved changes.
Asked(op, t, force) ==
  /\ ring' = ring /\ current' = current /\ args' = args
  /\ \/ /\ quit' = TRUE /\ call' = [op |-> op, failed |-> FALSE] /\ printed' = t.printed
        /\ force \/ \A n \in InRing(ring) \ {current} : ~NeedSave(t.saved.file[n])
     \/ Finish(op, TRUE) /\ printed' = current

LEMMA QuitAllStays ==
  ASSUME RowInv, current # None, NEW op, NEW t, t.ring = ring, NEW force,
         ActionQuitAll(op, t, force)
  PROVE  Asked(op, t, force)
  <1> USE DEF Asked
  <1> DEFINE asked == AskedAt(ring, t.saved.file)
  <1>1. PICK n \in InRing(ring) : asked = [ring EXCEPT !.cur = n]
    BY AskedAtIs
  <1>2. asked.cur = current =>
          asked = ring /\ \A m \in InRing(ring) \ {current} : ~NeedSave(t.saved.file[m])
    BY AskedAtIs
  <1>3. Ring(ring) /\ current \in InRing(ring) /\ ring.cur = current
    BY DEF RowInv, RingInv
  <1>4. ShowTabs(asked, current) = ring
    <2>1. Ring(asked) /\ InRing(asked) = InRing(ring)
      BY <1>1, <1>3, MoveKeepsRing
    <2>2. ShowTabs(asked, current) = [asked EXCEPT !.cur = current]
      BY <1>3, <2>1, ShowTabsIs
    <2> QED
      BY <1>1, <1>3, <2>2 DEF Ring, Shape
  <1> HIDE DEF asked
  <1>5. CASE force \/ asked.cur = current
    <2>1. /\ quit' = TRUE /\ call' = [op |-> op, failed |-> FALSE]
          /\ ring' = IF force THEN t.ring ELSE asked
          /\ printed' = t.printed /\ current' = current /\ args' = args
      BY <1>5, Zenon DEF ActionQuitAll, asked
    <2> QED
      BY <1>2, <1>5, <2>1
  <1>6. CASE ~(force \/ asked.cur = current)
    <2>1. PrintScreen(asked) /\ Finish(op, TRUE)
      BY <1>6, Zenon DEF ActionQuitAll, asked
    <2> QED
      BY <1>4, <2>1 DEF PrintScreen, Finish
  <1> QED
    BY <1>5, <1>6

LEMMA QuitAllStutters ==
  ASSUME RowInv, current # None, NEW op, NEW t, t.ring = ring, NEW force,
         ActionQuitAll(op, t, force)
  PROVE  RowInv' /\ Stutters
  <1>1. ring' = ring /\ current' = current
    BY QuitAllStays DEF Asked
  <1> QED
    BY <1>1 DEF RowInv, RingInv, Stutters, TabRow, TabChosen

LEMMA QuitAllSteps ==
  ASSUME RowInv, current # None,
         \/ \E ask \in [{n \in DOMAIN file : NeedCreate(file[n])} -> Answer] : WriteAllQuit(ask)
         \/ \E force \in BOOLEAN : QuitAll(force)
  PROVE  RowInv' /\ Stutters
  <1>1. ASSUME NEW ask, WriteAllQuit(ask) PROVE RowInv' /\ Stutters
    BY <1>1, SaveAllReturns, QuitAllStutters DEF WriteAllQuit
  <1>2. ASSUME NEW force, QuitAll(force) PROVE RowInv' /\ Stutters
    <2>1. SetOut.ring = ring
      BY DEF SetOut
    <2> QED
      BY <1>2, <2>1, QuitAllStutters DEF QuitAll
  <1> QED
    BY <1>1, <1>2

\* Every command does to the ring what a step of TabBar does to the tabs.
LEMMA CommandIsStep ==
  ASSUME RowInv, current # None, Command
  PROVE  RowInv' /\ (Tabs!Next \/ Stutters)
  <1>0. current \in InRing(ring) /\ ring.cur = current
    BY DEF RowInv, RingInv
  <1> USE DEF Tabs!Next
  <1>1. ASSUME NEW op, NEW f, Change(op, f) PROVE RowInv' /\ Stutters
    BY <1>1, ShowStutters DEF Change
  <1>2. CASE Edit \/ Undo \/ Redo \/ Reprint \/ Resize
    BY <1>1, <1>2, ShowStutters DEF Edit, Undo, Redo, Reprint, Resize
  <1>3. CASE NewFile \/ \E name \in Name : OpenNamed(name)
    BY <1>3, EnterIsOpen DEF NewFile, OpenNamed
  <1>4. CASE Reload
    BY <1>4, ShowStutters DEF Reload
  <1>5. CASE NextFile \/ PrevFile
    <2>1. /\ GoNext(ring) = [ring EXCEPT !.cur = ring.next[current]]
          /\ GoLast(ring) = [ring EXCEPT !.cur = ring.last[current]]
      BY <1>0 DEF GoNext, GoLast
    <2>2. ring.next[current] \in InRing(ring) /\ ring.last[current] \in InRing(ring)
      BY <1>0 DEF RowInv, RingInv, Ring, Linked
    <2> QED
      BY <1>5, <2>1, <2>2, GoToIsGo DEF NextFile, PrevFile
  <1>6. CASE \E digit \in 0 .. 9 : TabFile(digit)
    <2>1. PICK n \in InRing(ring) : GoTo("tab", [ring EXCEPT !.cur = n])
      BY <1>6 DEF TabFile
    <2> QED
      BY <2>1, GoToIsGo
  <1>7. CASE \/ \E name \in Name : WriteAs(name)
             \/ \E answer \in Answer : Write(answer)
             \/ \E ask \in [{n \in DOMAIN file : NeedCreate(file[n])} -> Answer] : WriteAll(ask)
    BY <1>7, ShowStutters, SilentStutters, WriteAllStutters DEF WriteAs, Write
  <1>8. CASE \/ \E name \in Name : WriteAsQuit(name)
             \/ \E answer \in Answer : WriteQuit(answer)
             \/ \E force \in BOOLEAN : Quit(force)
    BY <1>8, QuitIsClose DEF WriteAsQuit, WriteQuit, Quit
  <1>9. CASE \/ \E ask \in [{n \in DOMAIN file : NeedCreate(file[n])} -> Answer] : WriteAllQuit(ask)
             \/ \E force \in BOOLEAN : QuitAll(force)
    BY <1>9, QuitAllSteps
  <1> QED
    BY <1>2, <1>3, <1>4, <1>5, <1>6, <1>7, <1>8, <1>9 DEF Command

LEMMA RowInit == Init => RowInv /\ Tabs!Init
  <1> SUFFICES ASSUME Init PROVE RowInv /\ Tabs!Init
    OBVIOUS
  <1>1. RingInv
    BY DEF Init, RingInv, Ring, Shape, Linked, InRing, EmptyRing
  <1>2. InRing(ring) = {}
    BY DEF Init, InRing, EmptyRing
  <1>3. Row(ring, <<>>)
    BY <1>2, EmptySeq DEF Row, Cycle
  <1>4. ring.cur = None /\ ring.head = None
    BY DEF Init, EmptyRing
  <1>5. Shows(ring, <<>>, 1)
    BY <1>3, <1>4 DEF Shows
  <1>6. TabRow = <<>>
    BY <1>2, NoWalk DEF TabRow
  <1>7. TabChosen = 1
    BY <1>4 DEF TabChosen
  <1> QED
    BY <1>1, <1>3, <1>4, <1>6, <1>7 DEF RowInv, Init, Tabs!Init

LEMMA RowStep == RowInv /\ [Next]_vars => RowInv' /\ [Tabs!Next]_(Tabs!vars)
  <1> SUFFICES ASSUME RowInv, [Next]_vars PROVE RowInv' /\ (Tabs!Next \/ Stutters)
    BY DEF Stutters, Tabs!vars
  <1>1. CASE UNCHANGED vars
    BY <1>1 DEF vars, RowInv, RingInv, Stutters, TabRow, TabChosen
  <1>2. CASE Next
    BY <1>2, OpenArgumentIsArgument, StartIsBegin, CommandIsStep DEF Next, Tabs!Next
  <1> QED
    BY <1>1, <1>2

\* The ring is a single cycle, in every state.
THEOREM RingIsRow == Spec => []RowInv
  BY RowInit, RowStep, PTL DEF Spec

\* next and last are inverse, and the anchor points into the ring, whatever was
\* opened and closed (vf_add_fm_to_ring, vf_remove_fm_from_ring).
THEOREM RingAlwaysLinked == Spec => []RingLinked
  <1>1. RowInv => RingLinked
    BY DEF RowInv, RingInv, Ring, RingLinked
  <1> QED
    BY <1>1, RingIsRow, PTL

\* Between two commands the ring points at current_file: the walks of
\* action_save_all, which prints nothing at its end, and of action_quit_all come
\* back, for as many files as are open.
THEOREM RingInSync == Spec => []InSync
  <1>1. RowInv => InSync
    BY DEF RowInv, RingInv, InSync
  <1> QED
    BY <1>1, RingIsRow, PTL

\* The ring of open files implements the row of tabs: vf_add_fm_to_ring and
\* vf_remove_fm_from_ring are an insertion and a removal at one place of the row
\* the user sees, and no walk of a command leaves another tab chosen.
THEOREM ImplementsTabBar == Spec => IsTabBar
  BY RowInit, RowStep, PTL DEF Spec, IsTabBar, Tabs!Spec

(***************************************************************************)
(* The files and the disk.                                                 *)
(***************************************************************************)
\* A user without slips, who names each file of the command line once
Careful == Slips = {} /\ \A i, j \in 1 .. Len(Argv) : Argv[i] = Argv[j] => i = j

FileRec(M) ==
  [fname : Name \cup {NoName}, fp : Name \cup {Closed}, base : Seq(M), log : Seq(M),
   pos : Nat, private : Nat \cup {NoInfo}]

\* f is an open file whose contents are made of the marks M
FileTyped(f, M) ==
  /\ f \in FileRec(M)
  /\ f.fp \in {f.fname, Closed}
  /\ f.pos <= Len(f.log)

DiskTyped(dk, M) == DOMAIN dk \subseteq Name /\ \A name \in DOMAIN dk : dk[name] \in Seq(M)

Typed(fs, dk, M) ==
  /\ DiskTyped(dk, M)
  /\ \A n \in DOMAIN fs : FileTyped(fs[n], M) /\ (fs[n].fp # Closed => fs[n].fp \in DOMAIN dk)

\* every mark there may be
Marks == EditId \cup Name \cup {Garbled}

\* An open file shows what is on disk, and no other has its name; a file
\* without a stream has nothing of its own but edits, and its name, if it has
\* one, cannot come to exist.
DiskOk(fs, dk) ==
  /\ \A n \in DOMAIN fs :
       IF fs[n].fp = Closed
       THEN fs[n].base = <<>> /\ fs[n].fname \in {NoName} \cup (ReadOnly \ DOMAIN dk)
       ELSE dk[fs[n].fp] = fs[n].base
  /\ \A n, m \in DOMAIN fs : n # m /\ fs[n].fp # Closed => fs[n].fname # fs[m].fname

\* the names of the command line still to open are not those of open files
ArgsFresh ==
  /\ \A i, j \in 1 .. Len(args) : args[i] = args[j] => i = j
  /\ \A i \in 1 .. Len(args), n \in DOMAIN file : args[i] # file[n].fname

\* The marks to reckon with: every one there may be, or all but Garbled when the
\* user is careful.
MarksFor(M) == EditId \cup Name \subseteq M /\ (Garbled \in M \/ Careful)

\* The invariant for the marks M
FilesInv(M) ==
  /\ RowInv
  /\ DOMAIN file = InRing(ring)
  /\ Typed(file, disk, M)
  /\ size \in Nat /\ quit \in BOOLEAN /\ args \in Seq(Name)
  /\ Garbled \in M \/ DiskOk(file, disk)
  /\ current = None /\ ~quit => (Garbled \in M \/ ArgsFresh) /\ call.op # "wa"

(***************************************************************************)
(* The functions of OpenFile on typed files.                               *)
(***************************************************************************)

\* The edits applied, the text they make and its size.
LEMMA AppliedTyped ==
  ASSUME NEW M, NEW f, FileTyped(f, M)
  PROVE  /\ Applied(f) \in Seq(M) /\ Len(Applied(f)) = f.pos
         /\ Intended(f) \in Seq(M) /\ FileSize(f) \in Nat
         /\ f.pos = 0 => Applied(f) = <<>> /\ Intended(f) = f.base
  <1>1. /\ f.base \in Seq(M) /\ f.log \in Seq(M) /\ f.pos \in Nat
        /\ f.pos <= Len(f.log) /\ Len(f.log) \in Nat
    BY LenProperties DEF FileTyped, FileRec
  <1>2. \A i \in 1 .. f.pos : f.log[i] \in M
    BY <1>1, LenProperties
  <1>3. /\ SubSeq(f.log, 1, f.pos) \in Seq(M)
        /\ Len(SubSeq(f.log, 1, f.pos)) = IF 1 <= f.pos THEN f.pos - 1 + 1 ELSE 0
    BY <1>1, <1>2, SubSeqProperties
  <1>4. Applied(f) \in Seq(M) /\ Len(Applied(f)) = f.pos
    BY <1>1, <1>3 DEF Applied
  <1>5. Intended(f) \in Seq(M)
    BY <1>1, <1>4, ConcatProperties DEF Intended
  <1>6. FileSize(f) \in Nat
    BY <1>5, LenProperties DEF FileSize
  <1>7. f.pos = 0 => Applied(f) = <<>> /\ Intended(f) = f.base
    <2> SUFFICES ASSUME f.pos = 0 PROVE Applied(f) = <<>> /\ Intended(f) = f.base
      OBVIOUS
    <2>1. Applied(f) = <<>>
      BY <1>4, EmptySeq
    <2> QED
      BY <1>1, <2>1, ConcatEmptySeq DEF Intended
  <1> QED
    BY <1>4, <1>5, <1>6, <1>7

\* A typed file with some fields replaced.
With(f, fp, base, log, pos) == [f EXCEPT !.fp = fp, !.base = base, !.log = log, !.pos = pos]

LEMMA WithTyped ==
  ASSUME NEW M, NEW f, FileTyped(f, M), NEW fp \in {f.fp, Closed},
         NEW base \in Seq(M), NEW log \in Seq(M), NEW pos \in Nat, pos <= Len(log)
  PROVE  LET g == With(f, fp, base, log, pos)
         IN  /\ FileTyped(g, M)
             /\ g.fname = f.fname /\ g.fp = fp /\ g.base = base /\ g.log = log /\ g.pos = pos
  BY DEF FileTyped, FileRec, With

LEMMA BlankTyped == \A M : FileTyped(Blank, M)
  BY EmptySeq DEF FileTyped, FileRec, Blank, NoInfo

\* g is f with other edits
SameFile(f, g) == g.fname = f.fname /\ g.fp = f.fp /\ g.base = f.base

LEMMA EditsTyped ==
  ASSUME NEW M, NEW f, FileTyped(f, M)
  PROVE  /\ \A e \in M : FileTyped(Edited(f, e), M) /\ SameFile(f, Edited(f, e))
         /\ FileTyped(Undone(f), M) /\ SameFile(f, Undone(f))
         /\ FileTyped(Redone(f), M) /\ SameFile(f, Redone(f))
         /\ FileTyped(PrunedFile(f), M) /\ SameFile(f, PrunedFile(f))
         /\ Applied(PrunedFile(f)) = Applied(f)
         /\ FileTyped(Terminated(f), M)
         /\ \A k \in Nat : FileTyped([f EXCEPT !.private = k], M)
         /\ PrunedFile(f).pos = f.pos
         /\ Terminated(f).fname = f.fname
  <1>1. /\ f \in FileRec(M) /\ f.fp \in {f.fname, Closed} /\ f.pos <= Len(f.log)
        /\ f.pos \in Nat /\ Len(f.log) \in Nat /\ f.log \in Seq(M) /\ f.base \in Seq(M)
    BY LenProperties DEF FileTyped, FileRec
  <1>r. f \in FileRec(M)
    BY <1>1
  <1>b. f.base \in Seq(M) /\ f.log \in Seq(M)
    BY <1>1
  <1>p. f.pos \in Nat
    BY <1>1
  <1>2. Applied(f) \in Seq(M) /\ Len(Applied(f)) = f.pos /\ Intended(f) \in Seq(M)
    BY AppliedTyped
  <1>3. ASSUME NEW e \in M
        PROVE  /\ FileTyped(Edited(f, e), M)
               /\ Edited(f, e).fname = f.fname /\ Edited(f, e).fp = f.fp
               /\ Edited(f, e).base = f.base
    <2> DEFINE log == Append(Applied(f), e)
               pos == f.pos + 1
    <2>1. log \in Seq(M) /\ pos \in Nat /\ pos <= Len(log)
      BY <1>1, <1>2, AppendProperties
    <2>2. Edited(f, e) = With(f, f.fp, f.base, log, pos)
      <3>1. Edited(f, e) = [f EXCEPT !.log = log, !.pos = pos]
        BY DEF Edited
      <3> HIDE DEF log, pos
      <3> QED
        BY <1>r, <3>1 DEF With, FileRec
    <2> HIDE DEF log, pos
    <2> QED
      BY <1>b, <2>1, <2>2, WithTyped
  <1>4. /\ FileTyped(Undone(f), M) /\ FileTyped(Redone(f), M)
        /\ Undone(f).fname = f.fname /\ Undone(f).fp = f.fp /\ Undone(f).base = f.base
        /\ Redone(f).fname = f.fname /\ Redone(f).fp = f.fp /\ Redone(f).base = f.base
    <2> DEFINE less == IF f.pos > 0 THEN f.pos - 1 ELSE 0
               more == IF f.pos < Len(f.log) THEN f.pos + 1 ELSE f.pos
    <2>1. /\ less \in Nat /\ less <= Len(f.log)
          /\ more \in Nat /\ more <= Len(f.log)
      BY <1>1
    <2>2. /\ Undone(f) = With(f, f.fp, f.base, f.log, less)
          /\ Redone(f) = With(f, f.fp, f.base, f.log, more)
      <3>1. Undone(f) = [f EXCEPT !.pos = less] /\ Redone(f) = [f EXCEPT !.pos = more]
        BY DEF Undone, Redone
      <3> HIDE DEF less, more
      <3> QED
        BY <1>r, <3>1 DEF With, FileRec
    <2> HIDE DEF less, more
    <2> QED
      <3>1. /\ FileTyped(Undone(f), M)
            /\ Undone(f).fname = f.fname /\ Undone(f).fp = f.fp /\ Undone(f).base = f.base
        BY <1>b, <2>1, <2>2, WithTyped
      <3>2. /\ FileTyped(Redone(f), M)
            /\ Redone(f).fname = f.fname /\ Redone(f).fp = f.fp /\ Redone(f).base = f.base
        BY <1>b, <2>1, <2>2, WithTyped
      <3> QED
        BY <3>1, <3>2
  <1>5. /\ FileTyped(PrunedFile(f), M)
        /\ PrunedFile(f).fname = f.fname /\ PrunedFile(f).fp = f.fp
        /\ PrunedFile(f).base = f.base /\ PrunedFile(f).pos = f.pos
        /\ PrunedFile(f).log = Applied(f)
    <2> DEFINE log == Applied(f)
    <2>1. PrunedFile(f) = With(f, f.fp, f.base, log, f.pos)
      <3>1. PrunedFile(f) = [f EXCEPT !.log = log]
        BY DEF PrunedFile
      <3> HIDE DEF log
      <3> QED
        BY <1>r, <3>1 DEF With, FileRec
    <2>2. log \in Seq(M) /\ f.pos <= Len(log)
      BY <1>1, <1>2
    <2> HIDE DEF log
    <2>3. /\ FileTyped(PrunedFile(f), M)
          /\ PrunedFile(f).fname = f.fname /\ PrunedFile(f).fp = f.fp
          /\ PrunedFile(f).base = f.base /\ PrunedFile(f).pos = f.pos
          /\ PrunedFile(f).log = log
      BY <1>b, <1>p, <2>1, <2>2, WithTyped
    <2> QED
      BY <2>3 DEF log
  <1>6. Applied(PrunedFile(f)) = Applied(f)
    <2>1. SubSeq(Applied(f), 1, Len(Applied(f))) = Applied(f)
      BY <1>2, SubSeqFull
    <2> QED
      BY <1>2, <1>5, <2>1 DEF Applied
  <1>7. FileTyped(Terminated(f), M) /\ Terminated(f).fname = f.fname
    <2> DEFINE base == Intended(f)
               log == <<>>
    <2>1. Terminated(f) = With(f, Closed, base, log, 0)
      BY DEF Terminated, With
    <2>2. base \in Seq(M) /\ log \in Seq(M) /\ 0 <= Len(log) /\ 0 \in Nat
      BY <1>2, EmptySeq
    <2> HIDE DEF base, log
    <2> QED
      BY <2>1, <2>2, WithTyped
  <1>8. \A k \in Nat : FileTyped([f EXCEPT !.private = k], M)
    BY <1>1 DEF FileTyped, FileRec
  <1> QED
    BY <1>3, <1>4, <1>5, <1>6, <1>7, <1>8 DEF SameFile

\* fopen "a" only ever adds an empty file.
LEMMA InitDiskIs ==
  ASSUME NEW name, NEW dk, NEW M, DiskTyped(dk, M)
  PROVE  LET ek == InitDisk(name, dk)
         IN  /\ DiskTyped(ek, M)
             /\ \A n \in DOMAIN dk : n \in DOMAIN ek /\ ek[n] = dk[n]
             /\ DOMAIN ek \ DOMAIN dk \subseteq {name} \cap (Name \ ReadOnly)
             /\ name \in DOMAIN ek \ DOMAIN dk => ek[name] = <<>>
             /\ name \in Name \ ReadOnly => name \in DOMAIN ek
  BY EmptySeq DEF InitDisk, DiskTyped

LEMMA InitFileTyped ==
  ASSUME NEW M, NEW f, FileTyped(f, M), NEW dk, DiskTyped(dk, M),
         NEW name \in Name \cup {NoName}
  PROVE  LET g == InitFile(f, name, dk)
             ek == InitDisk(name, dk)
         IN  /\ FileTyped(g, M) /\ g.fname = name
             /\ g.fp # Closed => g.fp \in DOMAIN ek /\ g.base = ek[g.fp]
             /\ InitOk(name, dk) => g.fp = name /\ g.fp # Closed
             /\ g.log = f.log /\ g.pos = f.pos
  <1>1. f \in FileRec(M) /\ f.pos <= Len(f.log)
    BY DEF FileTyped
  <1> DEFINE ek == InitDisk(name, dk)
  <1>2. DiskTyped(ek, M)
    BY InitDiskIs
  <1>3. InitOk(name, dk) <=> name \in DOMAIN ek \ Unreadable
    BY DEF InitOk
  <1>4. InitOk(name, dk) => name \in Name /\ name # Closed
    BY <1>2, <1>3, OpenFileAssumption DEF DiskTyped
  <1>5. /\ InitFile(f, name, dk) \in FileRec(M)
        /\ InitFile(f, name, dk).fname = name
        /\ InitFile(f, name, dk).base = IF name \in DOMAIN ek THEN ek[name] ELSE f.base
        /\ InitFile(f, name, dk).fp = IF InitOk(name, dk) THEN name ELSE Closed
        /\ InitFile(f, name, dk).log = f.log /\ InitFile(f, name, dk).pos = f.pos
    <2>1. NoInfo \in Nat \cup {NoInfo}
      OBVIOUS
    <2>2. name \in DOMAIN ek => ek[name] \in Seq(M)
      BY <1>2 DEF DiskTyped
    <2> HIDE DEF ek
    <2> QED
      BY <1>1, <1>4, <2>1, <2>2 DEF InitFile, FileRec, ek
  <1> QED
    BY <1>1, <1>3, <1>4, <1>5 DEF FileTyped

LEMMA CreatedTyped ==
  ASSUME NEW M, NEW f, FileTyped(f, M), NEW dk, DiskTyped(dk, M), NEW name \in Name
  PROVE  LET g == CreatedFile(f, name, dk)
             ek == CreatedDisk(name, dk)
         IN  /\ FileTyped(g, M) /\ DiskTyped(ek, M)
             /\ g.fp # Closed => g.fp \in DOMAIN ek
             /\ g.fname = name /\ g.base = f.base /\ g.log = f.log /\ g.pos = f.pos
             /\ CreateOk(name, dk) => g.fp = name /\ ek[name] = <<>>
             /\ \A n \in DOMAIN dk : n \in DOMAIN ek /\ ek[n] = dk[n]
             /\ DOMAIN ek \ DOMAIN dk \subseteq {name} \cap (Name \ ReadOnly)
             /\ ~CreateOk(name, dk) => ek = dk
             /\ name \notin DOMAIN dk /\ ~CreateOk(name, dk) => g.fp = Closed
  <1>1. f \in FileRec(M) /\ f.pos <= Len(f.log)
    BY DEF FileTyped
  <1> DEFINE g == CreatedFile(f, name, dk)
             ek == CreatedDisk(name, dk)
  <1>2. /\ g \in FileRec(M) /\ g.fname = name /\ g.base = f.base /\ g.log = f.log /\ g.pos = f.pos
        /\ g.fp = IF CreateOk(name, dk) \/ name \in DOMAIN dk \ Unreadable THEN name ELSE Closed
    BY <1>1 DEF CreatedFile, FileRec
  <1>3. /\ DiskTyped(ek, M)
        /\ \A n \in DOMAIN dk : n \in DOMAIN ek /\ ek[n] = dk[n]
        /\ DOMAIN ek \ DOMAIN dk \subseteq {name} \cap (Name \ ReadOnly)
        /\ CreateOk(name, dk) => name \in DOMAIN ek /\ ek[name] = <<>>
        /\ ~CreateOk(name, dk) => ek = dk
    <2>1. CASE CreateOk(name, dk)
      <3>1. name \in Name \ ReadOnly /\ name \notin DOMAIN dk
        BY <2>1 DEF CreateOk
      <3>2. ek = InitDisk(name, dk)
        BY <2>1 DEF CreatedDisk
      <3> HIDE DEF ek
      <3> QED
        BY <2>1, <3>1, <3>2, InitDiskIs
    <2>2. CASE ~CreateOk(name, dk)
      BY <2>2 DEF CreatedDisk
    <2> QED
      BY <2>1, <2>2
  <1>4. name # Closed
    BY OpenFileAssumption
  <1> HIDE DEF g, ek
  <1>5. g.fp # Closed => g.fp \in DOMAIN ek
    BY <1>2, <1>3
  <1>6. name \notin DOMAIN dk /\ ~CreateOk(name, dk) => g.fp = Closed
    BY <1>2
  <1> QED
    BY <1>1, <1>2, <1>3, <1>4, <1>5, <1>6 DEF FileTyped, g, ek

LEMMA CopiedTyped ==
  ASSUME NEW M, NEW f, FileTyped(f, M), NEW dk, DiskTyped(dk, M), NEW name \in Name,
         f.fp # Closed, f.fp \in DOMAIN dk
  PROVE  LET g == CopiedFile(f, name)
             ek == CopiedDisk(f, name, dk)
         IN  /\ FileTyped(g, M) /\ DiskTyped(ek, M)
             /\ g.fp # Closed /\ g.fp \in DOMAIN ek
             /\ g.base = f.base /\ g.log = f.log /\ g.pos = f.pos
             /\ CopyOk(name) => g.fname = name /\ g.fp = name /\ name \notin ReadOnly
             /\ CopyOk(name) /\ name # f.fp => ek[name] = dk[f.fp]
             /\ \A n \in DOMAIN dk : n \in DOMAIN ek /\ (n # name => ek[n] = dk[n])
             /\ DOMAIN ek \ DOMAIN dk \subseteq Name \ ReadOnly
             /\ ~CopyOk(name) => g = f /\ ek = dk
  <1>1. f \in FileRec(M) /\ f.pos <= Len(f.log) /\ name # Closed /\ f.fp \in Name
    BY OpenFileAssumption DEF FileTyped, DiskTyped
  <1>2. CASE CopyOk(name)
    <2> DEFINE g == CopiedFile(f, name)
               ek == CopiedDisk(f, name, dk)
    <2>1. /\ g \in FileRec(M) /\ g.fname = name /\ g.fp = name
          /\ g.base = f.base /\ g.log = f.log /\ g.pos = f.pos
      BY <1>1, <1>2 DEF CopiedFile, FileRec
    <2>2. /\ DOMAIN ek = DOMAIN dk \cup {name}
          /\ \A n \in DOMAIN ek :
               ek[n] = IF n # name THEN dk[n] ELSE IF n = f.fp THEN <<>> ELSE dk[f.fp]
      BY <1>2 DEF CopiedDisk
    <2>3. name \notin ReadOnly
      BY <1>2 DEF CopyOk
    <2> HIDE DEF g, ek
    <2>4. DiskTyped(ek, M)
      BY <2>2, EmptySeq DEF DiskTyped
    <2> QED
      BY <1>1, <1>2, <2>1, <2>2, <2>3, <2>4 DEF FileTyped, g, ek
  <1>3. CASE ~CopyOk(name)
    BY <1>3 DEF CopiedFile, CopiedDisk
  <1> QED
    BY <1>2, <1>3

\* vf_save: the bytes are right when those on disk are those the edits were made
\* for, and in any case when the marks may be garbled.
LEMMA SavedTyped ==
  ASSUME NEW M, NEW f, FileTyped(f, M), NEW dk, DiskTyped(dk, M),
         f.fp # Closed => f.fp \in DOMAIN dk,
         Garbled \in M \/ (f.fp # Closed => dk[f.fp] = f.base)
  PROVE  LET g == SavedFile(f)
             ek == SavedDisk(f, dk)
         IN  /\ FileTyped(g, M) /\ DiskTyped(ek, M)
             /\ g.fname = f.fname /\ g.fp = f.fp
             /\ DOMAIN ek = DOMAIN dk
             /\ \A n \in DOMAIN dk : n # f.fname => ek[n] = dk[n]
             /\ SaveOk(f) => g.base = Intended(f) /\ g.pos = 0
             /\ SaveOk(f) /\ dk[f.fp] = f.base => ek[f.fp] = g.base
             /\ ~SaveOk(f) => g = PrunedFile(f) /\ ek = dk
  <1>1. f \in FileRec(M) /\ f.pos <= Len(f.log) /\ f.fp \in {f.fname, Closed} /\ f.pos \in Nat
    BY DEF FileTyped, FileRec
  <1>r. f \in FileRec(M)
    BY <1>1
  <1>2. Intended(f) \in Seq(M) /\ (f.pos = 0 => Intended(f) = f.base)
    BY AppliedTyped
  <1>3. CASE SaveOk(f)
    <2> DEFINE g == SavedFile(f)
               ek == SavedDisk(f, dk)
    <2>1. f.fp # Closed /\ f.fp = f.fname /\ f.fname \in DOMAIN dk
      BY <1>1, <1>3 DEF SaveOk
    <2>2. /\ FileTyped(g, M) /\ g.base = Intended(f) /\ g.pos = 0
          /\ g.fname = f.fname /\ g.fp = f.fp
      <3> DEFINE base == Intended(f)
                 log == <<>>
      <3>1. g = With(f, f.fp, base, log, 0)
        <4>1. g = [f EXCEPT !.base = base, !.log = log, !.pos = 0]
          BY <1>3 DEF SavedFile
        <4> HIDE DEF base, log, g
        <4> QED
          BY <1>r, <4>1 DEF With, FileRec
      <3>2. base \in Seq(M) /\ log \in Seq(M) /\ 0 <= Len(log) /\ 0 \in Nat
        BY <1>2, EmptySeq
      <3> HIDE DEF base, log, g
      <3>3. /\ FileTyped(g, M) /\ g.base = base /\ g.pos = 0
            /\ g.fname = f.fname /\ g.fp = f.fp
        BY <3>1, <3>2, WithTyped
      <3> QED
        BY <3>3 DEF base
    <2>3. CASE f.pos > 0
      <3>1. /\ DOMAIN ek = DOMAIN dk
            /\ \A n \in DOMAIN dk :
                 ek[n] = IF n # f.fname THEN dk[n]
                         ELSE IF dk[f.fname] = f.base THEN Intended(f) ELSE <<Garbled>>
        BY <1>3, <2>1, <2>3 DEF SavedDisk, NeedSave
      <3> HIDE DEF g, ek
      <3>2. Garbled \in M => <<Garbled>> \in Seq(M)
        OBVIOUS
      <3>3. DiskTyped(ek, M)
        BY <1>2, <2>1, <3>1, <3>2 DEF DiskTyped
      <3> QED
        BY <1>3, <2>1, <2>2, <3>1, <3>3 DEF g, ek
    <2>4. CASE f.pos = 0
      <3>1. ek = dk
        BY <2>4 DEF SavedDisk, NeedSave
      <3> HIDE DEF g, ek
      <3> QED
        BY <1>2, <1>3, <2>1, <2>2, <2>4, <3>1 DEF g, ek
    <2> QED
      BY <1>1, <2>3, <2>4
  <1>4. CASE ~SaveOk(f)
    <2>1. SavedFile(f) = PrunedFile(f) /\ SavedDisk(f, dk) = dk
      BY <1>4 DEF SavedFile, SavedDisk
    <2>2. FileTyped(PrunedFile(f), M)
      BY EditsTyped
    <2>3. PrunedFile(f).fname = f.fname /\ PrunedFile(f).fp = f.fp
      BY EditsTyped DEF SameFile
    <2> QED
      BY <1>4, <2>1, <2>2, <2>3
  <1> QED
    BY <1>3, <1>4

(***************************************************************************)
(* One file of several is replaced, and the disk changes with it.          *)
(***************************************************************************)

\* g at n fits among the other files, with the disk ek in the place of dk
Fits(fs, dk, n, g, ek) ==
  /\ \A m \in DOMAIN fs \ {n} : fs[m].fp # Closed => ek[fs[m].fp] = dk[fs[m].fp]
  /\ DOMAIN dk \subseteq DOMAIN ek
  /\ DOMAIN ek \ DOMAIN dk \subseteq Name \ ReadOnly
  /\ IF g.fp = Closed
     THEN g.base = <<>> /\ g.fname \in {NoName} \cup (ReadOnly \ DOMAIN ek)
     ELSE ek[g.fp] = g.base /\ \A m \in DOMAIN fs \ {n} : fs[m].fname # g.fname

LEMMA PutTyped ==
  ASSUME NEW M, NEW fs, NEW dk, Typed(fs, dk, M), NEW n, NEW g, NEW ek,
         FileTyped(g, M), g.fp # Closed => g.fp \in DOMAIN ek,
         DiskTyped(ek, M), DOMAIN dk \subseteq DOMAIN ek
  PROVE  Typed(Put(fs, n, g), ek, M)
  <1> DEFINE gs == Put(fs, n, g)
  <1>1. /\ DOMAIN gs = DOMAIN fs \cup {n}
        /\ gs[n] = g
        /\ \A m \in DOMAIN fs \ {n} : gs[m] = fs[m]
    BY DEF Put
  <1> HIDE DEF gs
  <1>2. \A m \in DOMAIN gs : FileTyped(gs[m], M) /\ (gs[m].fp # Closed => gs[m].fp \in DOMAIN ek)
    BY <1>1 DEF Typed
  <1> QED
    BY <1>2 DEF Typed, gs

LEMMA PutOk ==
  ASSUME NEW M, NEW fs, NEW dk, Typed(fs, dk, M), DiskOk(fs, dk), NEW n, NEW g, NEW ek,
         FileTyped(g, M), g.fp # Closed => g.fp \in DOMAIN ek,
         DiskTyped(ek, M), Fits(fs, dk, n, g, ek)
  PROVE  DiskOk(Put(fs, n, g), ek)
  <1> DEFINE gs == Put(fs, n, g)
  <1>1. /\ DOMAIN gs = DOMAIN fs \cup {n}
        /\ gs[n] = g
        /\ \A m \in DOMAIN fs \ {n} : gs[m] = fs[m]
    BY DEF Put
  <1> HIDE DEF gs
  <1>2. ASSUME NEW m \in DOMAIN gs
        PROVE  IF gs[m].fp = Closed
               THEN gs[m].base = <<>> /\ gs[m].fname \in {NoName} \cup (ReadOnly \ DOMAIN ek)
               ELSE ek[gs[m].fp] = gs[m].base
    <2>1. CASE m = n
      BY <1>1, <2>1 DEF Fits
    <2>2. CASE m # n
      <3>1. m \in DOMAIN fs \ {n} /\ gs[m] = fs[m]
        BY <1>1, <2>2
      <3> QED
        BY <3>1 DEF Fits, DiskOk
    <2> QED
      BY <2>1, <2>2
  <1>3. ASSUME NEW m \in DOMAIN fs \ {n}, fs[m].fp # Closed PROVE fs[m].fname # g.fname
    <2>1. CASE g.fp # Closed
      BY <2>1 DEF Fits
    <2>2. CASE g.fp = Closed
      <3>1. fs[m].fname \in DOMAIN dk /\ DOMAIN dk \subseteq Name
        BY <1>3 DEF Typed, FileTyped, DiskTyped
      <3>2. g.fname \notin DOMAIN dk
        BY <2>2, <3>1, OpenFileAssumption DEF Fits
      <3> QED
        BY <3>1, <3>2
    <2> QED
      BY <2>1, <2>2
  <1>4. ASSUME NEW m \in DOMAIN gs, NEW l \in DOMAIN gs, m # l, gs[m].fp # Closed
        PROVE  gs[m].fname # gs[l].fname
    <2>1. CASE m = n
      BY <1>1, <1>4, <2>1 DEF Fits
    <2>2. CASE l = n
      BY <1>1, <1>3, <1>4, <2>2
    <2>3. CASE m # n /\ l # n
      BY <1>1, <1>4, <2>3 DEF DiskOk
    <2> QED
      BY <2>1, <2>2, <2>3
  <1> QED
    BY <1>2, <1>4 DEF DiskOk, gs

\* Edits change nothing of that.
LEMMA SameFits ==
  ASSUME NEW M, NEW fs, NEW dk, Typed(fs, dk, M), DiskOk(fs, dk), NEW n \in DOMAIN fs,
         NEW g, SameFile(fs[n], g)
  PROVE  Fits(fs, dk, n, g, dk) /\ (g.fp # Closed => g.fp \in DOMAIN dk)
  <1>1. \A m \in DOMAIN fs \ {n} : g.fp # Closed => fs[m].fname # g.fname
    BY DEF DiskOk, SameFile
  <1> QED
    BY <1>1 DEF Fits, SameFile, DiskOk, Typed

\* An empty file of no name fits everywhere.
LEMMA BlankFits ==
  ASSUME NEW fs, NEW dk, NEW n
  PROVE  Fits(fs, dk, n, Blank, dk) /\ Blank.fp = Closed
  BY DEF Fits, Blank

\* vf_init with a name that is not in use.
LEMMA InitFits ==
  ASSUME NEW M, NEW fs, NEW dk, Typed(fs, dk, M), NEW n, NEW f, FileTyped(f, M),
         NEW name \in Name \cup {NoName}, InitOk(name, dk),
         \A m \in DOMAIN fs \ {n} : fs[m].fname # name
  PROVE  Fits(fs, dk, n, InitFile(f, name, dk), InitDisk(name, dk))
  <1> DEFINE g == InitFile(f, name, dk)
             ek == InitDisk(name, dk)
  <1>1. DiskTyped(dk, M)
    BY DEF Typed
  <1>2. g.fname = name /\ g.fp = name /\ g.fp # Closed /\ g.base = ek[g.fp]
    BY <1>1, InitFileTyped
  <1>3. /\ \A m \in DOMAIN dk : m \in DOMAIN ek /\ ek[m] = dk[m]
        /\ DOMAIN ek \ DOMAIN dk \subseteq Name \ ReadOnly
    <2> HIDE DEF g
    <2> HIDE DEF ek
    <2>1. /\ \A m \in DOMAIN dk : m \in DOMAIN ek /\ ek[m] = dk[m]
          /\ DOMAIN ek \ DOMAIN dk \subseteq {name} \cap (Name \ ReadOnly)
      BY <1>1, EmptySeq DEF ek, InitDisk, DiskTyped
    <2> QED
      BY <2>1
  <1>4. \A m \in DOMAIN fs : fs[m].fp # Closed => fs[m].fp \in DOMAIN dk
    BY DEF Typed
  <1> HIDE DEF g, ek
  <1> QED
    BY <1>2, <1>3, <1>4 DEF Fits, g, ek

\* vf_create_file with a name that is not on disk.
LEMMA CreateFits ==
  ASSUME NEW M, NEW fs, NEW dk, Typed(fs, dk, M), DiskOk(fs, dk), NEW n \in DOMAIN fs,
         fs[n].fp = Closed, NEW name \in Name, name \notin DOMAIN dk
  PROVE  Fits(fs, dk, n, CreatedFile(fs[n], name, dk), CreatedDisk(name, dk))
  <1> DEFINE f == fs[n]
             g == CreatedFile(f, name, dk)
             ek == CreatedDisk(name, dk)
  <1>1. DiskTyped(dk, M) /\ FileTyped(f, M) /\ f.base = <<>>
    BY DEF Typed, DiskOk
  <1>2. /\ g.fname = name /\ g.base = f.base
        /\ CreateOk(name, dk) => g.fp = name /\ ek[name] = <<>>
        /\ ~CreateOk(name, dk) => g.fp = Closed /\ ek = dk
        /\ \A m \in DOMAIN dk : m \in DOMAIN ek /\ ek[m] = dk[m]
        /\ DOMAIN ek \ DOMAIN dk \subseteq Name \ ReadOnly
    BY <1>1, CreatedTyped
  <1>3. \A m \in DOMAIN fs : fs[m].fp # Closed => fs[m].fp \in DOMAIN dk /\ fs[m].fname = fs[m].fp
    BY DEF Typed, FileTyped
  <1>4. ASSUME CreateOk(name, dk), NEW m \in DOMAIN fs PROVE fs[m].fname # name
    <2>1. name \notin ReadOnly /\ name # NoName
      BY <1>4, OpenFileAssumption DEF CreateOk
    <2> QED
      BY <1>3, <2>1 DEF DiskOk
  <1>5. ~CreateOk(name, dk) => name \in ReadOnly
    BY DEF CreateOk
  <1>6. name # Closed
    BY OpenFileAssumption
  <1> HIDE DEF g, ek
  <1> QED
    BY <1>1, <1>2, <1>3, <1>4, <1>5, <1>6 DEF Fits, g, ek, f

\* vf_copy_file to a name that is not in use.
LEMMA CopyFits ==
  ASSUME NEW M, NEW fs, NEW dk, Typed(fs, dk, M), DiskOk(fs, dk), NEW n \in DOMAIN fs,
         fs[n].fp # Closed, NEW name \in Name, \A m \in DOMAIN fs : fs[m].fname # name
  PROVE  Fits(fs, dk, n, CopiedFile(fs[n], name), CopiedDisk(fs[n], name, dk))
  <1> DEFINE f == fs[n]
             g == CopiedFile(f, name)
             ek == CopiedDisk(f, name, dk)
  <1>1. /\ DiskTyped(dk, M) /\ FileTyped(f, M) /\ f.fp \in DOMAIN dk /\ f.fp = f.fname
        /\ dk[f.fp] = f.base /\ f.fp # Closed
    BY DEF Typed, DiskOk, FileTyped
  <1>2. CASE CopyOk(name)
    <2>1. /\ g.fname = name /\ g.fp = name /\ g.fp # Closed /\ g.base = f.base
          /\ (name # f.fp => ek[name] = dk[f.fp])
          /\ \A m \in DOMAIN dk : m \in DOMAIN ek /\ (m # name => ek[m] = dk[m])
          /\ DOMAIN ek \ DOMAIN dk \subseteq Name \ ReadOnly
      BY <1>1, <1>2, CopiedTyped
    <2>2. \A m \in DOMAIN fs : fs[m].fp # Closed => fs[m].fp \in DOMAIN dk /\ fs[m].fp # name
      BY DEF Typed, FileTyped
    <2> HIDE DEF g, ek
    <2> QED
      BY <1>1, <2>1, <2>2 DEF Fits, g, ek, f
  <1>3. CASE ~CopyOk(name)
    <2>1. g = f /\ ek = dk
      BY <1>1, <1>3, CopiedTyped
    <2> QED
      BY <2>1, SameFits DEF SameFile
  <1> QED
    BY <1>2, <1>3

\* vf_save over the bytes the edits were made for.
LEMMA SaveFits ==
  ASSUME NEW M, NEW fs, NEW dk, Typed(fs, dk, M), DiskOk(fs, dk), NEW n \in DOMAIN fs
  PROVE  Fits(fs, dk, n, SavedFile(fs[n]), SavedDisk(fs[n], dk))
  <1> DEFINE f == fs[n]
             g == SavedFile(f)
             ek == SavedDisk(f, dk)
  <1>1. /\ DiskTyped(dk, M) /\ FileTyped(f, M)
        /\ f.fp # Closed => f.fp \in DOMAIN dk /\ f.fp = f.fname /\ dk[f.fp] = f.base
    BY DEF Typed, DiskOk, FileTyped
  <1>2. CASE SaveOk(f)
    <2>1. f.fp # Closed
      BY <1>2 DEF SaveOk
    <2>2. /\ g.fname = f.fname /\ g.fp = f.fp /\ DOMAIN ek = DOMAIN dk
          /\ \A m \in DOMAIN dk : m # f.fname => ek[m] = dk[m]
          /\ ek[f.fp] = g.base
      BY <1>1, <1>2, <2>1, SavedTyped
    <2>3. \A m \in DOMAIN fs \ {n} : /\ fs[m].fname # f.fname
                                     /\ fs[m].fp # Closed => fs[m].fp \in DOMAIN dk /\ fs[m].fp # f.fname
      BY <2>1 DEF Typed, FileTyped, DiskOk
    <2> HIDE DEF g, ek
    <2> QED
      BY <1>1, <2>1, <2>2, <2>3 DEF Fits, g, ek, f
  <1>3. CASE ~SaveOk(f)
    <2>1. g = PrunedFile(f) /\ ek = dk
      BY <1>3 DEF SavedFile, SavedDisk
    <2> QED
      BY <1>1, <2>1, EditsTyped, SameFits
  <1> QED
    BY <1>2, <1>3

(***************************************************************************)
(* What the commands that save make of a state.                            *)
(***************************************************************************)

\* A record as SaveChecked and the others pass it on.  The marks M leave out
\* Garbled when the user is careful; then the files fit the disk.
Good(s, M) ==
  /\ s = [file |-> s.file, disk |-> s.disk, size |-> s.size, failed |-> s.failed]
  /\ Typed(s.file, s.disk, M)
  /\ s.size \in Nat
  /\ Garbled \in M \/ DiskOk(s.file, s.disk)

\* The edits of f are still made on the same text, or they are on disk.
Kept(f, g) ==
  /\ f.fp # Closed => g.fp # Closed
  /\ \/ Applied(g) = Applied(f) /\ g.base = f.base /\ g.pos = f.pos
     \/ g.fp # Closed /\ g.base = Intended(f) /\ g.pos = 0

\* Only a file that cannot be written, or has no name, is left unsaved.
Done(f) == NeedSave(f) => NeedCreate(f) \/ f.fname \in ReadOnly

LEMMA KeptTransitive ==
  ASSUME NEW M, NEW f, NEW g, NEW h, FileTyped(g, M), Kept(f, g), Kept(g, h)
  PROVE  Kept(f, h)
  <1>1. g.pos = 0 => Intended(g) = g.base
    BY AppliedTyped
  <1>2. Applied(g) = Applied(f) /\ g.base = f.base => Intended(g) = Intended(f)
    BY DEF Intended
  <1> QED
    BY <1>1, <1>2 DEF Kept

LEMMA SavedKept ==
  ASSUME NEW M, NEW f, FileTyped(f, M), NEW dk
  PROVE  LET g == SavedFile(f)
         IN  Kept(f, g) /\ Done(g) /\ (NeedCreate(g) <=> NeedCreate(f))
  <1> DEFINE g == SavedFile(f)
  <1>1. f \in FileRec(M)
    BY DEF FileTyped
  <1>2. CASE SaveOk(f)
    <2> DEFINE base == Intended(f)
               log == <<>>
    <2>1. g = [f EXCEPT !.base = base, !.log = log, !.pos = 0]
      BY <1>2 DEF SavedFile
    <2> HIDE DEF base, log, g
    <2>2. g.base = base /\ g.pos = 0 /\ g.fp = f.fp /\ f.fp # Closed
      BY <1>1, <1>2, <2>1 DEF FileRec, SaveOk
    <2> QED
      BY <2>2 DEF Kept, Done, NeedSave, NeedCreate, base, g
  <1>3. CASE ~SaveOk(f)
    <2>1. g = PrunedFile(f)
      BY <1>3 DEF SavedFile
    <2> HIDE DEF g
    <2>2. /\ Applied(g) = Applied(f) /\ g.base = f.base /\ g.pos = f.pos
          /\ g.fp = f.fp /\ g.fname = f.fname
      BY <2>1, EditsTyped DEF SameFile
    <2>3. f.fp = Closed \/ f.fname \in ReadOnly
      BY <1>3 DEF SaveOk
    <2> QED
      BY <2>2, <2>3 DEF Kept, Done, NeedSave, NeedCreate, g
  <1> QED
    BY <1>2, <1>3

\* t is s with one file, and the disk, replaced in a way that loses nothing
Replaces(s, t, n, M) ==
  /\ Good(t, M)
  /\ DOMAIN t.file = DOMAIN s.file
  /\ \A m \in DOMAIN s.file \ {n} : t.file[m] = s.file[m]
  /\ t.size = s.size
  /\ Kept(s.file[n], t.file[n])

\* The state after one file was replaced.
LEMMA PutGood ==
  ASSUME NEW M, NEW s, Good(s, M), NEW n \in DOMAIN s.file, NEW g, NEW ek, NEW failed,
         FileTyped(g, M), g.fp # Closed => g.fp \in DOMAIN ek, DiskTyped(ek, M),
         DOMAIN s.disk \subseteq DOMAIN ek,
         Garbled \in M \/ Fits(s.file, s.disk, n, g, ek),
         Kept(s.file[n], g)
  PROVE  LET t == [file |-> Put(s.file, n, g), disk |-> ek, size |-> s.size, failed |-> failed]
         IN  Replaces(s, t, n, M) /\ t.file[n] = g /\ t.disk = ek
  <1> DEFINE fs == Put(s.file, n, g)
             t == [file |-> fs, disk |-> ek, size |-> s.size, failed |-> failed]
  <1>1. Typed(fs, ek, M)
    BY PutTyped DEF Good
  <1>2. Garbled \in M \/ DiskOk(fs, ek)
    BY PutOk DEF Good
  <1>3. DOMAIN fs = DOMAIN s.file /\ fs[n] = g /\ \A m \in DOMAIN s.file \ {n} : fs[m] = s.file[m]
    BY DEF Put
  <1> HIDE DEF fs
  <1>4. Good(t, M)
    BY <1>1, <1>2 DEF Good
  <1> QED
    BY <1>3, <1>4 DEF Replaces, fs

LEMMA SaveCheckedGood ==
  ASSUME NEW M, NEW s, Good(s, M), NEW n \in DOMAIN s.file
  PROVE  LET t == SaveChecked(s, n)
         IN  /\ Replaces(s, t, n, M)
             /\ DOMAIN t.disk = DOMAIN s.disk
             /\ Done(t.file[n])
             /\ NeedCreate(t.file[n]) <=> NeedCreate(s.file[n])
  <1> DEFINE f == s.file[n]
             t == SaveChecked(s, n)
  <1>1. FileTyped(f, M) /\ DiskTyped(s.disk, M) /\ (f.fp # Closed => f.fp \in DOMAIN s.disk)
    BY DEF Good, Typed
  <1>2. CASE NeedSave(f)
    <2> DEFINE g == SavedFile(f)
               ek == SavedDisk(f, s.disk)
    <2>1. Garbled \in M \/ (f.fp # Closed => s.disk[f.fp] = f.base)
      BY DEF Good, DiskOk
    <2>2. /\ FileTyped(g, M) /\ DiskTyped(ek, M) /\ g.fp = f.fp /\ DOMAIN ek = DOMAIN s.disk
      BY <1>1, <2>1, SavedTyped
    <2>3. Garbled \in M \/ Fits(s.file, s.disk, n, g, ek)
      BY SaveFits DEF Good
    <2>4. Kept(f, g) /\ Done(g) /\ (NeedCreate(g) <=> NeedCreate(f))
      BY <1>1, SavedKept
    <2>5. t = [file |-> Put(s.file, n, g), disk |-> ek, size |-> s.size,
               failed |-> SavedSize(f) # s.size]
      BY <1>2 DEF SaveChecked
    <2> HIDE DEF g, ek, t
    <2>6. Replaces(s, t, n, M) /\ t.file[n] = g /\ t.disk = ek
      BY <1>1, <2>2, <2>3, <2>4, <2>5, PutGood
    <2> QED
      BY <2>2, <2>4, <2>6 DEF g, ek, t
  <1>3. CASE ~NeedSave(f)
    <2>1. t = [s EXCEPT !.failed = FALSE]
      BY <1>3 DEF SaveChecked
    <2> HIDE DEF t
    <2>2. /\ t.file = s.file /\ t.disk = s.disk /\ t.size = s.size
          /\ t = [file |-> t.file, disk |-> t.disk, size |-> t.size, failed |-> t.failed]
      BY <2>1 DEF Good
    <2>3. Good(t, M)
      BY <2>2 DEF Good
    <2> QED
      BY <1>3, <2>2, <2>3 DEF Replaces, Kept, Done, t
  <1> QED
    BY <1>2, <1>3

LEMMA ReplacesTwice ==
  ASSUME NEW M, NEW s, NEW t, NEW u, NEW n \in DOMAIN s.file,
         Replaces(s, t, n, M), Replaces(t, u, n, M)
  PROVE  Replaces(s, u, n, M)
  <1>1. n \in DOMAIN t.file /\ FileTyped(t.file[n], M)
    BY DEF Replaces, Good, Typed
  <1>2. Kept(s.file[n], t.file[n]) /\ Kept(t.file[n], u.file[n])
    BY DEF Replaces
  <1>3. Kept(s.file[n], u.file[n])
    BY <1>1, <1>2, KeptTransitive
  <1>4. /\ Good(u, M) /\ DOMAIN u.file = DOMAIN s.file /\ u.size = s.size
        /\ \A m \in DOMAIN s.file \ {n} : u.file[m] = s.file[m]
    BY DEF Replaces
  <1> QED
    BY <1>3, <1>4 DEF Replaces

\* The name given for a file without one
Answers(s, n, answer, M) ==
  NeedCreate(s.file[n]) => answer = Cancel \/ (answer \in Name /\ (Garbled \in M \/ answer \notin DOMAIN s.disk))

LEMMA ActionSaveGood ==
  ASSUME NEW M, NEW s, Good(s, M), NEW n \in DOMAIN s.file, NEW answer, Answers(s, n, answer, M)
  PROVE  LET t == ActionSave(s, n, answer)
         IN  /\ Replaces(s, t, n, M)
             /\ DOMAIN t.disk \subseteq DOMAIN s.disk \cup {answer}
             /\ ~NeedCreate(s.file[n]) => DOMAIN t.disk = DOMAIN s.disk
             /\ Garbled \notin M => Done(t.file[n])
  <1> DEFINE f == s.file[n]
             t == ActionSave(s, n, answer)
  <1>1. FileTyped(f, M) /\ DiskTyped(s.disk, M)
    BY DEF Good, Typed
  <1>2. CASE ~NeedCreate(f)
    <2>1. t = SaveChecked(s, n)
      BY <1>2 DEF ActionSave
    <2> HIDE DEF t
    <2> QED
      BY <1>2, <2>1, SaveCheckedGood DEF t
  <1>3. CASE NeedCreate(f) /\ answer = Cancel
    <2>1. t = [s EXCEPT !.failed = TRUE]
      BY <1>3 DEF ActionSave
    <2> HIDE DEF t
    <2>2. /\ t.file = s.file /\ t.disk = s.disk /\ t.size = s.size
          /\ t = [file |-> t.file, disk |-> t.disk, size |-> t.size, failed |-> t.failed]
      BY <2>1 DEF Good
    <2>3. Good(t, M)
      BY <2>2 DEF Good
    <2> QED
      BY <1>3, <2>2, <2>3 DEF Replaces, Kept, Done, t
  <1>4. CASE NeedCreate(f) /\ answer # Cancel
    <2> DEFINE g == CreatedFile(f, answer, s.disk)
               ek == CreatedDisk(answer, s.disk)
               fs == Put(s.file, n, g)
               created == [s EXCEPT !.file = fs, !.disk = ek]
    <2>1. answer \in Name /\ (Garbled \in M \/ answer \notin DOMAIN s.disk) /\ f.fp = Closed
      BY <1>4 DEF Answers, NeedCreate
    <2>2. /\ FileTyped(g, M) /\ DiskTyped(ek, M) /\ (g.fp # Closed => g.fp \in DOMAIN ek)
          /\ g.fname = answer /\ g.base = f.base /\ g.log = f.log /\ g.pos = f.pos
          /\ DOMAIN s.disk \subseteq DOMAIN ek
          /\ DOMAIN ek \ DOMAIN s.disk \subseteq {answer}
          /\ CreateOk(answer, s.disk) => g.fp = answer
          /\ ~CreateOk(answer, s.disk) => ek = s.disk
          /\ answer \notin DOMAIN s.disk /\ ~CreateOk(answer, s.disk) => g.fp = Closed
      BY <1>1, <2>1, CreatedTyped
    <2>3. Garbled \in M \/ Fits(s.file, s.disk, n, g, ek)
      BY <2>1, CreateFits DEF Good
    <2>4. Kept(f, g)
      BY <2>1, <2>2 DEF Kept, Applied
    <2>5. created = [file |-> fs, disk |-> ek, size |-> s.size, failed |-> s.failed]
      <3>1. s = [file |-> s.file, disk |-> s.disk, size |-> s.size, failed |-> s.failed]
        BY DEF Good
      <3> DEFINE one == [s EXCEPT !.file = fs]
      <3>2. one = [file |-> fs, disk |-> s.disk, size |-> s.size, failed |-> s.failed]
        <4> HIDE DEF fs
        <4> QED
          BY <3>1
      <3>3. created = [one EXCEPT !.disk = ek]
        OBVIOUS
      <3> HIDE DEF one, created, fs, ek
      <3> QED
        BY <3>2, <3>3
    <2>6. answer # Closed
      BY <2>1, OpenFileAssumption
    <2>7. t = IF ~CreateOk(answer, s.disk) THEN [created EXCEPT !.failed = TRUE]
              ELSE SaveChecked(created, n)
      BY <1>4 DEF ActionSave
    <2> HIDE DEF g, ek, fs, created, t
    <2>8. Replaces(s, created, n, M) /\ created.file[n] = g /\ created.disk = ek
      BY <2>2, <2>3, <2>4, <2>5, PutGood DEF fs
    <2>9. CASE ~CreateOk(answer, s.disk)
      <3>1. t = [file |-> fs, disk |-> ek, size |-> s.size, failed |-> TRUE]
        BY <2>5, <2>7, <2>9
      <3>2. Replaces(s, t, n, M) /\ t.file[n] = g /\ t.disk = ek
        BY <2>2, <2>3, <2>4, <3>1, PutGood DEF fs
      <3>3. Garbled \notin M => NeedCreate(g)
        BY <2>1, <2>2, <2>9 DEF NeedCreate
      <3> QED
        BY <1>4, <2>2, <2>9, <3>2, <3>3 DEF Done, t
    <2>10. CASE CreateOk(answer, s.disk)
      <3>1. t = SaveChecked(created, n)
        BY <2>7, <2>10
      <3>2. Good(created, M) /\ n \in DOMAIN created.file
        BY <2>8 DEF Replaces
      <3>3. /\ Replaces(created, t, n, M) /\ DOMAIN t.disk = DOMAIN created.disk
            /\ Done(t.file[n]) /\ (NeedCreate(t.file[n]) <=> NeedCreate(created.file[n]))
        BY <3>1, <3>2, SaveCheckedGood
      <3>4. Replaces(s, t, n, M)
        BY <2>8, <3>3, ReplacesTwice
      <3>5. ~NeedCreate(g)
        BY <2>2, <2>6, <2>10 DEF NeedCreate
      <3> QED
        BY <1>4, <2>2, <2>8, <3>3, <3>4, <3>5 DEF t
    <2> QED
      BY <2>9, <2>10
  <1> QED
    BY <1>2, <1>3, <1>4

\* A file shown and saved in its turn.
Changes(s, t, n, M) ==
  /\ Good(t, M)
  /\ DOMAIN t.file = DOMAIN s.file
  /\ \A m \in DOMAIN s.file \ {n} : t.file[m] = s.file[m]
  /\ Kept(s.file[n], t.file[n])

LEMMA SaveShownGood ==
  ASSUME NEW M, NEW s, Good(s, M), NEW n \in DOMAIN s.file, NEW ask, Answers(s, n, ask[n], M)
  PROVE  LET t == SaveShown(s, n, ask)
         IN  /\ Changes(s, t, n, M)
             /\ DOMAIN t.disk \subseteq DOMAIN s.disk \cup {ask[n]}
             /\ ~NeedCreate(s.file[n]) => DOMAIN t.disk = DOMAIN s.disk
             /\ Garbled \notin M => Done(t.file[n])
  <1> DEFINE t == SaveShown(s, n, ask)
             shown == FileSize(s.file[n])
             r == [s EXCEPT !.size = shown]
  <1>1. CASE ~NeedSave(s.file[n])
    <2>1. t = s
      BY <1>1 DEF SaveShown
    <2> HIDE DEF t
    <2> QED
      BY <1>1, <2>1 DEF Changes, Kept, Done, t
  <1>2. CASE NeedSave(s.file[n])
    <2>1. shown \in Nat
      BY AppliedTyped DEF Good, Typed
    <2>2. r = [file |-> s.file, disk |-> s.disk, size |-> shown, failed |-> s.failed]
      <3>1. s = [file |-> s.file, disk |-> s.disk, size |-> s.size, failed |-> s.failed]
        BY DEF Good
      <3> HIDE DEF shown
      <3> QED
        BY <3>1
    <2>3. t = ActionSave(r, n, ask[n])
      BY <1>2 DEF SaveShown
    <2> HIDE DEF t, r, shown
    <2>4. Good(r, M) /\ r.file = s.file /\ r.disk = s.disk
      BY <2>1, <2>2 DEF Good
    <2>5. Answers(r, n, ask[n], M) /\ n \in DOMAIN r.file
      BY <2>4 DEF Answers
    <2>6. /\ Replaces(r, t, n, M)
          /\ DOMAIN t.disk \subseteq DOMAIN r.disk \cup {ask[n]}
          /\ ~NeedCreate(r.file[n]) => DOMAIN t.disk = DOMAIN r.disk
          /\ Garbled \notin M => Done(t.file[n])
      BY <2>3, <2>4, <2>5, ActionSaveGood
    <2> QED
      BY <2>4, <2>6 DEF Changes, Replaces, t
  <1> QED
    BY <1>1, <1>2

\* What a walk has made of the state after k files of its turn; the rest of
\* the turn is as it was, and the disk has no names but those given so far.
After(s, k, turn, ask, M) ==
  /\ Good(s, M)
  /\ DOMAIN s.file = DOMAIN file
  /\ \A m \in DOMAIN file : Kept(file[m], s.file[m])
  /\ Garbled \notin M =>
       /\ \A j \in 1 .. k : Done(s.file[turn[j]])
       /\ \A j \in k + 1 .. Len(turn) : s.file[turn[j]] = file[turn[j]]
       /\ \A name \in DOMAIN s.disk \ DOMAIN disk :
            \E j \in 1 .. k : NeedCreate(file[turn[j]]) /\ ask[turn[j]] = name

\* The answers to its prompts are those of a careful user.
GivesNames(ask, M) ==
  /\ ask \in [{n \in DOMAIN file : NeedCreate(file[n])} -> Answer]
  /\ Garbled \in M \/ /\ \A n \in DOMAIN ask : ask[n] = Cancel \/ ask[n] \notin DOMAIN disk
                      /\ \A n, m \in DOMAIN ask : n # m => ask[m] = Cancel \/ ask[m] # ask[n]

LEMMA NextInTurn ==
  ASSUME NEW M, NEW ask, GivesNames(ask, M), NEW turn, Len(turn) \in Nat,
         \A j \in 1 .. Len(turn) : turn[j] \in DOMAIN file,
         \A i, j \in 1 .. Len(turn) : turn[i] = turn[j] => i = j,
         NEW k \in 0 .. Len(turn) - 1, NEW s, After(s, k, turn, ask, M)
  PROVE  After(SaveShown(s, turn[k + 1], ask), k + 1, turn, ask, M)
  <1> DEFINE n == turn[k + 1]
             t == SaveShown(s, n, ask)
  <1>0. /\ k + 1 \in 1 .. Len(turn) /\ k \in Nat
        /\ 1 .. k + 1 = 1 .. k \cup {k + 1}
        /\ \A j \in k + 2 .. Len(turn) : j \in k + 1 .. Len(turn) /\ j \in 1 .. Len(turn) /\ j # k + 1
        /\ \A j \in 1 .. k : j \in 1 .. Len(turn) /\ j # k + 1
        /\ k + 1 \in k + 1 .. Len(turn)
        /\ k + 1 + 1 = k + 2
    OBVIOUS
  <1>n. n \in DOMAIN file /\ n \in DOMAIN s.file /\ Good(s, M)
    BY <1>0 DEF After
  <1>c. NeedCreate(s.file[n]) => NeedCreate(file[n])
    BY <1>n DEF After, Kept, NeedCreate
  <1>d. \A j \in 1 .. Len(turn) : j # k + 1 => turn[j] # n /\ turn[j] \in DOMAIN file
    BY <1>0
  <1> HIDE DEF n, t
  <1>1. Answers(s, n, ask[n], M)
    <2> SUFFICES ASSUME NeedCreate(s.file[n]), ask[n] # Cancel
                 PROVE  ask[n] \in Name /\ (Garbled \in M \/ ask[n] \notin DOMAIN s.disk)
      BY DEF Answers
    <2>1. n \in DOMAIN ask /\ ask[n] \in Name
      BY <1>n, <1>c DEF GivesNames, Answer
    <2>2. ASSUME Garbled \notin M PROVE ask[n] \notin DOMAIN s.disk
      <3>1. ask[n] \notin DOMAIN disk
        BY <2>1, <2>2 DEF GivesNames
      <3>2. \A j \in 1 .. k : NeedCreate(file[turn[j]]) => ask[turn[j]] # ask[n]
        <4>1. \A m \in DOMAIN ask : m # n => ask[m] # ask[n]
          BY <2>1, <2>2 DEF GivesNames
        <4>2. \A j \in 1 .. k : turn[j] \in DOMAIN file /\ turn[j] # n
          BY <1>0, <1>d
        <4> QED
          BY <4>1, <4>2 DEF GivesNames
      <3> QED
        BY <2>2, <3>1, <3>2 DEF After
    <2> QED
      BY <2>1, <2>2
  <1>2. /\ Changes(s, t, n, M)
        /\ DOMAIN t.disk \subseteq DOMAIN s.disk \cup {ask[n]}
        /\ ~NeedCreate(s.file[n]) => DOMAIN t.disk = DOMAIN s.disk
        /\ Garbled \notin M => Done(t.file[n])
    BY <1>1, <1>n, SaveShownGood DEF t
  <1>3. Good(t, M) /\ DOMAIN t.file = DOMAIN file
        /\ \A m \in DOMAIN file \ {n} : t.file[m] = s.file[m]
    BY <1>2 DEF Changes, After
  <1>4. ASSUME NEW m \in DOMAIN file PROVE Kept(file[m], t.file[m])
    <2>1. CASE m = n
      <3>1. FileTyped(s.file[n], M)
        BY <1>n DEF Good, Typed
      <3>2. Kept(file[n], s.file[n]) /\ Kept(s.file[n], t.file[n])
        BY <1>2, <1>n DEF After, Changes
      <3> QED
        BY <2>1, <3>1, <3>2, KeptTransitive
    <2>2. CASE m # n
      BY <1>3, <2>2 DEF After
    <2> QED
      BY <2>1, <2>2
  <1>5. ASSUME Garbled \notin M
        PROVE  /\ \A j \in 1 .. k + 1 : Done(t.file[turn[j]])
               /\ \A j \in k + 2 .. Len(turn) : t.file[turn[j]] = file[turn[j]]
               /\ \A name \in DOMAIN t.disk \ DOMAIN disk :
                    \E j \in 1 .. k + 1 : NeedCreate(file[turn[j]]) /\ ask[turn[j]] = name
    <2>1. /\ \A j \in 1 .. k : Done(s.file[turn[j]])
          /\ \A j \in k + 1 .. Len(turn) : s.file[turn[j]] = file[turn[j]]
          /\ \A name \in DOMAIN s.disk \ DOMAIN disk :
               \E j \in 1 .. k : NeedCreate(file[turn[j]]) /\ ask[turn[j]] = name
      BY <1>5 DEF After
    <2>2. ASSUME NEW j \in 1 .. k + 1 PROVE Done(t.file[turn[j]])
      <3>1. CASE j = k + 1
        BY <1>2, <1>5, <3>1 DEF n
      <3>2. CASE j \in 1 .. k
        BY <1>0, <1>3, <1>d, <2>1, <3>2
      <3> QED
        BY <1>0, <3>1, <3>2
    <2>3. \A j \in k + 2 .. Len(turn) : t.file[turn[j]] = file[turn[j]]
      BY <1>0, <1>3, <1>d, <2>1
    <2>4. ASSUME NEW name \in DOMAIN t.disk \ DOMAIN disk
          PROVE  \E j \in 1 .. k + 1 : NeedCreate(file[turn[j]]) /\ ask[turn[j]] = name
      <3>1. CASE name \in DOMAIN s.disk
        BY <1>0, <2>1, <3>1
      <3>2. CASE name \notin DOMAIN s.disk
        <4>1. NeedCreate(s.file[n]) /\ ask[n] = name
          BY <1>2, <3>2
        <4> QED
          BY <1>0, <1>c, <4>1 DEF n
      <3> QED
        BY <3>1, <3>2
    <2> QED
      BY <2>2, <2>3, <2>4
  <1>6. After(t, k + 1, turn, ask, M)
    BY <1>0, <1>3, <1>4, <1>5 DEF After
  <1> QED
    BY <1>6 DEF n, t

LEMMA SavedInTurn ==
  ASSUME NEW M, Good(Now, M), NEW ask, GivesNames(ask, M), NEW turn, Len(turn) \in Nat,
         \A j \in 1 .. Len(turn) : turn[j] \in DOMAIN file,
         \A i, j \in 1 .. Len(turn) : turn[i] = turn[j] => i = j,
         NEW saved, saved[0] = Now,
         \A k \in 0 .. Len(turn) - 1 : saved[k + 1] = SaveShown(saved[k], turn[k + 1], ask)
  PROVE  After(saved[Len(turn)], Len(turn), turn, ask, M)
  <1> DEFINE S == {k \in 0 .. Len(turn) : After(saved[k], k, turn, ask, M)}
  <1>2. 0 \in S
    <2>1. /\ Now.file = file /\ Now.disk = disk
      BY DEF Now
    <2>2. \A m \in DOMAIN file : Kept(file[m], file[m])
      BY DEF Kept
    <2>3. After(Now, 0, turn, ask, M)
      BY <2>1, <2>2 DEF After
    <2> QED
      BY <2>3
  <1>3. ASSUME NEW k \in 0 .. Len(turn) - 1, k \in S PROVE k + 1 \in S
    <2>1. After(saved[k], k, turn, ask, M)
      BY <1>3
    <2>2. After(SaveShown(saved[k], turn[k + 1], ask), k + 1, turn, ask, M)
      BY <1>3, <2>1, NextInTurn
    <2>3. k + 1 \in 0 .. Len(turn) /\ saved[k + 1] = SaveShown(saved[k], turn[k + 1], ask)
      OBVIOUS
    <2> QED
      BY <2>2, <2>3
  <1>4. 0 .. Len(turn) \subseteq S
    <2> HIDE DEF S
    <2> QED
      BY <1>2, <1>3, UpTo
  <1> QED
    BY <1>4

\* :w name; the name is that of no open file, or of none on disk.
NamesAs(name, M) ==
  Garbled \in M \/ IF NeedCreate(Here) THEN name \notin DOMAIN disk
                   ELSE \A n \in DOMAIN file : file[n].fname # name

LEMMA ActionSaveAsGood ==
  ASSUME NEW M, Good(Now, M), current \in DOMAIN file, NEW name \in Name, NamesAs(name, M)
  PROVE  Replaces(Now, ActionSaveAs(name), current, M)
  <1> DEFINE f == Here
             g == IF NeedCreate(f) THEN CreatedFile(f, name, disk) ELSE CopiedFile(f, name)
             dk == IF NeedCreate(f) THEN CreatedDisk(name, disk) ELSE CopiedDisk(f, name, disk)
             ok == IF NeedCreate(f) THEN CreateOk(name, disk) ELSE CopyOk(name)
             one == [file |-> Put(file, current, g), disk |-> dk, size |-> size, failed |-> ~ok]
             t == ActionSaveAs(name)
  <1>0. /\ Now.file = file /\ Now.disk = disk /\ Now.size = size /\ f = Now.file[current]
        /\ current \in DOMAIN Now.file
    BY DEF Now, Here
  <1>1. /\ FileTyped(f, M) /\ DiskTyped(disk, M) /\ (f.fp # Closed => f.fp \in DOMAIN disk)
        /\ Typed(file, disk, M) /\ (Garbled \in M \/ DiskOk(file, disk))
    BY <1>0 DEF Good, Typed
  <1>2. /\ FileTyped(g, M) /\ DiskTyped(dk, M) /\ (g.fp # Closed => g.fp \in DOMAIN dk)
        /\ DOMAIN disk \subseteq DOMAIN dk
        /\ g.base = f.base /\ g.log = f.log /\ g.pos = f.pos
        /\ f.fp # Closed => g.fp # Closed
        /\ Garbled \in M \/ Fits(file, disk, current, g, dk)
    <2>1. CASE NeedCreate(f)
      <3>1. g = CreatedFile(f, name, disk) /\ dk = CreatedDisk(name, disk) /\ f.fp = Closed
        BY <2>1 DEF NeedCreate
      <3>2. Garbled \in M \/ Fits(file, disk, current, CreatedFile(f, name, disk), CreatedDisk(name, disk))
        BY <1>1, <2>1, <3>1, CreateFits DEF NamesAs, Here
      <3> HIDE DEF g, dk, f
      <3> QED
        BY <1>1, <3>1, <3>2, CreatedTyped
    <2>2. CASE ~NeedCreate(f)
      <3>1. g = CopiedFile(f, name) /\ dk = CopiedDisk(f, name, disk) /\ f.fp # Closed
        BY <2>2 DEF NeedCreate
      <3>2. Garbled \in M \/ Fits(file, disk, current, CopiedFile(f, name), CopiedDisk(f, name, disk))
        BY <1>1, <2>2, <3>1, CopyFits DEF NamesAs, Here
      <3> HIDE DEF g, dk, f
      <3> QED
        BY <1>1, <3>1, <3>2, CopiedTyped
    <2> QED
      BY <2>1, <2>2
  <1>3. Kept(f, g)
    BY <1>2 DEF Kept, Applied
  <1>4. t = [file |-> Put(file, current, IF ok THEN SavedFile(g) ELSE g),
             disk |-> IF ok THEN SavedDisk(g, dk) ELSE dk, size |-> size, failed |-> ~ok]
    BY DEF ActionSaveAs
  <1> HIDE DEF g, dk, ok, t
  <1>5. Replaces(Now, one, current, M) /\ one.file[current] = g /\ one.disk = dk
    <2> HIDE DEF f
    <2> QED
      BY <1>0, <1>2, <1>3, PutGood
  <1>6. CASE ~ok
    BY <1>4, <1>5, <1>6 DEF t
  <1>7. CASE ok
    <2> DEFINE h == SavedFile(g)
               ek == SavedDisk(g, dk)
    <2>1. Good(one, M) /\ current \in DOMAIN one.file
      BY <1>0, <1>5 DEF Replaces
    <2>2. Garbled \in M \/ (g.fp # Closed => dk[g.fp] = g.base)
      BY <1>2 DEF Fits
    <2>3. FileTyped(h, M) /\ DiskTyped(ek, M) /\ h.fp = g.fp /\ DOMAIN ek = DOMAIN dk
      BY <1>2, <2>2, SavedTyped
    <2>4. Garbled \in M \/ Fits(one.file, one.disk, current, h, ek)
      <3> HIDE DEF one, h, ek
      <3>1. Garbled \in M \/ Fits(one.file, one.disk, current, SavedFile(one.file[current]),
                                  SavedDisk(one.file[current], one.disk))
        BY <2>1, SaveFits DEF Good
      <3> QED
        BY <1>5, <3>1 DEF h, ek
    <2>5. Kept(g, h)
      BY <1>2, SavedKept
    <2> DEFINE two == [file |-> Put(one.file, current, h), disk |-> ek, size |-> one.size,
                       failed |-> one.failed]
    <2>6. Replaces(one, two, current, M)
      <3> HIDE DEF one, h, ek
      <3> QED
        BY <1>2, <1>5, <2>1, <2>3, <2>4, <2>5, PutGood
    <2>7. t = two
      <3>1. t = [file |-> Put(file, current, h), disk |-> ek, size |-> size, failed |-> ~ok]
        BY <1>4, <1>7
      <3>2. Put(one.file, current, h) = Put(file, current, h)
        BY DEF Put
      <3> HIDE DEF h, ek
      <3> QED
        BY <3>1, <3>2
    <2> HIDE DEF one, two
    <2> QED
      BY <1>0, <1>5, <2>6, <2>7, ReplacesTwice DEF t
  <1> QED
    BY <1>6, <1>7

(***************************************************************************)
(* The steps.                                                              *)
(***************************************************************************)

LEMMA SaveAllGood ==
  ASSUME NEW M, FilesInv(M), current # None, NEW ask, GivesNames(ask, M)
  PROVE  LET s == SaveAll(ask).saved
         IN  /\ Good(s, M) /\ DOMAIN s.file = DOMAIN file
             /\ \A n \in DOMAIN file : Kept(file[n], s.file[n])
             /\ Garbled \notin M => \A n \in DOMAIN file : Done(s.file[n])
  <1>1. Good(Now, M)
    BY DEF FilesInv, Good, Now
  <1>2. PICK turn : IsTurn(turn)
    BY TurnExists DEF FilesInv
  <1>3. PICK walk :
          /\ walk[0] = SetOut
          /\ \A k \in 0 .. Len(turn) - 1 :
               walk[k + 1] = SaveAt(walk[k], [ring EXCEPT !.cur = turn[k + 1]], ask)
          /\ SaveAll(ask) = walk[Len(turn)]
    BY <1>2, SaveAllInTurn DEF FilesInv
  <1>4. /\ Len(turn) \in Nat
        /\ \A j \in 1 .. Len(turn) : turn[j] \in DOMAIN file
        /\ \A i, j \in 1 .. Len(turn) : turn[i] = turn[j] => i = j
        /\ \A n \in DOMAIN file : \E j \in 1 .. Len(turn) : turn[j] = n
    <2>1. DOMAIN file = InRing(ring)
      BY DEF FilesInv
    <2>2. Cycle(ring, turn) /\ \A i, j \in 1 .. Len(turn) : turn[i] = turn[j] => i = j
      BY <1>2 DEF IsTurn, Cycle
    <2> QED
      BY <2>1, <2>2, RowFacts
  <1> DEFINE saved == [k \in 0 .. Len(turn) |-> walk[k].saved]
  <1>5. saved[0] = Now /\ saved[Len(turn)] = SaveAll(ask).saved
    BY <1>3, <1>4 DEF SetOut
  <1>6. ASSUME NEW k \in 0 .. Len(turn) - 1
        PROVE  saved[k + 1] = SaveShown(saved[k], turn[k + 1], ask)
    <2>1. k \in 0 .. Len(turn) /\ k + 1 \in 0 .. Len(turn)
      BY <1>4
    <2> DEFINE r == [ring EXCEPT !.cur = turn[k + 1]]
    <2>2. r.cur = turn[k + 1]
      BY DEF FilesInv, RowInv, RingInv, Ring, Shape
    <2>3. walk[k + 1] = SaveAt(walk[k], r, ask)
      BY <1>3
    <2> HIDE DEF r
    <2>4. walk[k + 1].saved = SaveShown(walk[k].saved, turn[k + 1], ask)
      BY <2>2, <2>3 DEF SaveAt
    <2>5. saved[k] = walk[k].saved /\ saved[k + 1] = walk[k + 1].saved
      BY <2>1
    <2> QED
      BY <2>4, <2>5
  <1> HIDE DEF saved
  <1> DEFINE s == saved[Len(turn)]
  <1>7. After(s, Len(turn), turn, ask, M)
    BY <1>1, <1>4, <1>5, <1>6, SavedInTurn
  <1> HIDE DEF s
  <1>8. /\ Good(s, M) /\ DOMAIN s.file = DOMAIN file
        /\ \A n \in DOMAIN file : Kept(file[n], s.file[n])
    BY <1>7 DEF After
  <1>9. Garbled \notin M => \A n \in DOMAIN file : Done(s.file[n])
    BY <1>4, <1>7 DEF After
  <1> QED
    BY <1>5, <1>8, <1>9 DEF s

\* The step does not lose what OthersKeepUnsaved protects.
KeepsOthers ==
  \A n \in DOMAIN file :
    IF n = current THEN call'.op \notin Discards \cup {"qa", "wqa"} => KeepsUnsaved(n)
                   ELSE call'.op # "qa!" => KeepsUnsaved(n)

\* What is shown of every step.
Promises(M) ==
  /\ FilesInv(M)'
  /\ Garbled \notin M => AllSaved' /\ KeepsOthers

LEMMA StillThere ==
  ASSUME NEW M, NEW n \in DOMAIN file, n \in DOMAIN file', ~quit',
         Typed(file', disk', M), DiskOk(file', disk'), Kept(file[n], file'[n])
  PROVE  KeepsUnsaved(n)
  <1>1. CASE Applied(file'[n]) = Applied(file[n])
    BY <1>1 DEF KeepsUnsaved
  <1>2. CASE file'[n].fp # Closed /\ file'[n].base = Intended(file[n])
    <2>1. file'[n].fp \in DOMAIN disk' /\ disk'[file'[n].fp] = file'[n].base
      BY <1>2 DEF Typed, DiskOk
    <2> QED
      BY <1>2, <2>1 DEF KeepsUnsaved
  <1> QED
    BY <1>1, <1>2 DEF Kept

LEMMA OnDiskThen ==
  ASSUME NEW M, Garbled \notin M, NEW s, Good(s, M), NEW n \in DOMAIN file, n \in DOMAIN s.file,
         Kept(file[n], s.file[n]), ~NeedSave(s.file[n]), disk' = s.disk
  PROVE  KeepsUnsaved(n)
  <1> SUFFICES ASSUME NeedSave(file[n])
               PROVE  \E name \in DOMAIN disk' : disk'[name] = Intended(file[n])
    BY DEF KeepsUnsaved
  <1>1. s.file[n].fp # Closed /\ s.file[n].base = Intended(file[n])
    BY DEF Kept, NeedSave
  <1>2. s.file[n].fp \in DOMAIN s.disk /\ s.disk[s.file[n].fp] = s.file[n].base
    BY <1>1 DEF Good, Typed, DiskOk
  <1> QED
    BY <1>1, <1>2

\* A step after which files are shown, and every file open before still is.
LEMMA StepGood ==
  ASSUME NEW M, FilesInv(M), RowInv', quit' = FALSE, args' = args, current' # None,
         DOMAIN file' = InRing(ring'), DOMAIN file \subseteq DOMAIN file',
         Typed(file', disk', M), size' \in Nat, Garbled \in M \/ DiskOk(file', disk'),
         call'.op = "wa" /\ Garbled \notin M => \A n \in DOMAIN file' : Done(file'[n]),
         \A n \in DOMAIN file : n # current \/ call'.op \notin Discards => Kept(file[n], file'[n])
  PROVE  Promises(M)
  <1>1. FilesInv(M)'
    BY DEF FilesInv
  <1>2. Garbled \notin M => AllSaved'
    BY DEF AllSaved, Done
  <1>3. ASSUME Garbled \notin M, NEW n \in DOMAIN file, n # current \/ call'.op \notin Discards
        PROVE  KeepsUnsaved(n)
    <2>1. n \in DOMAIN file' /\ ~quit' /\ DiskOk(file', disk') /\ Kept(file[n], file'[n])
      BY <1>3
    <2> QED
      BY <2>1, StillThere
  <1>4. Garbled \notin M => KeepsOthers
    BY <1>3 DEF KeepsOthers
  <1> QED
    BY <1>1, <1>2, <1>4 DEF Promises

\* While files are shown, before a step.
Showing(M) == FilesInv(M) /\ MarksFor(M) /\ current # None /\ ~quit /\ RowInv'

LEMMA ShowingFacts ==
  ASSUME NEW M, Showing(M)
  PROVE  /\ FilesInv(M) /\ RowInv' /\ quit = FALSE
         /\ current \in DOMAIN file /\ Here = file[current]
         /\ FileTyped(Here, M) /\ DiskTyped(disk, M) /\ Typed(file, disk, M)
         /\ Good(Now, M)
         /\ Linked(ring) /\ Ring(ring) /\ ring.cur = current /\ DOMAIN file = InRing(ring)
  <1>1. /\ current \in DOMAIN file /\ DOMAIN file = InRing(ring)
        /\ Linked(ring) /\ Ring(ring) /\ ring.cur = current
    BY DEF Showing, FilesInv, RowInv, RingInv, Ring
  <1>2. Good(Now, M)
    BY DEF Showing, FilesInv, Good, Now
  <1> QED
    BY <1>1, <1>2 DEF Showing, FilesInv, Typed, Here

\* A command that stays with the file it acts on, whether it prints the screen or
\* not.
Stays(op, failed) == Show(op, failed) \/ (Finish(op, failed) /\ ring' = ring)

LEMMA StayGood ==
  ASSUME NEW M, Showing(M), NEW op, NEW failed, Stays(op, failed), DOMAIN file' = DOMAIN file,
         Typed(file', disk', M), size' \in Nat, Garbled \in M \/ DiskOk(file', disk'),
         op = "wa" /\ Garbled \notin M => \A n \in DOMAIN file' : Done(file'[n]),
         \A n \in DOMAIN file : n # current \/ op \notin Discards => Kept(file[n], file'[n])
  PROVE  Promises(M)
  <1>1. /\ ring' = ShowTabs(ring, current) \/ ring' = ring
        /\ call'.op = op /\ current' = current /\ quit' = quit /\ args' = args
    BY DEF Stays, Show, PrintScreen, Finish
  <1>2. InRing(ring') = InRing(ring)
    BY <1>1, ShowingFacts, ShowTabsKeepsRing
  <1>3. current' # None /\ quit' = FALSE /\ DOMAIN file' = InRing(ring') /\ FilesInv(M) /\ RowInv'
    BY <1>1, <1>2, ShowingFacts DEF Showing
  <1> QED
    BY <1>1, <1>3, StepGood

LEMMA ChangeGood ==
  ASSUME NEW M, Showing(M), NEW op \in {"edit", "undo", "redo"}, NEW f,
         FileTyped(f, M), SameFile(Here, f), Change(op, f)
  PROVE  Promises(M)
  <1>1. current \in DOMAIN file /\ Typed(file, disk, M) /\ Here = file[current]
    BY ShowingFacts
  <1>2. file' = Put(file, current, f) /\ size' = FileSize(f) /\ disk' = disk /\ Show(op, FALSE)
    BY DEF Change
  <1>3. f.fp # Closed => f.fp \in DOMAIN disk
    BY <1>1 DEF SameFile, Typed
  <1>4. Typed(file', disk', M)
    BY <1>1, <1>2, <1>3, PutTyped DEF Typed
  <1>5. Garbled \in M \/ DiskOk(file', disk')
    BY <1>1, <1>2, <1>3, SameFits, PutOk DEF Showing, FilesInv, Typed
  <1>6. size' \in Nat
    BY <1>2, AppliedTyped
  <1>7. DOMAIN file' = DOMAIN file /\ \A n \in DOMAIN file : n # current => file'[n] = file[n]
    BY <1>1, <1>2 DEF Put
  <1>8. \A n \in DOMAIN file : n # current \/ op \notin Discards => Kept(file[n], file'[n])
    BY <1>7 DEF Kept, Discards
  <1> QED
    BY <1>2, <1>4, <1>5, <1>6, <1>7, <1>8, StayGood DEF Stays

LEMMA EditGood ==
  ASSUME NEW M, Showing(M), Edit \/ Undo \/ Redo
  PROVE  Promises(M)
  <1>1. FileTyped(Here, M) /\ EditId \subseteq M
    BY ShowingFacts DEF Showing, MarksFor
  <1>2. CASE Edit
    <2>1. PICK e \in EditId : Change("edit", Edited(Here, e))
      BY <1>2 DEF Edit
    <2>2. FileTyped(Edited(Here, e), M) /\ SameFile(Here, Edited(Here, e))
      BY <1>1, EditsTyped
    <2> QED
      BY <2>1, <2>2, ChangeGood
  <1>3. CASE Undo \/ Redo
    <2>1. /\ FileTyped(Undone(Here), M) /\ SameFile(Here, Undone(Here))
          /\ FileTyped(Redone(Here), M) /\ SameFile(Here, Redone(Here))
      BY <1>1, EditsTyped
    <2> QED
      BY <1>3, <2>1, ChangeGood DEF Undo, Redo
  <1> QED
    BY <1>2, <1>3

LEMMA EnterGood ==
  ASSUME NEW M, Showing(M), NEW op \in {"e", "e name"}, NEW f, NEW dk,
         FileTyped(f, M), DiskTyped(dk, M), f.fp # Closed => f.fp \in DOMAIN dk,
         DOMAIN disk \subseteq DOMAIN dk,
         Garbled \in M \/ \A n \in Node \ DOMAIN file : Fits(file, disk, n, f, dk),
         Enter(op, f, dk)
  PROVE  Promises(M)
  <1>1. PICK n \in Node \ InRing(ring) :
          /\ ring' = ShowTabs(AddNode(ring, n), n) /\ file' = Put(file, n, f)
          /\ current' = n /\ size' = FileSize(f) /\ disk' = dk
          /\ call' = [op |-> op, failed |-> FALSE]
    BY DEF Enter
  <1>2. quit' = quit /\ args' = args
    BY DEF Enter
  <1>3. /\ Typed(file, disk, M) /\ Linked(ring) /\ DOMAIN file = InRing(ring)
        /\ quit = FALSE /\ FilesInv(M) /\ RowInv'
    BY ShowingFacts
  <1>4. InRing(ring') = InRing(ring) \cup {n}
    <2>1. Ring(AddNode(ring, n)) /\ InRing(AddNode(ring, n)) = InRing(ring) \cup {n}
      BY <1>3, AddKeepsRing
    <2> QED
      BY <1>1, <2>1, ShowTabsKeepsRing
  <1>5. Typed(file', disk', M)
    BY <1>1, <1>3, PutTyped
  <1>6. Garbled \in M \/ DiskOk(file', disk')
    BY <1>1, <1>3, PutOk DEF FilesInv
  <1>7. size' \in Nat /\ current' # None
    BY <1>1, AppliedTyped, FileRingAssumption
  <1>8. /\ DOMAIN file' = DOMAIN file \cup {n}
        /\ \A m \in DOMAIN file : file'[m] = file[m]
    BY <1>1, <1>3 DEF Put
  <1>9. \A m \in DOMAIN file : Kept(file[m], file'[m])
    BY <1>8 DEF Kept
  <1>10. call'.op # "wa"
    BY <1>1
  <1> QED
    BY <1>2, <1>3, <1>4, <1>5, <1>6, <1>7, <1>8, <1>9, <1>10, StepGood

LEMMA OpenGood ==
  ASSUME NEW M, Showing(M), NewFile \/ \E name \in Name : OpenNamed(name)
  PROVE  Promises(M)
  <1>1. /\ Typed(file, disk, M) /\ DiskTyped(disk, M) /\ FileTyped(Blank, M)
    BY ShowingFacts, BlankTyped
  <1>2. CASE NewFile
    <2>1. Blank.fp = Closed /\ \A n : Fits(file, disk, n, Blank, disk)
      BY BlankFits
    <2> QED
      BY <1>1, <1>2, <2>1, EnterGood DEF NewFile
  <1>3. ASSUME NEW name \in Name, OpenNamed(name) PROVE Promises(M)
    <2> DEFINE f == InitFile(Blank, name, disk)
               dk == InitDisk(name, disk)
    <2>1. FileTyped(f, M) /\ (f.fp # Closed => f.fp \in DOMAIN dk)
      BY <1>1, InitFileTyped
    <2>2. DiskTyped(dk, M) /\ DOMAIN disk \subseteq DOMAIN dk
      BY <1>1, InitDiskIs
    <2>3. Garbled \in M \/ \A n : Fits(file, disk, n, f, dk)
      <3> SUFFICES ASSUME Garbled \notin M, NEW n PROVE Fits(file, disk, n, f, dk)
        OBVIOUS
      <3>1. Slips = {}
        BY DEF Showing, MarksFor, Careful
      <3>2. /\ \A m \in DOMAIN file : file[m].fname # name
            /\ name \in DOMAIN disk \ Unreadable
        BY <1>3, <3>1 DEF OpenNamed
      <3>3. InitOk(name, disk)
        BY <3>2 DEF InitOk, InitDisk
      <3> QED
        BY <1>1, <3>2, <3>3, InitFits
    <2>4. Enter("e name", f, dk)
      BY <1>3 DEF OpenNamed
    <2> HIDE DEF f, dk
    <2> QED
      BY <2>1, <2>2, <2>3, <2>4, EnterGood
  <1> QED
    BY <1>2, <1>3

LEMMA ReloadGood ==
  ASSUME NEW M, Showing(M), Reload
  PROVE  Promises(M)
  <1> DEFINE name == Here.fname
             f == InitFile(Terminated(Here), name, disk)
             dk == InitDisk(name, disk)
  <1>1. /\ Typed(file, disk, M) /\ DiskTyped(disk, M) /\ FileTyped(Here, M)
        /\ current \in DOMAIN file /\ Here = file[current]
    BY ShowingFacts
  <1>2. /\ file' = Put(file, current, f) /\ size' = FileSize(f) /\ disk' = dk /\ Show("e!", FALSE)
        /\ "reload" \in Slips \/ InitOk(name, disk)
    BY DEF Reload
  <1>3. FileTyped(Terminated(Here), M) /\ name \in Name \cup {NoName}
    BY <1>1, EditsTyped DEF FileTyped, FileRec
  <1>4. FileTyped(f, M) /\ (f.fp # Closed => f.fp \in DOMAIN dk)
    BY <1>1, <1>3, InitFileTyped
  <1>5. DiskTyped(dk, M) /\ DOMAIN disk \subseteq DOMAIN dk
    BY <1>1, InitDiskIs
  <1>6. Garbled \in M \/ Fits(file, disk, current, f, dk)
    <2> SUFFICES ASSUME Garbled \notin M PROVE Fits(file, disk, current, f, dk)
      OBVIOUS
    <2>1. InitOk(name, disk) /\ DiskOk(file, disk)
      BY <1>2 DEF Showing, MarksFor, Careful, FilesInv
    <2>2. name \in Name /\ (name \in ReadOnly => name \in DOMAIN disk)
      BY <1>5, <2>1 DEF InitOk, InitDisk, DiskTyped
    <2>3. Here.fp # Closed
      BY <1>1, <2>1, <2>2, OpenFileAssumption DEF DiskOk
    <2>4. \A m \in DOMAIN file \ {current} : file[m].fname # name
      BY <1>1, <2>1, <2>3 DEF DiskOk
    <2> HIDE DEF name
    <2>5. Fits(file, disk, current, InitFile(Terminated(Here), name, disk), InitDisk(name, disk))
      BY <1>1, <1>3, <2>1, <2>4, InitFits
    <2> QED
      BY <2>5
  <1> HIDE DEF name, f, dk
  <1>7. Typed(file', disk', M)
    BY <1>1, <1>2, <1>4, <1>5, PutTyped
  <1>8. Garbled \in M \/ DiskOk(file', disk')
    BY <1>1, <1>2, <1>4, <1>5, <1>6, PutOk DEF Showing, FilesInv
  <1>9. size' \in Nat
    BY <1>2, <1>4, AppliedTyped
  <1>10. DOMAIN file' = DOMAIN file /\ \A n \in DOMAIN file : n # current => file'[n] = file[n]
    BY <1>1, <1>2 DEF Put
  <1>11. \A n \in DOMAIN file : n # current \/ "e!" \notin Discards => Kept(file[n], file'[n])
    BY <1>10 DEF Kept, Discards
  <1> QED
    BY <1>2, <1>7, <1>8, <1>9, <1>10, <1>11, StayGood DEF Stays

\* s is made of the files by saving some of them.
Saves(s, M) ==
  /\ Good(s, M)
  /\ DOMAIN s.file = DOMAIN file
  /\ \A n \in DOMAIN file : Kept(file[n], s.file[n])

LEMMA NowSaves == ASSUME NEW M, Showing(M) PROVE Saves(Now, M) /\ Now.file = file
  BY ShowingFacts DEF Saves, Now, Kept

LEMMA ReplacesSaves ==
  ASSUME NEW M, Showing(M), NEW s, Replaces(Now, s, current, M)
  PROVE  Saves(s, M)
  <1>1. Now.file = file
    BY DEF Now
  <1>2. \A n \in DOMAIN file \ {current} : Kept(file[n], s.file[n])
    BY <1>1 DEF Replaces, Kept
  <1> QED
    BY <1>1, <1>2, ShowingFacts DEF Replaces, Saves

LEMMA SavedSaves ==
  ASSUME NEW M, Showing(M), NEW answer \in Answer, NeedCreate(Here) => MayCreate(answer)
  PROVE  Saves(Saved(answer), M)
  <1>1. /\ Good(Now, M) /\ current \in DOMAIN Now.file
        /\ Now.file[current] = Here /\ Now.disk = disk
    BY ShowingFacts DEF Now
  <1>2. Answers(Now, current, answer, M)
    BY <1>1 DEF Answers, MayCreate, Answer, Showing, MarksFor, Careful
  <1> QED
    BY <1>1, <1>2, ActionSaveGood, ReplacesSaves DEF Saved

LEMMA SavedAsSaves ==
  ASSUME NEW M, Showing(M), NEW name \in Name, MaySaveAs(name)
  PROVE  Saves(ActionSaveAs(name), M)
  <1>1. Good(Now, M) /\ current \in DOMAIN file
    BY ShowingFacts
  <1>2. name # Cancel
    BY SessionAssumption
  <1>3. NamesAs(name, M)
    BY <1>2 DEF NamesAs, MaySaveAs, MayCreate, Showing, MarksFor, Careful
  <1> QED
    BY <1>1, <1>3, ActionSaveAsGood, ReplacesSaves

LEMMA StoreGood ==
  ASSUME NEW M, Showing(M), NEW s, Saves(s, M), Store(s), NEW op, NEW failed, Stays(op, failed),
         op = "wa" /\ Garbled \notin M => \A n \in DOMAIN file : Done(s.file[n])
  PROVE  Promises(M)
  <1>1. file' = s.file /\ disk' = s.disk /\ size' = s.size
    BY DEF Store
  <1>2. /\ Typed(file', disk', M) /\ size' \in Nat /\ DOMAIN file' = DOMAIN file
        /\ Garbled \in M \/ DiskOk(file', disk')
        /\ \A n \in DOMAIN file : Kept(file[n], file'[n])
    BY <1>1 DEF Saves, Good
  <1>3. op = "wa" /\ Garbled \notin M => \A n \in DOMAIN file' : Done(file'[n])
    BY <1>1, <1>2
  <1> QED
    BY <1>2, <1>3, StayGood

\* The file that goes is not among the others any more, and if none is left it
\* was the only one.
LEMMA LeftBehind ==
  ASSUME RowInv, current # None
  PROVE  LET r == RemoveNode(ring, current)
         IN  /\ Ring(r) /\ InRing(r) = InRing(ring) \ {current}
             /\ IF InRing(r) = {} THEN r.cur = None ELSE r.cur \in InRing(r)
  <1> DEFINE r == RemoveNode(ring, current)
  <1>1. current \in InRing(ring) /\ Linked(ring)
    BY DEF RowInv, RingInv, Ring
  <1>2. Ring(r)
    BY <1>1, RemoveKeepsRing
  <1>3. InRing(r) = InRing(ring) \ {current}
    <2>1. CASE ring.next[current] = current
      <3>1. PICK row : Cycle(ring, row)
        BY DEF RowInv, Row
      <3>2. PICK p \in 1 .. Len(row) : row[p] = current
        BY <1>1, <3>1, RowFacts
      <3> DEFINE q == IF p = Len(row) THEN 1 ELSE p + 1
      <3>3. Len(row) \in Nat /\ q \in 1 .. Len(row)
        BY <3>1, RowFacts
      <3>4. row[q] = row[p]
        BY <2>1, <3>1, <3>2 DEF Cycle
      <3>5. q = p
        <4> HIDE DEF q
        <4> QED
          BY <3>1, <3>3, <3>4 DEF Cycle
      <3>6. Len(row) = 1 /\ p = 1
        BY <3>3, <3>5
      <3>7. InRing(ring) = {current}
        <4>1. \A n \in InRing(ring) : n = current
          <5>1. \A i \in 1 .. Len(row) : i = p
            BY <3>6
          <5> QED
            BY <3>1, <3>2, <5>1, RowFacts
        <4> QED
          BY <1>1, <4>1
      <3>8. InRing(r) = {}
        BY <2>1 DEF RemoveNode, EmptyRing, InRing
      <3> QED
        BY <3>7, <3>8
    <2>2. CASE ring.next[current] # current
      BY <2>2 DEF RemoveNode, InRing
    <2> QED
      BY <2>1, <2>2
  <1> HIDE DEF r
  <1>4. IF InRing(r) = {} THEN r.cur = None ELSE r.cur \in InRing(r)
    BY <1>2, AnchorInRing DEF Ring
  <1> QED
    BY <1>2, <1>3, <1>4 DEF r

LEMMA LeaveGood ==
  ASSUME NEW M, Showing(M), NEW s, Saves(s, M), NEW op \in {"q", "q!", "wq", "wq name"},
         op # "q!" => ~NeedSave(s.file[current]), Leave(op, s)
  PROVE  Promises(M)
  <1> DEFINE r == RemoveNode(ring, current)
  <1>1. /\ ring' = ShowTabs(r, r.cur) /\ file' = [n \in InRing(r) |-> s.file[n]]
        /\ current' = r.cur /\ size' = IF r.cur = None THEN s.size ELSE FileSize(s.file[r.cur])
        /\ disk' = s.disk /\ quit' = (r.cur = None) /\ call'.op = op /\ args' = args
    BY DEF Leave
  <1>2. /\ Ring(r) /\ InRing(r) = InRing(ring) \ {current}
        /\ IF InRing(r) = {} THEN r.cur = None ELSE r.cur \in InRing(r)
    BY LeftBehind DEF Showing, FilesInv
  <1> HIDE DEF r
  <1>3. /\ FilesInv(M) /\ RowInv' /\ current \in DOMAIN file /\ DOMAIN file = InRing(ring)
        /\ Good(s, M) /\ DOMAIN s.file = DOMAIN file
        /\ \A n \in DOMAIN file : Kept(file[n], s.file[n])
    BY ShowingFacts DEF Saves
  <1>4. ring' = r
    BY <1>1, <1>2, ShowTabsIs
  <1>5. /\ DOMAIN file' = InRing(ring') /\ DOMAIN file' \subseteq DOMAIN s.file
        /\ \A n \in DOMAIN file' : file'[n] = s.file[n]
    BY <1>1, <1>2, <1>3, <1>4
  <1>6. Typed(file', disk', M) /\ (Garbled \in M \/ DiskOk(file', disk'))
    <2>1. Typed(s.file, s.disk, M) /\ (Garbled \in M \/ DiskOk(s.file, s.disk)) /\ disk' = s.disk
      BY <1>1, <1>3 DEF Good
    <2>2. Typed(file', disk', M)
      BY <1>5, <2>1 DEF Typed
    <2>3. Garbled \notin M => DiskOk(file', disk')
      <3> DEFINE fs == s.file
                 gs == file'
      <3>1. DOMAIN gs \subseteq DOMAIN fs /\ \A n \in DOMAIN gs : gs[n] = fs[n]
        BY <1>5
      <3> HIDE DEF fs, gs
      <3> DEFINE dk == s.disk
      <3> HIDE DEF dk
      <3>2. ASSUME DiskOk(fs, dk) PROVE DiskOk(gs, dk)
        <4>1. ASSUME NEW n \in DOMAIN gs
              PROVE  IF gs[n].fp = Closed
                     THEN gs[n].base = <<>> /\ gs[n].fname \in {NoName} \cup (ReadOnly \ DOMAIN dk)
                     ELSE dk[gs[n].fp] = gs[n].base
          BY <3>1, <3>2 DEF DiskOk
        <4>2. ASSUME NEW n \in DOMAIN gs, NEW m \in DOMAIN gs, n # m, gs[n].fp # Closed
              PROVE  gs[n].fname # gs[m].fname
          BY <3>1, <3>2, <4>2 DEF DiskOk
        <4> QED
          BY <4>1, <4>2 DEF DiskOk
      <3> QED
        BY <2>1, <3>2 DEF fs, gs, dk
    <2> QED
      BY <2>2, <2>3
  <1>7. size' \in Nat
    <2>1. CASE r.cur = None
      BY <1>1, <1>3, <2>1 DEF Good
    <2>2. CASE r.cur # None
      <3>1. r.cur \in DOMAIN s.file
        BY <1>2, <1>3, <2>2
      <3>2. FileTyped(s.file[r.cur], M)
        BY <1>3, <3>1 DEF Good, Typed
      <3> QED
        BY <1>1, <2>2, <3>2, AppliedTyped
    <2> QED
      BY <2>1, <2>2
  <1>8. current' = None => quit'
    BY <1>1
  <1>9. FilesInv(M)'
    <2>1. quit' \in BOOLEAN
      BY <1>1
    <2>2. args' \in Seq(Name)
      BY <1>1, <1>3 DEF FilesInv
    <2> QED
      BY <1>3, <1>5, <1>6, <1>7, <1>8, <2>1, <2>2 DEF FilesInv
  <1>10. AllSaved'
    BY <1>1 DEF AllSaved
  <1>11. ASSUME Garbled \notin M, op # "q!" PROVE KeepsUnsaved(current)
    BY <1>1, <1>3, <1>11, OnDiskThen
  <1>12. ASSUME Garbled \notin M, NEW n \in DOMAIN file \ {current} PROVE KeepsUnsaved(n)
    <2>1. n \in InRing(r) /\ n \in DOMAIN file'
      BY <1>1, <1>2, <1>3
    <2>2. ~quit'
      BY <1>1, <1>2, <2>1, FileRingAssumption, AnchorInRing DEF Ring
    <2>3. Kept(file[n], file'[n])
      BY <1>3, <1>5, <2>1
    <2> QED
      BY <1>6, <1>12, <2>1, <2>2, <2>3, StillThere
  <1>13. Garbled \notin M => KeepsOthers
    BY <1>1, <1>11, <1>12 DEF KeepsOthers, Discards
  <1> QED
    BY <1>9, <1>10, <1>13 DEF Promises

LEMMA QuitGood ==
  ASSUME NEW M, Showing(M), NEW s, Saves(s, M), NEW op \in {"q", "q!", "wq", "wq name"},
         NEW force, op # "q!" => ~force, ActionQuit(op, s, force)
  PROVE  Promises(M)
  <1>1. CASE NeedSave(s.file[current]) /\ ~force
    BY <1>1, StoreGood DEF ActionQuit, Stays
  <1>2. CASE ~(NeedSave(s.file[current]) /\ ~force)
    BY <1>2, LeaveGood DEF ActionQuit
  <1> QED
    BY <1>1, <1>2

LEMMA QuitAllGood ==
  ASSUME NEW M, Showing(M), NEW t, Saves(t.saved, M), t.ring = ring, NEW op \in {"qa", "qa!", "wqa"},
         NEW force, op # "qa!" => ~force, ActionQuitAll(op, t, force)
  PROVE  Promises(M)
  <1> DEFINE s == t.saved
  <1>1. Store(s)
    BY DEF ActionQuitAll
  <1>2. FilesInv(M) /\ RowInv /\ current # None /\ DOMAIN file = InRing(ring)
    BY ShowingFacts DEF Showing, FilesInv
  <1>3. /\ ring' = ring /\ current' = current /\ args' = args
        /\ \/ /\ quit' = TRUE /\ call' = [op |-> op, failed |-> FALSE]
              /\ force \/ \A n \in InRing(ring) \ {current} : ~NeedSave(s.file[n])
           \/ Finish(op, TRUE)
    <2>1. Asked(op, t, force)
      BY <1>2, QuitAllStays
    <2> QED
      BY <2>1, Zenon DEF Asked
  <1> HIDE DEF s
  <1>4. Saves(s, M)
    BY DEF s
  <1>5. CASE /\ quit' = TRUE /\ call' = [op |-> op, failed |-> FALSE]
             /\ force \/ \A n \in InRing(ring) \ {current} : ~NeedSave(s.file[n])
    <2>1. call'.op = op
      BY <1>5
    <2>2. /\ RowInv' /\ current \in DOMAIN file
          /\ Good(s, M) /\ DOMAIN s.file = DOMAIN file
          /\ \A n \in DOMAIN file : Kept(file[n], s.file[n])
      BY <1>4, ShowingFacts DEF Saves
    <2>3. file' = s.file /\ disk' = s.disk /\ size' = s.size
      BY <1>1 DEF Store
    <2>4. FilesInv(M)'
      BY <1>2, <1>3, <1>5, <2>2, <2>3 DEF FilesInv, Good
    <2>5. AllSaved'
      BY <2>1 DEF AllSaved
    <2>6. ASSUME Garbled \notin M, op # "qa!", NEW n \in DOMAIN file \ {current}
          PROVE  KeepsUnsaved(n)
      <3>1. ~NeedSave(s.file[n])
        BY <1>2, <1>5, <2>6
      <3> QED
        BY <2>2, <2>3, <2>6, <3>1, OnDiskThen
    <2>7. Garbled \notin M => KeepsOthers
      BY <2>1, <2>6 DEF KeepsOthers, Discards
    <2> QED
      BY <2>4, <2>5, <2>7 DEF Promises
  <1>6. CASE Finish(op, TRUE)
    BY <1>1, <1>3, <1>4, <1>6, StoreGood DEF Stays
  <1> QED
    BY <1>3, <1>5, <1>6

\* What only prints, and what looks up the size of the file again.
LEMMA LookGood ==
  ASSUME NEW M, Showing(M), Reprint \/ Resize
  PROVE  Promises(M)
  <1>1. /\ Typed(file, disk, M) /\ FileTyped(Here, M)
        /\ size \in Nat /\ (Garbled \in M \/ DiskOk(file, disk))
    BY ShowingFacts DEF Showing, FilesInv
  <1>2. file' = file /\ disk' = disk /\ size' \in {size, FileSize(Here)}
    BY DEF Reprint, Resize
  <1>3. size' \in Nat
    BY <1>1, <1>2, AppliedTyped
  <1>4. \A n \in DOMAIN file : Kept(file[n], file'[n])
    BY <1>2 DEF Kept
  <1>5. PICK op \in {"look", "resize"} : Show(op, FALSE)
    BY DEF Reprint, Resize
  <1> QED
    BY <1>1, <1>2, <1>3, <1>4, <1>5, StayGood DEF Stays

LEMMA GoToGood ==
  ASSUME NEW M, Showing(M), NEW op \in {"next", "prev", "tab"}, NEW n \in InRing(ring),
         GoTo(op, [ring EXCEPT !.cur = n])
  PROVE  Promises(M)
  <1> DEFINE r == [ring EXCEPT !.cur = n]
             g == [Here EXCEPT !.private = size]
  <1>1. /\ Typed(file, disk, M) /\ FileTyped(Here, M) /\ Here = file[current]
        /\ current \in DOMAIN file /\ DOMAIN file = InRing(ring) /\ quit = FALSE
        /\ FilesInv(M) /\ RowInv' /\ Ring(ring)
    BY ShowingFacts
  <1>2. Ring(r) /\ InRing(r) = InRing(ring) /\ r.cur = n
    BY <1>1, MoveKeepsRing
  <1>3. /\ ring' = ShowTabs(r, r.cur) /\ file' = Put(file, current, g) /\ current' = r.cur
        /\ size' = IF file'[r.cur].private = NoInfo THEN FileSize(file'[r.cur]) ELSE file'[r.cur].private
        /\ call'.op = op /\ disk' = disk /\ quit' = quit /\ args' = args
    BY DEF GoTo
  <1>4. /\ FileTyped(g, M) /\ SameFile(Here, g) /\ Kept(Here, g)
    <2>1. FileTyped(g, M)
      BY <1>1, EditsTyped DEF FilesInv
    <2>2. /\ g.fname = Here.fname /\ g.fp = Here.fp /\ g.base = Here.base
          /\ g.log = Here.log /\ g.pos = Here.pos
      BY <1>1 DEF FileTyped, FileRec
    <2> HIDE DEF g
    <2> QED
      BY <2>1, <2>2 DEF SameFile, Kept, Applied
  <1> HIDE DEF r, g
  <1>5. InRing(ring') = InRing(ring) /\ current' # None
    <2>1. ring' = r
      BY <1>2, <1>3, ShowTabsIs
    <2> QED
      BY <1>1, <1>2, <1>3, <2>1, AnchorInRing DEF Ring
  <1>6. g.fp # Closed => g.fp \in DOMAIN disk
    BY <1>1, <1>4 DEF SameFile, Typed
  <1>7. Typed(file', disk', M)
    BY <1>1, <1>3, <1>4, <1>6, PutTyped DEF Typed
  <1>8. Garbled \in M \/ DiskOk(file', disk')
    BY <1>1, <1>3, <1>4, <1>6, SameFits, PutOk DEF FilesInv, Typed
  <1>9. /\ DOMAIN file' = DOMAIN file /\ file'[current] = g
        /\ \A m \in DOMAIN file : m # current => file'[m] = file[m]
    BY <1>1, <1>3 DEF Put
  <1>10. size' \in Nat
    <2>1. FileTyped(file'[n], M)
      BY <1>1, <1>7, <1>9 DEF Typed
    <2>2. file'[n].private \in Nat \cup {NoInfo}
      BY <2>1 DEF FileTyped, FileRec
    <2> QED
      BY <1>2, <1>3, <2>1, <2>2, AppliedTyped
  <1>11. \A m \in DOMAIN file : Kept(file[m], file'[m])
    BY <1>1, <1>4, <1>9 DEF Kept
  <1>12. call'.op # "wa"
    BY <1>3
  <1> QED
    BY <1>1, <1>3, <1>5, <1>7, <1>8, <1>9, <1>10, <1>11, <1>12, StepGood

LEMMA AnswersGive ==
  ASSUME NEW M, MarksFor(M),
         NEW ask \in [{n \in DOMAIN file : NeedCreate(file[n])} -> Answer], MayAnswer(ask)
  PROVE  GivesNames(ask, M)
  <1> SUFFICES ASSUME Garbled \notin M
               PROVE  /\ \A n \in DOMAIN ask : ask[n] = Cancel \/ ask[n] \notin DOMAIN disk
                      /\ \A n, m \in DOMAIN ask : n # m => ask[m] = Cancel \/ ask[m] # ask[n]
    BY DEF GivesNames
  <1>1. Slips = {}
    BY DEF MarksFor, Careful
  <1> QED
    BY <1>1 DEF MayAnswer, MayCreate

LEMMA CommandGood ==
  ASSUME NEW M, Showing(M), Command
  PROVE  Promises(M)
  <1>0. /\ FilesInv(M) /\ MarksFor(M) /\ current # None
        /\ current \in InRing(ring) /\ ring.cur = current /\ Linked(ring)
    BY ShowingFacts DEF Showing
  <1>1. CASE Edit \/ Undo \/ Redo \/ Reprint \/ Resize
    BY <1>1, EditGood, LookGood
  <1>2. CASE NewFile \/ \E name \in Name : OpenNamed(name)
    BY <1>2, OpenGood
  <1>3. CASE Reload
    BY <1>3, ReloadGood
  <1>4. CASE NextFile \/ PrevFile
    <2>1. /\ GoNext(ring) = [ring EXCEPT !.cur = ring.next[current]]
          /\ GoLast(ring) = [ring EXCEPT !.cur = ring.last[current]]
      BY <1>0 DEF GoNext, GoLast
    <2>2. ring.next[current] \in InRing(ring) /\ ring.last[current] \in InRing(ring)
      BY <1>0 DEF Linked
    <2> QED
      BY <1>4, <2>1, <2>2, GoToGood DEF NextFile, PrevFile
  <1>5. CASE \E digit \in 0 .. 9 : TabFile(digit)
    <2>1. PICK n \in InRing(ring) : GoTo("tab", [ring EXCEPT !.cur = n])
      BY <1>5 DEF TabFile
    <2> QED
      BY <2>1, GoToGood
  <1>6. ASSUME NEW name \in Name, WriteAs(name) \/ WriteAsQuit(name) PROVE Promises(M)
    <2>1. MaySaveAs(name)
      BY <1>6 DEF WriteAs, WriteAsQuit
    <2>2. Saves(ActionSaveAs(name), M)
      BY <2>1, SavedAsSaves
    <2>3. CASE WriteAs(name)
      <3> DEFINE s == ActionSaveAs(name)
      <3>1. Store(s) /\ \E failed \in BOOLEAN : Stays("w name", failed)
        BY <2>3 DEF WriteAs, Stays, Silent
      <3> HIDE DEF s
      <3>2. Saves(s, M)
        BY <2>2 DEF s
      <3> DEFINE op == "w name"
      <3>3. op # "wa" /\ \E failed \in BOOLEAN : Stays(op, failed)
        BY <3>1
      <3> HIDE DEF op
      <3> QED
        BY <3>1, <3>2, <3>3, StoreGood
    <2>4. CASE WriteAsQuit(name)
      BY <2>2, <2>4, QuitGood DEF WriteAsQuit
    <2> QED
      BY <1>6, <2>3, <2>4
  <1>7. ASSUME NEW answer \in Answer, Write(answer) \/ WriteQuit(answer) PROVE Promises(M)
    <2>1. NeedCreate(Here) => MayCreate(answer)
      BY <1>7 DEF Write, WriteQuit
    <2>2. Saves(Saved(answer), M)
      BY <2>1, SavedSaves
    <2>3. CASE Write(answer)
      <3>1. /\ Store(Saved(answer))
            /\ \E failed \in BOOLEAN \cup {Saved(answer).failed} : Stays("w", failed)
        BY <2>3 DEF Write, Stays, Silent
      <3> DEFINE s == Saved(answer)
                 op == "w"
      <3>2. Saves(s, M) /\ Store(s) /\ op # "wa" /\ \E failed : Stays(op, failed)
        BY <2>2, <3>1
      <3> HIDE DEF s, op
      <3> QED
        BY <3>2, StoreGood
    <2>4. CASE WriteQuit(answer)
      BY <2>2, <2>4, QuitGood DEF WriteQuit
    <2> QED
      BY <1>7, <2>3, <2>4
  <1>8. ASSUME NEW ask \in [{n \in DOMAIN file : NeedCreate(file[n])} -> Answer],
               WriteAll(ask) \/ WriteAllQuit(ask)
        PROVE  Promises(M)
    <2>1. GivesNames(ask, M)
      BY <1>0, <1>8, AnswersGive DEF WriteAll, WriteAllQuit
    <2> DEFINE t == SaveAll(ask)
    <2>2. /\ Saves(t.saved, M)
          /\ Garbled \notin M => \A n \in DOMAIN file : Done(t.saved.file[n])
      BY <1>0, <2>1, SaveAllGood DEF Saves
    <2>r. t.ring = ring
      BY <1>0, SaveAllReturns DEF FilesInv
    <2>3. CASE WriteAll(ask)
      <3>1. Store(t.saved) /\ ring' = t.ring /\ Finish("wa", FALSE)
        BY <2>3 DEF WriteAll
      <3> HIDE DEF t
      <3>2. Stays("wa", FALSE)
        BY <2>r, <3>1 DEF Stays
      <3> QED
        BY <2>2, <3>1, <3>2, StoreGood
    <2>4. CASE WriteAllQuit(ask)
      <3>1. ActionQuitAll("wqa", t, FALSE)
        BY <2>4 DEF WriteAllQuit
      <3> HIDE DEF t
      <3> QED
        BY <2>2, <2>r, <3>1, QuitAllGood
    <2> QED
      BY <1>8, <2>3, <2>4
  <1>9. ASSUME NEW force \in BOOLEAN, Quit(force) \/ QuitAll(force) PROVE Promises(M)
    <2>1. Saves(Now, M) /\ SetOut.ring = ring /\ SetOut.saved = Now
      BY NowSaves DEF SetOut
    <2>2. CASE force
      BY <1>9, <2>1, <2>2, QuitGood, QuitAllGood DEF Quit, QuitAll
    <2>3. CASE ~force
      BY <1>9, <2>1, <2>3, QuitGood, QuitAllGood DEF Quit, QuitAll
    <2> QED
      BY <2>2, <2>3
  <1> QED
    BY <1>1, <1>2, <1>3, <1>4, <1>5, <1>6, <1>7, <1>8, <1>9 DEF Command

LEMMA StartGood ==
  ASSUME NEW M, FilesInv(M), current = None, ~quit, RowInv', Start
  PROVE  Promises(M)
  <1>1. /\ Typed(file, disk, M) /\ DOMAIN file = InRing(ring) /\ Ring(ring) /\ Linked(ring)
        /\ quit = FALSE /\ call.op # "wa"
    BY DEF FilesInv, RowInv, RingInv, Ring
  <1>2. CASE ring.cur # None
    <2>1. /\ ring' = ring /\ file' = file /\ current' = ring.cur /\ disk' = disk
          /\ size' = FileSize(file[ring.cur]) /\ quit' = quit /\ call' = call /\ args' = args
      BY <1>1, <1>2, ShowTabsIs DEF Start, Begin
    <2>2. ring.cur \in DOMAIN file
      BY <1>1, <1>2, AnchorInRing
    <2>3. size' \in Nat
      <3>1. FileTyped(file[ring.cur], M)
        BY <1>1, <2>2 DEF Typed
      <3> QED
        BY <2>1, <3>1, AppliedTyped
    <2>4. \A n \in DOMAIN file : Kept(file[n], file'[n])
      BY <2>1 DEF Kept
    <2>5. Garbled \in M \/ DiskOk(file', disk')
      BY <2>1 DEF FilesInv
    <2> QED
      BY <1>1, <1>2, <2>1, <2>3, <2>4, <2>5, StepGood
  <1>3. CASE ring.cur = None
    <2>1. PICK n \in Node : Begin(AddNode(ring, n), Put(file, n, Blank))
      BY <1>3 DEF Start
    <2> DEFINE r == AddNode(ring, n)
               fs == Put(file, n, Blank)
    <2>2. InRing(ring) = {}
      BY <1>1, <1>3, AnchorInRing
    <2>3. Ring(r) /\ InRing(r) = {n} /\ r.cur = n
      <3>1. Ring(r) /\ InRing(r) = {n} /\ r.cur # None
        BY <1>1, <2>2, AddKeepsRing
      <3> HIDE DEF r
      <3> QED
        BY <3>1, AnchorInRing DEF Ring
    <2> HIDE DEF r
    <2>4. /\ ring' = r /\ file' = fs /\ current' = n /\ disk' = disk
          /\ size' = FileSize(fs[n]) /\ quit' = quit /\ call' = call /\ args' = args
      BY <2>1, <2>3, ShowTabsIs DEF Begin, r
    <2>5. DOMAIN file' = {n} /\ file'[n] = Blank /\ DOMAIN file = {}
      BY <1>1, <2>2, <2>4 DEF Put
    <2>6. FileTyped(Blank, M) /\ DiskTyped(disk, M)
      BY <1>1, BlankTyped DEF Typed
    <2>7. Typed(file', disk', M)
      BY <2>4, <2>5, <2>6 DEF Typed, Blank
    <2>8. DiskOk(file', disk')
      BY <2>5 DEF DiskOk, Blank
    <2>9. size' \in Nat
      BY <2>4, <2>5, <2>6, AppliedTyped
    <2> QED
      BY <1>1, <2>3, <2>4, <2>5, <2>7, <2>8, <2>9, FileRingAssumption, StepGood
  <1> QED
    BY <1>2, <1>3

LEMMA OpenArgumentGood ==
  ASSUME NEW M, FilesInv(M), current = None, ~quit, RowInv', OpenArgument
  PROVE  Promises(M)
  <1> DEFINE name == Head(args)
             f == InitFile(Blank, name, disk)
             dk == InitDisk(name, disk)
  <1> DEFINE Fresh == \A i \in 1 .. Len(args'), m \in DOMAIN file' : args'[i] # file'[m].fname
             Lands == /\ DOMAIN file' = InRing(ring') /\ DOMAIN file \subseteq DOMAIN file'
                      /\ \A m \in DOMAIN file : file'[m] = file[m]
                      /\ Typed(file', disk', M) /\ (Garbled \in M \/ DiskOk(file', disk'))
                      /\ Garbled \notin M => Fresh
  <1>1. /\ Typed(file, disk, M) /\ DiskTyped(disk, M) /\ DOMAIN file = InRing(ring)
        /\ Linked(ring) /\ quit = FALSE /\ call.op # "wa" /\ (Garbled \in M \/ DiskOk(file, disk))
        /\ Garbled \in M \/ ArgsFresh
        /\ args \in Seq(Name) /\ args # <<>>
    BY DEF FilesInv, RowInv, RingInv, Ring, Typed, OpenArgument
  <1>2. /\ name \in Name /\ name = args[1] /\ args' \in Seq(Name)
        /\ Len(args) \in Nat \ {0} /\ Len(args') = Len(args) - 1
        /\ \A i \in 1 .. Len(args) - 1 : args'[i] = args[i + 1]
    <2>1. args' = Tail(args)
      BY DEF OpenArgument
    <2>2. Len(args) \in Nat \ {0} /\ args[1] \in Name
      BY <1>1, EmptySeq, LenProperties
    <2> QED
      BY <1>1, <2>1, <2>2, HeadTailProperties
  <1>3. PICK n \in Node \ InRing(ring) :
          IF InitOk(name, disk)
          THEN ring' = AddNode(ring, n) /\ file' = Put(file, n, f)
          ELSE ring' = RemoveNode(AddNode(ring, n), n) /\ file' = file
    BY DEF OpenArgument
  <1>4. disk' = dk /\ current' = current /\ size' = size /\ quit' = quit /\ call' = call
    BY DEF OpenArgument
  <1>5. FileTyped(f, M) /\ f.fname = name /\ (f.fp # Closed => f.fp \in DOMAIN dk)
    <2>1. DiskTyped(disk, M) /\ name \in Name \cup {NoName} /\ FileTyped(Blank, M)
      BY <1>1, <1>2, BlankTyped
    <2> HIDE DEF name
    <2> QED
      BY <2>1, InitFileTyped
  <1>6. /\ DiskTyped(dk, M) /\ DOMAIN disk \subseteq DOMAIN dk
        /\ \A m \in DOMAIN disk : dk[m] = disk[m]
        /\ DOMAIN dk \ DOMAIN disk \subseteq Name \ ReadOnly
    <2>1. DiskTyped(disk, M)
      BY <1>1
    <2> HIDE DEF name
    <2>2. DiskTyped(dk, M)
      BY <2>1, InitDiskIs
    <2>3. \A m \in DOMAIN disk : m \in DOMAIN dk /\ dk[m] = disk[m]
      BY DEF InitDisk
    <2>4. DOMAIN dk \ DOMAIN disk \subseteq {name} \cap (Name \ ReadOnly)
      BY <2>1, InitDiskIs
    <2> HIDE DEF dk
    <2> QED
      BY <2>2, <2>3, <2>4
  <1>7. Garbled \in M \/ \A i \in 1 .. Len(args), m \in DOMAIN file : args[i] # file[m].fname
    BY <1>1 DEF ArgsFresh
  <1>8. Garbled \notin M /\ InitOk(name, disk) => Fits(file, disk, n, f, dk)
    <2> SUFFICES ASSUME Garbled \notin M, InitOk(name, disk) PROVE Fits(file, disk, n, f, dk)
      OBVIOUS
    <2>1. \A m \in DOMAIN file \ {n} : file[m].fname # name
      BY <1>2, <1>7
    <2>2. FileTyped(Blank, M) /\ name \in Name \cup {NoName}
      BY <1>2, BlankTyped
    <2> HIDE DEF name
    <2>3. Fits(file, disk, n, InitFile(Blank, name, disk), InitDisk(name, disk))
      BY <1>1, <2>1, <2>2, InitFits
    <2> QED
      BY <2>3
  <1> HIDE DEF name, f, dk
  <1>9. ASSUME InitOk(name, disk) PROVE Lands
    <2>1. /\ ring' = AddNode(ring, n) /\ file' = Put(file, n, f)
      BY <1>3, <1>9
    <2>2. /\ DOMAIN file' = DOMAIN file \cup {n} /\ DOMAIN file' = InRing(ring')
          /\ file'[n] = f /\ \A m \in DOMAIN file : file'[m] = file[m]
      BY <1>1, <2>1, AddKeepsRing DEF Put
    <2>3. Typed(file', disk', M)
      BY <1>1, <1>4, <1>5, <1>6, <2>1, PutTyped
    <2>4. Garbled \in M \/ DiskOk(file', disk')
      BY <1>1, <1>4, <1>5, <1>6, <1>8, <1>9, <2>1, PutOk
    <2>5. Garbled \notin M => Fresh
      <3> SUFFICES ASSUME Garbled \notin M, NEW i \in 1 .. Len(args'), NEW m \in DOMAIN file'
                   PROVE  args'[i] # file'[m].fname
        OBVIOUS
      <3>1. i + 1 \in 1 .. Len(args) /\ 1 \in 1 .. Len(args) /\ i + 1 # 1 /\ args'[i] = args[i + 1]
        BY <1>2
      <3>2. CASE m = n
        BY <1>1, <1>2, <1>5, <2>2, <3>1, <3>2 DEF ArgsFresh
      <3>3. CASE m # n
        BY <1>7, <2>2, <3>1, <3>3
      <3> QED
        BY <3>2, <3>3
    <2> QED
      BY <2>2, <2>3, <2>4, <2>5
  <1>10. ASSUME ~InitOk(name, disk) PROVE Lands
    <2> DEFINE r == AddNode(ring, n)
    <2>1. ring' = RemoveNode(r, n) /\ file' = file
      BY <1>3, <1>10
    <2>2. Linked(r) /\ InRing(r) = InRing(ring) \cup {n}
      BY <1>1, AddKeepsRing DEF Ring
    <2>3. r.next[n] = n => InRing(ring) = {}
      <3>1. CASE ring.cur = None
        BY <1>1, <3>1, AnchorInRing
      <3>2. CASE ring.cur # None
        <4>1. ring.cur \in InRing(ring) /\ ring.last[ring.cur] \in InRing(ring)
          BY <1>1, <3>2, AnchorInRing DEF Linked
        <4>2. r.next[n] = ring.cur
          BY <3>2, <4>1 DEF AddNode
        <4> QED
          BY <4>1, <4>2
      <3> QED
        BY <3>1, <3>2
    <2> HIDE DEF r
    <2>4. DOMAIN file' = InRing(ring')
      <3>1. CASE r.next[n] = n
        BY <1>1, <2>1, <2>3, <3>1 DEF RemoveNode, EmptyRing, InRing
      <3>2. CASE r.next[n] # n
        <4>1. InRing(ring') = InRing(r) \ {n}
          BY <2>1, <3>2 DEF RemoveNode, InRing
        <4> QED
          BY <1>1, <2>1, <2>2, <4>1
      <3> QED
        BY <3>1, <3>2
    <2>5. Typed(file', disk', M)
      BY <1>1, <1>4, <1>6, <2>1 DEF Typed
    <2>6. Garbled \in M \/ DiskOk(file', disk')
      BY <1>1, <1>4, <1>6, <2>1 DEF DiskOk, Typed
    <2>7. Garbled \notin M => Fresh
      <3> SUFFICES ASSUME Garbled \notin M, NEW i \in 1 .. Len(args'), NEW m \in DOMAIN file'
                   PROVE  args'[i] # file'[m].fname
        OBVIOUS
      <3>1. i + 1 \in 1 .. Len(args) /\ args'[i] = args[i + 1]
        BY <1>2
      <3> QED
        BY <1>7, <2>1, <3>1
    <2> QED
      BY <2>1, <2>4, <2>5, <2>6, <2>7
  <1>11. Lands
    BY <1>9, <1>10
  <1>12. Garbled \notin M => \A i, j \in 1 .. Len(args') : args'[i] = args'[j] => i = j
    <2> SUFFICES ASSUME Garbled \notin M, NEW i \in 1 .. Len(args'), NEW j \in 1 .. Len(args'),
                        args'[i] = args'[j]
                 PROVE  i = j
      OBVIOUS
    <2>1. /\ i + 1 \in 1 .. Len(args) /\ j + 1 \in 1 .. Len(args)
          /\ args[i + 1] = args[j + 1]
      BY <1>2
    <2>2. i + 1 = j + 1
      BY <1>1, <2>1 DEF ArgsFresh
    <2> QED
      BY <1>2, <2>2
  <1>13. Garbled \in M \/ ArgsFresh'
    BY <1>11, <1>12 DEF ArgsFresh
  <1>14. FilesInv(M)'
    BY <1>1, <1>2, <1>4, <1>11, <1>13 DEF FilesInv
  <1>15. AllSaved'
    BY <1>1, <1>4 DEF AllSaved
  <1>16. ASSUME NEW m \in DOMAIN file PROVE KeepsUnsaved(m)
    BY <1>1, <1>4, <1>11 DEF KeepsUnsaved
  <1> QED
    BY <1>14, <1>15, <1>16 DEF Promises, KeepsOthers

LEMMA FilesInit ==
  ASSUME NEW M, MarksFor(M), Init
  PROVE  FilesInv(M)
  <1>1. RowInv
    BY RowInit
  <1>2. DOMAIN file = {} /\ InRing(ring) = {}
    BY DEF Init, EmptyRing, InRing
  <1>3. Typed(file, disk, M)
    <2>1. DOMAIN disk \subseteq Name /\ \A name \in DOMAIN disk : disk[name] = <<name>> /\ name \in M
      BY SessionAssumption DEF Init, MarksFor
    <2>2. \A m \in M : <<m>> \in Seq(M)
      OBVIOUS
    <2>3. DiskTyped(disk, M)
      BY <2>1, <2>2 DEF DiskTyped
    <2> QED
      BY <1>2, <2>3 DEF Typed
  <1>4. DiskOk(file, disk)
    BY <1>2 DEF DiskOk
  <1>5. Garbled \in M \/ ArgsFresh
    BY <1>2 DEF Init, ArgsFresh, MarksFor, Careful
  <1>6. size \in Nat /\ quit \in BOOLEAN /\ args \in Seq(Name) /\ call.op # "wa"
    BY SessionAssumption DEF Init
  <1> QED
    BY <1>1, <1>2, <1>3, <1>4, <1>5, <1>6 DEF FilesInv

LEMMA FilesStep ==
  ASSUME NEW M, MarksFor(M), FilesInv(M), [Next]_vars
  PROVE  /\ FilesInv(M)'
         /\ Garbled \notin M => (AllSaved => AllSaved') /\ [KeepsOthers]_vars
  <1>1. CASE UNCHANGED vars
    BY <1>1 DEF vars, FilesInv, RowInv, RingInv, AllSaved, ArgsFresh
  <1>2. CASE Next
    <2>1. RowInv'
      BY RowStep DEF FilesInv
    <2>2. Promises(M)
      <3>1. CASE current = None
        BY <1>2, <2>1, <3>1, StartGood, OpenArgumentGood DEF Next
      <3>2. CASE current # None
        BY <1>2, <2>1, <3>2, CommandGood DEF Next, Showing
      <3> QED
        BY <3>1, <3>2
    <2> QED
      BY <2>2 DEF Promises
  <1> QED
    BY <1>1, <1>2

(***************************************************************************)
(* What is on the screen.                                                  *)
(***************************************************************************)

\* An open file is on the screen; if it is not the one commands act on, that one
\* has no unsaved changes.
ScreenInv ==
  /\ printed \in Node \cup {None}
  /\ current # None /\ ~quit =>
       printed \in InRing(ring) /\ (printed # current => ~NeedSave(Here))

\* The step ends with current_file printed.
LEMMA PrintedHere ==
  ASSUME RowInv', printed' = current'
  PROVE  ScreenInv'
  <1>1. Ring(ring') /\ (current' # None => current' \in InRing(ring'))
    BY DEF RowInv, RingInv
  <1>2. InRing(ring') \subseteq Node
    BY <1>1 DEF Ring, Linked
  <1> QED
    BY <1>1, <1>2 DEF ScreenInv

LEMMA ShowPrints ==
  ASSUME RowInv', NEW op, NEW failed, Show(op, failed)
  PROVE  ScreenInv'
  BY PrintedHere DEF Show, PrintScreen, Finish

\* :w prints nothing when there is nothing to save.
LEMMA WritePrints ==
  ASSUME RowInv', ScreenInv, current # None, ~quit, current \in DOMAIN file,
         NEW answer, Write(answer)
  PROVE  ScreenInv'
  <1>1. CASE NeedCreate(Here) \/ NeedSave(Here)
    BY <1>1, ShowPrints DEF Write
  <1>2. CASE ~(NeedCreate(Here) \/ NeedSave(Here))
    <2>1. Silent("w") /\ file' = Saved(answer).file
      BY <1>2 DEF Write, Store
    <2>2. Saved(answer).file = file
      BY <1>2 DEF Saved, ActionSave, SaveChecked, Now, Here
    <2> QED
      BY <1>2, <2>1, <2>2 DEF Silent, Finish, ScreenInv, Here
  <1> QED
    BY <1>1, <1>2

\* Nor does :w name when it succeeds: the file has no unsaved changes then.
LEMMA WriteAsPrints ==
  ASSUME RowInv', ScreenInv, current # None, ~quit, current \in DOMAIN file,
         NEW M, FileTyped(Here, M), NEW name \in Name, WriteAs(name)
  PROVE  ScreenInv'
  <1> DEFINE g == IF NeedCreate(Here) THEN CreatedFile(Here, name, disk) ELSE CopiedFile(Here, name)
             ok == IF NeedCreate(Here) THEN CreateOk(name, disk) ELSE CopyOk(name)
  <1>1. CASE ActionSaveAs(name).failed
    BY <1>1, ShowPrints DEF WriteAs
  <1>2. CASE ~ActionSaveAs(name).failed
    <2>1. ok
      BY <1>2 DEF ActionSaveAs
    <2>2. Silent("w name") /\ file' = Put(file, current, SavedFile(g))
      BY <1>2, <2>1 DEF WriteAs, Store, ActionSaveAs
    <2>3. "pos" \in DOMAIN g /\ g.fname = name /\ g.fp = name
      BY <2>1 DEF FileTyped, FileRec, CreatedFile, CopiedFile
    <2>4. SaveOk(g)
      BY <2>1, <2>3, OpenFileAssumption DEF SaveOk, CreateOk, CopyOk
    <2> HIDE DEF g
    <2>5. SavedFile(g).pos = 0
      BY <2>3, <2>4 DEF SavedFile
    <2>6. ~NeedSave(file'[current])
      <3>1. file'[current] = SavedFile(g)
        BY <2>2 DEF Put
      <3> QED
        BY <2>5, <3>1 DEF NeedSave
    <2> QED
      BY <2>2, <2>6 DEF Silent, Finish, ScreenInv, Here
  <1> QED
    BY <1>1, <1>2

LEMMA WriteAllPrints ==
  ASSUME RowInv, RowInv', ScreenInv, current # None, ~quit, NEW ask, WriteAll(ask)
  PROVE  ScreenInv'
  <1> DEFINE t == SaveAll(ask)
  <1>1. /\ ring' = ring /\ printed' = t.printed /\ file' = t.saved.file /\ current' = current
        /\ t.printed \in InRing(ring) \cup {printed}
        /\ t.printed = current \/ ~NeedSave(t.saved.file[current])
    BY SaveAllReturns DEF WriteAll, Store, Finish
  <1> HIDE DEF t
  <1>2. InRing(ring) \subseteq Node /\ printed \in InRing(ring)
    BY DEF RowInv, RingInv, Ring, Linked, ScreenInv
  <1> QED
    BY <1>1, <1>2 DEF ScreenInv, Here

LEMMA QuitAllPrints ==
  ASSUME RowInv, RowInv', ScreenInv, current # None,
         NEW op, NEW t, t.ring = ring, t.printed \in Node \cup {None}, NEW force,
         ActionQuitAll(op, t, force)
  PROVE  ScreenInv'
  <1>1. /\ current' = current
        /\ (quit' = TRUE /\ printed' = t.printed) \/ printed' = current
    BY QuitAllStays DEF Asked
  <1> QED
    BY <1>1, PrintedHere DEF ScreenInv

LEMMA QuitPrints ==
  ASSUME RowInv', ScreenInv, NEW op, NEW s, NEW force, ActionQuit(op, s, force)
  PROVE  ScreenInv'
  <1>1. CASE Show(op, TRUE)
    BY <1>1, ShowPrints
  <1>2. CASE Leave(op, s)
    <2> DEFINE r == RemoveNode(ring, current)
    <2>1. /\ printed' = IF r.cur = None THEN printed ELSE r.cur
          /\ current' = r.cur /\ quit' = (r.cur = None)
      BY <1>2 DEF Leave
    <2> HIDE DEF r
    <2> QED
      BY <2>1, PrintedHere DEF ScreenInv
  <1> QED
    BY <1>1, <1>2 DEF ActionQuit

LEMMA CommandPrints ==
  ASSUME NEW M, FilesInv(M), RowInv', ScreenInv, current # None, ~quit, Command
  PROVE  ScreenInv'
  <1>0. /\ RowInv /\ current \in DOMAIN file /\ FileTyped(Here, M) /\ InRing(ring) \subseteq Node
    BY DEF FilesInv, RowInv, RingInv, Ring, Linked, Typed, Here
  <1>1. CASE Edit \/ Undo \/ Redo \/ Reprint \/ Resize \/ Reload
    BY <1>1, ShowPrints DEF Edit, Undo, Redo, Change, Reprint, Resize, Reload
  <1>2. CASE NewFile \/ \E name \in Name : OpenNamed(name)
    BY <1>2, PrintedHere DEF NewFile, OpenNamed, Enter
  <1>3. CASE NextFile \/ PrevFile \/ \E digit \in 0 .. 9 : TabFile(digit)
    <2>1. PICK op, r : GoTo(op, r)
      BY <1>3 DEF NextFile, PrevFile, TabFile
    <2> QED
      BY <2>1, PrintedHere DEF GoTo
  <1>4. CASE \E name \in Name : WriteAs(name)
    BY <1>0, <1>4, WriteAsPrints
  <1>5. CASE \E answer \in Answer : Write(answer)
    BY <1>0, <1>5, WritePrints
  <1>6. CASE \/ \E name \in Name : WriteAsQuit(name)
             \/ \E answer \in Answer : WriteQuit(answer)
             \/ \E force \in BOOLEAN : Quit(force)
    BY <1>6, QuitPrints DEF WriteAsQuit, WriteQuit, Quit
  <1>7. ASSUME NEW ask, WriteAll(ask) PROVE ScreenInv'
    BY <1>0, <1>7, WriteAllPrints
  <1>8. ASSUME NEW ask, WriteAllQuit(ask) PROVE ScreenInv'
    <2> DEFINE t == SaveAll(ask)
    <2>1. t.ring = ring /\ t.printed \in InRing(ring) \cup {printed} /\ ActionQuitAll("wqa", t, FALSE)
      BY <1>0, <1>8, SaveAllReturns DEF WriteAllQuit
    <2> HIDE DEF t
    <2>2. t.printed \in Node \cup {None}
      BY <1>0, <2>1 DEF ScreenInv
    <2> QED
      BY <1>0, <2>1, <2>2, QuitAllPrints
  <1>9. ASSUME NEW force, QuitAll(force) PROVE ScreenInv'
    <2> DEFINE t == SetOut
    <2>1. t.ring = ring /\ t.printed \in Node \cup {None}
      BY DEF SetOut, ScreenInv
    <2>2. \E op : ActionQuitAll(op, t, force)
      BY <1>9 DEF QuitAll
    <2> HIDE DEF t
    <2> QED
      BY <1>0, <2>1, <2>2, QuitAllPrints
  <1> QED
    BY <1>1, <1>2, <1>3, <1>4, <1>5, <1>6, <1>7, <1>8, <1>9 DEF Command

LEMMA ScreenStep ==
  ASSUME NEW M, FilesInv(M), FilesInv(M)', ScreenInv, [Next]_vars
  PROVE  ScreenInv'
  <1>0. RowInv'
    BY DEF FilesInv
  <1>1. CASE UNCHANGED vars
    BY <1>1 DEF vars, ScreenInv, Here
  <1>2. CASE ~quit /\ current = None /\ OpenArgument
    BY <1>2 DEF OpenArgument, ScreenInv
  <1>3. CASE ~quit /\ current = None /\ Start
    <2>1. printed' = current'
      BY <1>3 DEF Start, Begin
    <2> QED
      BY <1>0, <2>1, PrintedHere
  <1>4. CASE ~quit /\ current # None /\ Command
    BY <1>0, <1>4, CommandPrints
  <1> QED
    BY <1>1, <1>2, <1>3, <1>4 DEF Next

(***************************************************************************)
(* The theorems.                                                           *)
(***************************************************************************)

\* The inductive invariant for any user: the files are typed, and what is on the
\* screen follows what is open.
THEOREM ScreenFollows == Spec => [](FilesInv(Marks) /\ ScreenInv)
  <1>1. MarksFor(Marks)
    BY DEF MarksFor, Marks
  <1>2. Init => FilesInv(Marks) /\ ScreenInv
    BY <1>1, FilesInit DEF Init, ScreenInv
  <1>3. FilesInv(Marks) /\ ScreenInv /\ [Next]_vars => (FilesInv(Marks) /\ ScreenInv)'
    <2>1. FilesInv(Marks) /\ [Next]_vars => FilesInv(Marks)'
      BY <1>1, FilesStep
    <2> QED
      BY <2>1, ScreenStep
  <1> QED
    BY <1>2, <1>3, PTL DEF Spec

\* The type invariant, whatever the user does: every open file is a file of the
\* ring, its name is that of its stream, and its place in the undo list is
\* within the list (undo and redo after save, reload and going to other files).
THEOREM TypesAreKept == Spec => []TypeOK
  <1>1. FilesInv(Marks) /\ ScreenInv => TypeOK
    BY DEF FilesInv, Typed, DiskTyped, FileTyped, FileRec, TypeOK, ScreenInv
  <1> QED
    BY <1>1, ScreenFollows, PTL

\* Whatever the user does, :wa can leave another open file on the screen than the
\* one the next command acts on, but only when that one has no unsaved changes.
THEOREM StaleScreenStaysClean == Spec => []StaleScreenIsClean
  <1>1. ScreenInv => StaleScreenIsClean
    BY DEF ScreenInv, StaleScreenIsClean
  <1> QED
    BY <1>1, ScreenFollows, PTL

\* The invariant for a careful user, and what it says of every step.
THEOREM CarefulSession ==
  ASSUME Careful
  PROVE  Spec => []FilesInv(EditId \cup Name) /\ []AllSaved /\ [][KeepsOthers]_vars
  <1> DEFINE M == EditId \cup Name
  <1>1. MarksFor(M) /\ Garbled \notin M
    BY SessionAssumption DEF MarksFor
  <1> HIDE DEF M
  <1>2. Init => FilesInv(M)
    BY <1>1, FilesInit
  <1>3. FilesInv(M) /\ [Next]_vars => FilesInv(M)' /\ (AllSaved => AllSaved') /\ [KeepsOthers]_vars
    BY <1>1, FilesStep
  <1>4. Init => AllSaved
    BY DEF Init, AllSaved
  <1>5. Spec => []FilesInv(M) /\ []AllSaved /\ [][KeepsOthers]_vars
    BY <1>2, <1>3, <1>4, PTL DEF Spec
  <1> QED
    BY <1>5 DEF M

\* A file without unsaved changes shows what a reader of the disk finds.
THEOREM AlwaysShowsDisk == ASSUME Careful PROVE Spec => []ShowsDisk
  <1>1. FilesInv(EditId \cup Name) => ShowsDisk
    BY SessionAssumption DEF FilesInv, DiskOk, ShowsDisk
  <1> QED
    BY <1>1, CarefulSession, PTL

\* Nothing is read from a stream that is not open.
THEOREM AlwaysReadsOpenStream == ASSUME Careful PROVE Spec => []ReadsOpenStream
  <1>1. FilesInv(EditId \cup Name) => ReadsOpenStream
    BY SessionAssumption DEF FilesInv, DiskOk, ReadsOpenStream
  <1> QED
    BY <1>1, CarefulSession, PTL

\* No save writes the edits of one content into another.
THEOREM DiskStaysIntact == ASSUME Careful PROVE Spec => []DiskIntact
  <1>1. FilesInv(EditId \cup Name) => DiskIntact
    <2> SUFFICES ASSUME FilesInv(EditId \cup Name), NEW name \in DOMAIN disk, disk[name] = <<Garbled>>
                 PROVE  FALSE
      BY DEF DiskIntact
    <2>1. disk[name] \in Seq(EditId \cup Name)
      BY DEF FilesInv, Typed, DiskTyped
    <2>2. Len(disk[name]) = 1 /\ disk[name][1] = Garbled
      BY SMT
    <2>3. disk[name][1] \in EditId \cup Name
      BY <2>1, <2>2, LenProperties
    <2> QED
      BY <2>2, <2>3, SessionAssumption
  <1> QED
    BY <1>1, CarefulSession, PTL

\* For a careful user :wa leaves nothing unsaved that could be saved (action_save_all).
THEOREM AlwaysAllSaved == ASSUME Careful PROVE Spec => []AllSaved
  BY CarefulSession, PTL

\* No command loses the unsaved changes of another file, whatever is opened,
\* reloaded, saved, left and gone to, nor those of the current file unless it
\* says so (:qa and :wqa excepted, which do not look at that one).
THEOREM AlwaysOthersKeepUnsaved == ASSUME Careful PROVE Spec => OthersKeepUnsaved
  BY CarefulSession, PTL DEF OthersKeepUnsaved, KeepsOthers
==============================================================================
