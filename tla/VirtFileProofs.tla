-------------------------- MODULE VirtFileProofs --------------------------
(***************************************************************************)
(* The undo list of VirtFile and the tree of vbufs it owns, for every      *)
(* file, every sequence of calls and every bound.                          *)
(*                                                                         *)
(* The first part is about the list alone: nothing is assumed of the tree, *)
(* and its theorems hold whatever vbufs an edit creates.  The second part  *)
(* is about the tree: every loop and recursion of the code that touches it *)
(* (the descent of _insert_before, the walk of _replace and _delete, the   *)
(* freeing of prune, the switching of vf_undo and vf_redo) is followed     *)
(* step by step, with the facts DataLemmas proves of folds and recursions. *)
(***************************************************************************)
EXTENDS VirtFile, DataLemmas, SequencesExt, FiniteSetTheorems, WellFoundedInduction, SequenceTheorems

\* Min and Max, of sets that have them.
LEMMA MinIs ==
  ASSUME NEW S \in SUBSET Nat, S # {}
  PROVE  Min(S) \in S /\ \A y \in S : Min(S) <= y
  BY BottomIs DEF Bottom, Min

LEMMA MaxIs ==
  ASSUME NEW b \in Int, NEW S \in SUBSET Int, S # {}, \A x \in S : x <= b
  PROVE  Max(S) \in S /\ \A y \in S : y <= Max(S)
  BY TopIs DEF Top, Max

\* InsertAt and RemoveAt, place by place.
LEMMA InsertAtIs ==
  ASSUME NEW S, NEW row \in Seq(S), NEW p \in 1 .. Len(row) + 1, NEW e \in S
  PROVE  /\ InsertAt(row, p, e) \in Seq(S)
         /\ Len(InsertAt(row, p, e)) = Len(row) + 1
         /\ \A i \in 1 .. Len(row) + 1 :
              InsertAt(row, p, e)[i] = IF i < p THEN row[i] ELSE IF i = p THEN e ELSE row[i - 1]
  <1>1. InsertAt(row, p, e) = Insertion(row, p, e)
    BY DEF InsertAt, Insertion
  <1> QED
    BY <1>1, InsertionIs

LEMMA RemoveAtIs ==
  ASSUME NEW S, NEW row \in Seq(S), NEW p \in 1 .. Len(row)
  PROVE  /\ RemoveAt(row, p) \in Seq(S)
         /\ Len(RemoveAt(row, p)) = Len(row) - 1
         /\ \A i \in 1 .. Len(row) - 1 :
              RemoveAt(row, p)[i] = IF i < p THEN row[i] ELSE row[i + 1]
  <1>1. RemoveAt(row, p) = Removal(row, p)
    BY DEF RemoveAt, Removal
  <1> QED
    BY <1>1, RemovalIs

\* The inductive invariant: the applied entries are the LastApplied(ul) oldest.
HistoryInv ==
  /\ UndoListTypeOK
  /\ LastApplied(ul) \in 0 .. Len(ul)
  /\ \A i \in 1 .. Len(ul) : ul[i].applied <=> i <= LastApplied(ul)

\* An entry list in good order, its first k entries applied
Marks(list, k) ==
  /\ Len(list) \in Nat
  /\ list = [i \in 1 .. Len(list) |-> list[i]]
  /\ k \in 0 .. Len(list)
  /\ \A i \in 1 .. Len(list) :
       /\ list[i] = [vb_list |-> list[i].vb_list, applied |-> list[i].applied]
       /\ i <= k => list[i].applied = TRUE
       /\ k < i => list[i].applied = FALSE

\* What a step does to the list
DropStep == ul' = PrunedUl
PushStep == \E vbs : ul' = Append(PrunedUl, [vb_list |-> vbs, applied |-> TRUE])
UndoStep == \E n \in 0 .. LastApplied(ul) :
              ul' = Marked(LastApplied(ul) - n + 1, LastApplied(ul), FALSE)
RedoStep == \E n \in 0 .. Len(ul) - LastApplied(ul) :
              ul' = Marked(LastApplied(ul) + 1, LastApplied(ul) + n, TRUE)

(***************************************************************************)
(* Sequences and the mark.                                                 *)
(***************************************************************************)

\* A function on 1 .. n is a sequence of length n.
LEMMA FcnIsSeq ==
  ASSUME NEW n \in Nat, NEW f, f = [i \in 1 .. n |-> f[i]]
  PROVE  f \in Seq({f[i] : i \in 1 .. n}) /\ Len(f) = n
<1> DEFINE S == {f[i] : i \in 1 .. n}
<1>1. f \in [1 .. n -> S]
  OBVIOUS
<1>2. f \in Seq(S)
  BY <1>1
<1>3. Len(f) = n
  BY <1>1, <1>2, LenProperties
<1> QED BY <1>2, <1>3

\* The first k entries of a list, as a function.
LEMMA PrefixIsFcn ==
  ASSUME NEW list, Len(list) \in Nat, list = [i \in 1 .. Len(list) |-> list[i]],
         NEW k \in 0 .. Len(list)
  PROVE  /\ Len(SubSeq(list, 1, k)) = k
         /\ SubSeq(list, 1, k) = [i \in 1 .. k |-> list[i]]
<1> DEFINE S == {list[i] : i \in 1 .. Len(list)}
           p == SubSeq(list, 1, k)
<1>1. list \in Seq(S)
  BY FcnIsSeq
<1>2. /\ p \in Seq(S)
      /\ Len(p) = k
      /\ \A i \in 1 .. k : p[i] = list[i]
  BY <1>1, SubSeqProperties
<1>3. p \in [1 .. k -> S]
  BY <1>2, LenProperties
<1> QED BY <1>2, <1>3

\* A stretch of a list.
LEMMA StretchIs ==
  ASSUME NEW list, Len(list) \in Nat, list = [i \in 1 .. Len(list) |-> list[i]],
         NEW from \in 1 .. Len(list) + 1, NEW to \in from - 1 .. Len(list),
         NEW n, n = to - from + 1
  PROVE  /\ Len(SubSeq(list, from, to)) = n
         /\ DOMAIN SubSeq(list, from, to) = 1 .. n
         /\ \A k \in 1 .. n : SubSeq(list, from, to)[k] = list[from + k - 1]
<1> DEFINE S == {list[i] : i \in 1 .. Len(list)}
           part == SubSeq(list, from, to)
<1>1. list \in Seq(S)
  BY FcnIsSeq
<1>2. n \in Nat /\ from \in 1 .. Len(list) + 1 /\ to \in from - 1 .. Len(list)
  OBVIOUS
<1> HIDE DEF S
<1>3. /\ part \in Seq(S)
      /\ Len(part) = n
      /\ \A k \in 1 .. n : part[k] = list[from + k - 1]
  BY <1>1, <1>2, SubSeqProperties, SMTT(30)
<1> HIDE DEF part
<1>4. DOMAIN part = 1 .. n
  BY <1>3, LenProperties
<1> QED BY <1>3, <1>4 DEF part

\* A list with one entry more, as a function.
LEMMA AppendIsFcn ==
  ASSUME NEW k \in Nat, NEW list, list = [i \in 1 .. k |-> list[i]], NEW e
  PROVE  /\ Len(Append(list, e)) = k + 1
         /\ Append(list, e) = [i \in 1 .. k + 1 |-> IF i = k + 1 THEN e ELSE list[i]]
<1> DEFINE S == {list[i] : i \in 1 .. k} \cup {e}
           a == Append(list, e)
<1>1. list \in Seq(S) /\ Len(list) = k
  <2>1. list \in [1 .. k -> S]
    OBVIOUS
  <2> QED BY <2>1, FcnIsSeq
<1>2. /\ a \in Seq(S)
      /\ Len(a) = k + 1
      /\ \A i \in 1 .. k : a[i] = list[i]
      /\ a[k + 1] = e
  BY <1>1, AppendProperties
<1>3. a \in [1 .. k + 1 -> S]
  BY <1>2, LenProperties
<1> QED BY <1>2, <1>3

\* LastApplied finds the mark: the code's search from the newest entry down.
LEMMA LastAppliedIsMark ==
  ASSUME NEW list, NEW k, Marks(list, k)
  PROVE  LastApplied(list) = k
<1> USE DEF Marks
<1>1. \A i \in 1 .. Len(list) : list[i].applied <=> i <= k
  OBVIOUS
<1>2. CASE k = 0
  BY <1>1, <1>2 DEF LastApplied
<1>3. CASE k # 0
  <2> DEFINE Newest(i) == list[i].applied /\ \A j \in i + 1 .. Len(list) : ~list[j].applied
  <2>1. k \in 1 .. Len(list) /\ Newest(k)
    BY <1>1, <1>3
  <2>2. \A i \in 1 .. Len(list) : Newest(i) => i = k
    BY <1>1, <1>3
  <2>3. (CHOOSE i \in 1 .. Len(list) : Newest(i)) = k
    BY <2>1, <2>2
  <2> QED BY <2>1, <2>3 DEF LastApplied
<1> QED BY <1>2, <1>3

\* HistoryInv says that the list is marked, at LastApplied(ul).
LEMMA InvIsMarks == HistoryInv <=> Marks(ul, LastApplied(ul))
<1>1. HistoryInv => Marks(ul, LastApplied(ul))
  BY DEF HistoryInv, Marks, UndoListTypeOK
<1>2. Marks(ul, LastApplied(ul)) => HistoryInv
  <2> SUFFICES ASSUME Marks(ul, LastApplied(ul))
               PROVE  HistoryInv
    OBVIOUS
  <2> USE DEF Marks
  <2>1. ASSUME NEW i \in 1 .. Len(ul)
        PROVE  /\ ul[i].applied \in BOOLEAN
               /\ ul[i].applied <=> i <= LastApplied(ul)
    <3>1. CASE i <= LastApplied(ul)
      BY <3>1
    <3>2. CASE LastApplied(ul) < i
      BY <3>2
    <3> QED BY <3>1, <3>2
  <2>2. UndoListTypeOK
    BY <2>1 DEF UndoListTypeOK
  <2> QED BY <2>1, <2>2 DEF HistoryInv
<1> QED BY <1>1, <1>2

(***************************************************************************)
(* The steps.                                                              *)
(***************************************************************************)

\* Every step drops the undone entries, pushes one in their place, switches
\* the newest applied entries off or the oldest undone ones on.
LEMMA StepShape ==
  ASSUME HistoryInv, [Next]_vars
  PROVE  DropStep \/ PushStep \/ UndoStep \/ RedoStep
<1>0. Len(ul) \in Nat /\ LastApplied(ul) \in 0 .. Len(ul)
  BY DEF HistoryInv, UndoListTypeOK
<1>1. ASSUME NEW t, NEW n, ul' = Pushed(PrunedUl, t, n)
      PROVE  DropStep \/ PushStep
  BY <1>1 DEF Pushed, DropStep, PushStep
<1>2. ASSUME NEW offset, NEW len, InsertAtOffset(offset, len)
      PROVE  DropStep \/ PushStep
  BY <1>1, <1>2 DEF InsertAtOffset
<1>3. ASSUME NEW offset, NEW len, ReplaceAtOffset(offset, len)
      PROVE  DropStep \/ PushStep
  BY <1>1, <1>3 DEF ReplaceAtOffset
<1>4. ASSUME NEW offset, NEW len, DeleteAtOffset(offset, len)
      PROVE  DropStep \/ PushStep
  BY <1>1, <1>4 DEF DeleteAtOffset
<1>5. ASSUME NEW count \in Count, Undo(count)
      PROVE  UndoStep
  <2> DEFINE n == IF count < LastApplied(ul) THEN count ELSE LastApplied(ul)
  <2>1. n \in 0 .. LastApplied(ul)
    BY <1>0, VirtFileAssumption DEF VirtFileAssumption
  <2> QED BY <2>1, <1>5 DEF Undo, UndoStep
<1>6. ASSUME NEW count \in Count, Redo(count)
      PROVE  RedoStep
  <2> DEFINE n == IF count < Len(ul) - LastApplied(ul) THEN count
                  ELSE Len(ul) - LastApplied(ul)
  <2>1. n \in 0 .. Len(ul) - LastApplied(ul)
    BY <1>0, VirtFileAssumption DEF VirtFileAssumption
  <2> QED BY <2>1, <1>6 DEF Redo, RedoStep
<1>7. CASE UNCHANGED vars
  <2>1. ul' = ul
    BY <1>7 DEF vars
  <2>2. LastApplied(ul) - 0 + 1 = LastApplied(ul) + 1 /\ 0 \in 0 .. LastApplied(ul)
    BY <1>0
  <2>3. ul = Marked(LastApplied(ul) + 1, LastApplied(ul), FALSE)
    BY <1>0 DEF HistoryInv, UndoListTypeOK, Marked
  <2>4. ul' = Marked(LastApplied(ul) - 0 + 1, LastApplied(ul), FALSE)
    BY <2>1, <2>2, <2>3
  <2> QED BY <2>2, <2>4, Zenon DEF UndoStep
<1>8. CASE \E offset \in 0 .. Size + 1 :
             \/ \E len \in InsertLen : InsertAtOffset(offset, len)
             \/ \E len \in ReplaceLen : ReplaceAtOffset(offset, len)
             \/ \E len \in DeleteLen : DeleteAtOffset(offset, len)
  BY <1>2, <1>3, <1>4, <1>8
<1>9. CASE \E count \in Count : Undo(count) \/ Redo(count)
  BY <1>5, <1>6, <1>9
<1> QED BY <1>7, <1>8, <1>9 DEF Next

\* The mark after each kind of step.
LEMMA StepMarks ==
  ASSUME HistoryInv
  PROVE  /\ DropStep => Marks(ul', LastApplied(ul))
         /\ PushStep => Marks(ul', LastApplied(ul) + 1)
         /\ \A n \in 0 .. LastApplied(ul) :
              ul' = Marked(LastApplied(ul) - n + 1, LastApplied(ul), FALSE)
                => Marks(ul', LastApplied(ul) - n)
         /\ \A n \in 0 .. Len(ul) - LastApplied(ul) :
              ul' = Marked(LastApplied(ul) + 1, LastApplied(ul) + n, TRUE)
                => Marks(ul', LastApplied(ul) + n)
<1> DEFINE top == LastApplied(ul)
<1>0. Marks(ul, top)
  BY InvIsMarks
<1> HIDE DEF top
<1>1. /\ Len(PrunedUl) = top
      /\ PrunedUl = [i \in 1 .. top |-> ul[i]]
  BY <1>0, PrefixIsFcn DEF Marks, PrunedUl, top
<1>2. ASSUME DropStep
      PROVE  Marks(ul', top)
  BY <1>0, <1>1, <1>2 DEF DropStep, Marks
<1>3. ASSUME NEW vbs, ul' = Append(PrunedUl, [vb_list |-> vbs, applied |-> TRUE])
      PROVE  Marks(ul', top + 1)
  <2> DEFINE e == [vb_list |-> vbs, applied |-> TRUE]
  <2>1. top \in Nat
    BY <1>0 DEF Marks
  <2>2. PrunedUl = [i \in 1 .. top |-> PrunedUl[i]]
    BY <1>1
  <2>3. /\ Len(ul') = top + 1
        /\ ul' = [i \in 1 .. top + 1 |-> IF i = top + 1 THEN e ELSE PrunedUl[i]]
    BY <1>3, <2>1, <2>2, AppendIsFcn
  <2>4. \A i \in 1 .. top : ul'[i] = ul[i]
    BY <1>1, <2>1, <2>3
  <2>5. ul'[top + 1] = e
    BY <2>1, <2>3
  <2>6. \A i \in 1 .. top + 1 : i \in 1 .. top \/ i = top + 1
    BY <2>1
  <2>7. ASSUME NEW i \in 1 .. top + 1
        PROVE  /\ ul'[i] = [vb_list |-> ul'[i].vb_list, applied |-> ul'[i].applied]
               /\ ul'[i].applied = TRUE
    <3>1. CASE i \in 1 .. top
      BY <3>1, <2>4, <1>0 DEF Marks
    <3>2. CASE i = top + 1
      <4>1. ul'[i] = e
        BY <3>2, <2>5
      <4>2. e = [vb_list |-> e.vb_list, applied |-> e.applied]
        OBVIOUS
      <4>3. e.applied = TRUE
        OBVIOUS
      <4> HIDE DEF e
      <4> QED BY <4>1, <4>2, <4>3
    <3> QED BY <3>1, <3>2, <2>6
  <2>8. ul' = [i \in 1 .. Len(ul') |-> ul'[i]]
    BY <2>3
  <2>9. Len(ul') \in Nat /\ top + 1 \in 0 .. Len(ul')
    BY <2>1, <2>3
  <2>10. \A i \in 1 .. Len(ul') : ~(top + 1 < i)
    BY <2>1, <2>3
  <2> QED BY <2>3, <2>7, <2>8, <2>9, <2>10 DEF Marks
<1>4. ASSUME NEW from \in Int, NEW to \in Int, NEW on \in BOOLEAN, NEW k \in 0 .. Len(ul),
             ul' = Marked(from, to, on),
             \A i \in 1 .. Len(ul) :
               IF i \in from .. to THEN on = IF i <= k THEN TRUE ELSE FALSE
                                   ELSE i <= top <=> i <= k
      PROVE  Marks(ul', k)
  <2>1. Len(ul) \in Nat /\ top \in 0 .. Len(ul)
    BY <1>0 DEF Marks
  <2>2. ul' = [i \in 1 .. Len(ul) |-> ul'[i]]
    BY <1>4 DEF Marked
  <2>3. Len(ul') = Len(ul)
    BY <2>1, <2>2, FcnIsSeq
  <2>4. ASSUME NEW i \in 1 .. Len(ul)
        PROVE  /\ ul'[i] = [vb_list |-> ul'[i].vb_list, applied |-> ul'[i].applied]
               /\ i <= k => ul'[i].applied = TRUE
               /\ k < i => ul'[i].applied = FALSE
    <3>1. CASE i \in from .. to
      <4>1. ul'[i] = [vb_list |-> ul[i].vb_list, applied |-> on]
        BY <1>0, <1>4, <3>1 DEF Marks, Marked
      <4>2. on = IF i <= k THEN TRUE ELSE FALSE
        BY <1>4, <3>1
      <4> QED BY <4>1, <4>2, <2>1
    <3>2. CASE i \notin from .. to
      <4>1. ul'[i] = ul[i]
        BY <1>4, <3>2 DEF Marked
      <4>2. i <= top <=> i <= k
        BY <1>4, <3>2
      <4> QED BY <4>1, <4>2, <1>0, <2>1 DEF Marks
    <3> QED BY <3>1, <3>2
  <2> QED BY <2>1, <2>2, <2>3, <2>4 DEF Marks
<1>5. Len(ul) \in Nat /\ top \in 0 .. Len(ul)
  BY <1>0 DEF Marks
<1>6. ASSUME NEW n \in 0 .. top, ul' = Marked(top - n + 1, top, FALSE)
      PROVE  Marks(ul', top - n)
  <2>1. /\ top - n \in 0 .. Len(ul) /\ top - n + 1 \in Int /\ top \in Int
        /\ \A i \in 1 .. Len(ul) :
             IF i \in top - n + 1 .. top THEN FALSE = IF i <= top - n THEN TRUE ELSE FALSE
                                        ELSE i <= top <=> i <= top - n
    BY <1>5
  <2> QED BY <1>4, <1>6, <2>1
<1>7. ASSUME NEW n \in 0 .. Len(ul) - top, ul' = Marked(top + 1, top + n, TRUE)
      PROVE  Marks(ul', top + n)
  <2>1. /\ top + n \in 0 .. Len(ul) /\ top + n \in Int /\ top + 1 \in Int
        /\ \A i \in 1 .. Len(ul) :
             IF i \in top + 1 .. top + n THEN TRUE = IF i <= top + n THEN TRUE ELSE FALSE
                                        ELSE i <= top <=> i <= top + n
    BY <1>5
  <2> QED BY <1>4, <1>7, <2>1
<1> QED BY <1>2, <1>3, <1>6, <1>7 DEF PushStep, top

\* The mark moves as the step says, and the invariant is kept.
LEMMA StepMoves ==
  ASSUME HistoryInv, [Next]_vars
  PROVE  /\ HistoryInv'
         /\ \/ DropStep /\ LastApplied(ul)' = LastApplied(ul)
            \/ PushStep /\ LastApplied(ul)' = LastApplied(ul) + 1
            \/ \E n \in 0 .. LastApplied(ul) :
                 /\ ul' = Marked(LastApplied(ul) - n + 1, LastApplied(ul), FALSE)
                 /\ LastApplied(ul)' = LastApplied(ul) - n
            \/ \E n \in 0 .. Len(ul) - LastApplied(ul) :
                 /\ ul' = Marked(LastApplied(ul) + 1, LastApplied(ul) + n, TRUE)
                 /\ LastApplied(ul)' = LastApplied(ul) + n
<1>1. ASSUME NEW k, Marks(ul', k)
      PROVE  LastApplied(ul)' = k /\ HistoryInv'
  <2>1. LastApplied(ul') = k
    BY <1>1, LastAppliedIsMark
  <2>2. Marks(ul, LastApplied(ul))'
    BY <1>1, <2>1
  <2>3. HistoryInv'
    BY <2>2, InvIsMarks, PTL
  <2> QED BY <2>1, <2>3
<1>2. CASE DropStep
  BY <1>1, <1>2, StepMarks
<1>3. CASE PushStep
  BY <1>1, <1>3, StepMarks
<1>4. CASE UndoStep
  <2>1. PICK n \in 0 .. LastApplied(ul) :
          ul' = Marked(LastApplied(ul) - n + 1, LastApplied(ul), FALSE)
    BY <1>4 DEF UndoStep
  <2>2. Marks(ul', LastApplied(ul) - n)
    BY <2>1, StepMarks
  <2>3. LastApplied(ul)' = LastApplied(ul) - n /\ HistoryInv'
    BY <2>2, <1>1
  <2> QED BY <2>1, <2>3, Zenon
<1>5. CASE RedoStep
  <2>1. PICK n \in 0 .. Len(ul) - LastApplied(ul) :
          ul' = Marked(LastApplied(ul) + 1, LastApplied(ul) + n, TRUE)
    BY <1>5 DEF RedoStep
  <2>2. Marks(ul', LastApplied(ul) + n)
    BY <2>1, StepMarks
  <2>3. LastApplied(ul)' = LastApplied(ul) + n /\ HistoryInv'
    BY <2>2, <1>1
  <2> QED BY <2>1, <2>3, Zenon
<1> QED BY <1>2, <1>3, <1>4, <1>5, StepShape

(***************************************************************************)
(* The log of the abstract history: the vbufs of every entry.              *)
(***************************************************************************)
VbLists(list) == [i \in 1 .. Len(list) |-> list[i].vb_list]

\* The log is a sequence as long as the undo list.
LEMMA ListsLen ==
  ASSUME NEW list, Len(list) \in Nat
  PROVE  Len(VbLists(list)) = Len(list)
BY FcnIsSeq DEF VbLists

\* What remains of the undo list has what remains of the log.
LEMMA PrefixLists ==
  ASSUME NEW list, Len(list) \in Nat, list = [i \in 1 .. Len(list) |-> list[i]],
         NEW k \in 0 .. Len(list)
  PROVE  VbLists(SubSeq(list, 1, k)) = SubSeq(VbLists(list), 1, k)
<1>1. /\ Len(SubSeq(list, 1, k)) = k
      /\ SubSeq(list, 1, k) = [i \in 1 .. k |-> list[i]]
  BY PrefixIsFcn
<1>2. VbLists(list) = [i \in 1 .. Len(VbLists(list)) |-> VbLists(list)[i]]
  BY ListsLen DEF VbLists
<1>3. SubSeq(VbLists(list), 1, k) = [i \in 1 .. k |-> VbLists(list)[i]]
  BY <1>2, ListsLen, PrefixIsFcn
<1>4. \A i \in 1 .. k : VbLists(list)[i] = SubSeq(list, 1, k)[i].vb_list
  BY <1>1 DEF VbLists
<1> QED BY <1>1, <1>3, <1>4 DEF VbLists

\* An entry pushed on what remains leaves that part of the log alone.
LEMMA PushLists ==
  ASSUME NEW list, Len(list) \in Nat, list = [i \in 1 .. Len(list) |-> list[i]],
         NEW k \in 0 .. Len(list), NEW e
  PROVE  /\ Len(VbLists(Append(SubSeq(list, 1, k), e))) = k + 1
         /\ SubSeq(VbLists(Append(SubSeq(list, 1, k), e)), 1, k) = SubSeq(VbLists(list), 1, k)
<1> DEFINE kept == SubSeq(list, 1, k)
           new == Append(kept, e)
<1>1. Len(kept) = k /\ kept = [i \in 1 .. k |-> list[i]]
  BY PrefixIsFcn
<1>2. kept = [i \in 1 .. k |-> kept[i]]
  BY <1>1
<1>3. /\ Len(new) = k + 1
      /\ new = [i \in 1 .. k + 1 |-> IF i = k + 1 THEN e ELSE kept[i]]
  BY <1>2, AppendIsFcn
<1>4. Len(VbLists(new)) = k + 1
  <2>1. Len(new) = k + 1 /\ Len(new) \in Nat
    BY <1>3
  <2> HIDE DEF new
  <2> QED BY <2>1, ListsLen
<1>5. new = [i \in 1 .. Len(new) |-> new[i]] /\ Len(new) \in Nat /\ k \in 0 .. Len(new)
  BY <1>3
<1>6. SubSeq(VbLists(new), 1, k) = VbLists(SubSeq(new, 1, k))
  BY <1>5, PrefixLists
<1>7. SubSeq(new, 1, k) = [i \in 1 .. k |-> new[i]]
  BY <1>5, PrefixIsFcn
<1>8. \A i \in 1 .. k : new[i] = list[i]
  BY <1>1, <1>3
<1>9. SubSeq(new, 1, k) = kept
  BY <1>1, <1>7, <1>8
<1>10. VbLists(kept) = SubSeq(VbLists(list), 1, k)
  BY PrefixLists
<1> QED BY <1>4, <1>6, <1>9, <1>10

\* Switching entries off and on leaves the log alone.
LEMMA MarkedLists ==
  ASSUME HistoryInv, NEW from, NEW to, NEW on, ul' = Marked(from, to, on)
  PROVE  VbLists(ul') = VbLists(ul)
<1>1. Len(ul) \in Nat
  BY DEF HistoryInv, UndoListTypeOK
<1>2. Len(ul') = Len(ul)
  <2>1. ul' = [i \in 1 .. Len(ul) |-> ul'[i]]
    BY DEF Marked
  <2> QED BY <1>1, <2>1, FcnIsSeq
<1>3. ASSUME NEW i \in 1 .. Len(ul)
      PROVE  ul'[i].vb_list = ul[i].vb_list
  <2>1. ul[i] = [vb_list |-> ul[i].vb_list, applied |-> ul[i].applied]
    BY DEF HistoryInv, UndoListTypeOK
  <2>2. CASE i \in from .. to
    <3>1. ul'[i] = [ul[i] EXCEPT !.applied = on]
      BY <2>2 DEF Marked
    <3>2. [ul[i] EXCEPT !.applied = on] = [vb_list |-> ul[i].vb_list, applied |-> on]
      BY <2>1
    <3> QED BY <3>1, <3>2
  <2>3. CASE i \notin from .. to
    BY <2>3 DEF Marked
  <2> QED BY <2>2, <2>3
<1> QED BY <1>2, <1>3 DEF VbLists

(***************************************************************************)
(* Theorems about the list.                                                *)
(***************************************************************************)

\* In every reachable state the applied entries are the oldest ones, and
\* LastApplied, the search vf_undo makes, ends at the boundary.
THEOREM HistoryInvariant == Spec => []HistoryInv
<1>1. Init => HistoryInv
  <2> SUFFICES ASSUME Init
               PROVE  HistoryInv
    OBVIOUS
  <2>1. ul = <<>>
    BY DEF Init
  <2>2. LastApplied(ul) = 0
    BY <2>1 DEF LastApplied
  <2> QED BY <2>1, <2>2 DEF HistoryInv, UndoListTypeOK
<1>2. HistoryInv /\ [Next]_vars => HistoryInv'
  BY StepMoves
<1> QED BY <1>1, <1>2, PTL DEF Spec

\* The undo list is always a list of entries with a Boolean `applied`.
THEOREM UndoListTyped == Spec => []UndoListTypeOK
<1>1. HistoryInv => UndoListTypeOK
  BY DEF HistoryInv
<1> QED BY <1>1, HistoryInvariant, PTL

\* Undone entries are always newer than applied ones: the searches of vf_undo,
\* vf_redo and prune, which stop at the first entry of the other kind, miss none.
THEOREM UndoneNewest == Spec => []UndoneAreNewest
<1>1. HistoryInv => UndoneAreNewest
  BY DEF HistoryInv, UndoListTypeOK, UndoneAreNewest
<1> QED BY <1>1, HistoryInvariant, PTL

\* The undo list implements a linear history: whatever is edited, undone and
\* redone, no change in force is dropped, skipped or brought back out of order.
THEOREM ImplementsLinearHistory == Spec => IsLinearHistory
<1>1. Init => History!Init
  <2> SUFFICES ASSUME Init
               PROVE  History!Init
    OBVIOUS
  <2>1. ul = <<>>
    BY DEF Init
  <2>2. LastApplied(ul) = 0
    BY <2>1 DEF LastApplied
  <2> QED BY <2>1, <2>2 DEF History!Init
<1>2. HistoryInv /\ [Next]_vars => [History!Next]_(History!vars)
  <2> SUFFICES ASSUME HistoryInv, [Next]_vars
               PROVE  History!Next
    OBVIOUS
  <2>0. /\ Len(ul) \in Nat /\ LastApplied(ul) \in 0 .. Len(ul)
        /\ ul = [i \in 1 .. Len(ul) |-> ul[i]]
    BY DEF HistoryInv, UndoListTypeOK
  <2>1. CASE DropStep /\ LastApplied(ul)' = LastApplied(ul)
    <3>1. VbLists(ul') = SubSeq(VbLists(ul), 1, LastApplied(ul))
      BY <2>0, <2>1, PrefixLists DEF DropStep, PrunedUl
    <3> QED BY <2>1, <3>1 DEF History!Next, History!Forget, VbLists
  <2>2. CASE PushStep /\ LastApplied(ul)' = LastApplied(ul) + 1
    <3>1. /\ Len(VbLists(ul')) = LastApplied(ul) + 1
          /\ SubSeq(VbLists(ul'), 1, LastApplied(ul)) = SubSeq(VbLists(ul), 1, LastApplied(ul))
      <4>1. PICK vbs : ul' = Append(SubSeq(ul, 1, LastApplied(ul)),
                                    [vb_list |-> vbs, applied |-> TRUE])
        BY <2>2 DEF PushStep, PrunedUl
      <4> QED BY <2>0, <4>1, PushLists
    <3> QED BY <2>2, <3>1 DEF History!Next, History!Record, VbLists
  <2>3. CASE \E n \in 0 .. LastApplied(ul) :
               ul' = Marked(LastApplied(ul) - n + 1, LastApplied(ul), FALSE) /\ LastApplied(ul)' = LastApplied(ul) - n
    <3>1. PICK n \in 0 .. LastApplied(ul) :
            ul' = Marked(LastApplied(ul) - n + 1, LastApplied(ul), FALSE) /\ LastApplied(ul)' = LastApplied(ul) - n
      BY <2>3
    <3>2. VbLists(ul') = VbLists(ul)
      BY <3>1, MarkedLists
    <3>3. LastApplied(ul)' \in 0 .. LastApplied(ul)
      <4>1. LastApplied(ul)' = LastApplied(ul) - n
        BY <3>1
      <4>2. LastApplied(ul) - n \in 0 .. LastApplied(ul)
        BY <2>0
      <4> QED BY <4>1, <4>2, Zenon
    <3> QED BY <3>2, <3>3 DEF History!Next, History!Back, VbLists
  <2>4. CASE \E n \in 0 .. Len(ul) - LastApplied(ul) :
               ul' = Marked(LastApplied(ul) + 1, LastApplied(ul) + n, TRUE) /\ LastApplied(ul)' = LastApplied(ul) + n
    <3>1. PICK n \in 0 .. Len(ul) - LastApplied(ul) :
            ul' = Marked(LastApplied(ul) + 1, LastApplied(ul) + n, TRUE) /\ LastApplied(ul)' = LastApplied(ul) + n
      BY <2>4
    <3>2. VbLists(ul') = VbLists(ul)
      BY <3>1, MarkedLists
    <3>3. Len(VbLists(ul)) = Len(ul)
      BY <2>0, ListsLen
    <3>4. LastApplied(ul)' \in LastApplied(ul) .. Len(VbLists(ul))
      <4>1. LastApplied(ul)' = LastApplied(ul) + n
        BY <3>1
      <4>2. LastApplied(ul) + n \in LastApplied(ul) .. Len(VbLists(ul))
        BY <2>0, <3>3
      <4> QED BY <4>1, <4>2, Zenon
    <3> QED BY <3>2, <3>4 DEF History!Next, History!Forth, VbLists
  <2> QED BY <2>1, <2>2, <2>3, <2>4, StepMoves
<1> QED BY <1>1, <1>2, HistoryInvariant, PTL DEF Spec, IsLinearHistory, History!Spec

\* The folds and the recursions of the module, in the form of DataLemmas
FreeStep(a, b, c, t, v) == FreeVbuf(t, v)
FreeEntryStep(a, b, c, t, entry) == FreeEntry(t, entry)
SwitchStep(on, b, c, t, v) == Switch(t, v, on)
SwitchEntryStep(on, b, c, t, entry) == SwitchEntry(t, entry, on)
PutStep(buf, offset, c, t, p) == Put(buf, offset, t, p)
CutStep(a, offset, c, t, p) == Cut(offset, t, p)
DescendAt(t, offset, down, v) == Descend(t, offset, down, v)
WalkAt(t, b, walk, ask) == WalkVbuf(t, walk, ask)
SumStep(t, b, c, acc, kid) == acc + Gain(t[kid])
Climb(t, b, up, u) == IF u = Root THEN {Root} ELSE {u} \cup up[t[u].parent]

Freeing   == INSTANCE DataLemmas WITH Op <- FreeStep, Body <- DescendAt
Pruning   == INSTANCE DataLemmas WITH Op <- FreeEntryStep, Body <- DescendAt
Switching == INSTANCE DataLemmas WITH Op <- SwitchStep, Body <- DescendAt
Undoing   == INSTANCE DataLemmas WITH Op <- SwitchEntryStep, Body <- DescendAt
Putting   == INSTANCE DataLemmas WITH Op <- PutStep, Body <- DescendAt
Cutting   == INSTANCE DataLemmas WITH Op <- CutStep, Body <- DescendAt
Visiting  == INSTANCE DataLemmas WITH Op <- Visit, Body <- WalkAt
Summing   == INSTANCE DataLemmas WITH Op <- SumStep, Body <- DescendAt
Climbing  == INSTANCE DataLemmas WITH Op <- SwitchStep, Body <- Climb

(***************************************************************************)
(* The tree.                                                               *)
(***************************************************************************)
IsVbuf(vb) ==
  /\ vb = [parent |-> vb.parent, children |-> vb.children, start |-> vb.start,
           size |-> vb.size, buf_type |-> vb.buf_type, active |-> vb.active, buf |-> vb.buf]
  /\ vb.start \in Int /\ vb.size \in Int
  /\ vb.children \in Seq(Nat)

\* The vbufs in the list of vb
Kids(vb) == {vb.children[i] : i \in 1 .. Len(vb.children)}

\* Parents and lists agree, and a vbuf is older than those under it: no list
\* names a vbuf twice, one that is freed, or one that hangs elsewhere.
Linked(t) ==
  /\ Root \in DOMAIN t
  /\ \E b \in Nat : DOMAIN t \subseteq 0 .. b
  /\ t = [v \in DOMAIN t |-> t[v]]
  /\ \A v \in DOMAIN t :
       /\ IsVbuf(t[v])
       /\ \A i, j \in 1 .. Len(t[v].children) : t[v].children[i] = t[v].children[j] => i = j
       /\ \A kid \in Kids(t[v]) : kid \in DOMAIN t /\ v < kid /\ t[kid].parent = v
       /\ v # Root => t[v].parent \in DOMAIN t /\ v \in Kids(t[t[v].parent])

\* u has the vbufs of t, linked the same way
SameLinks(t, u) ==
  /\ DOMAIN u = DOMAIN t
  /\ u = [v \in DOMAIN u |-> u[v]]
  /\ \A v \in DOMAIN t : /\ IsVbuf(u[v])
                         /\ u[v].parent = t[v].parent
                         /\ u[v].children = t[v].children

\* The shape of the tree is in its links.
LEMMA SameLinksLinked ==
  ASSUME NEW t, Linked(t), NEW u, SameLinks(t, u)
  PROVE  Linked(u)
<1>1. \A v \in DOMAIN t : Kids(u[v]) = Kids(t[v])
  BY DEF SameLinks, Kids
<1>2. Root \in DOMAIN u /\ \E b \in Nat : DOMAIN u \subseteq 0 .. b
  BY DEF Linked, SameLinks
<1>3. ASSUME NEW v \in DOMAIN u
      PROVE  /\ IsVbuf(u[v])
             /\ \A i, j \in 1 .. Len(u[v].children) : u[v].children[i] = u[v].children[j] => i = j
             /\ \A kid \in Kids(u[v]) : kid \in DOMAIN u /\ v < kid /\ u[kid].parent = v
             /\ v # Root => u[v].parent \in DOMAIN u /\ v \in Kids(u[u[v].parent])
  <2>1. v \in DOMAIN t /\ DOMAIN u = DOMAIN t /\ u[v].children = t[v].children
        /\ IsVbuf(u[v])
    BY <1>3 DEF SameLinks
  <2>2. \A kid \in Kids(t[v]) : kid \in DOMAIN t /\ v < kid /\ t[kid].parent = v
    BY <2>1 DEF Linked
  <2>3. \A kid \in Kids(u[v]) : kid \in DOMAIN u /\ v < kid /\ u[kid].parent = v
    BY <1>1, <2>1, <2>2 DEF SameLinks
  <2>4. v # Root => u[v].parent \in DOMAIN u /\ v \in Kids(u[u[v].parent])
    BY <1>1, <2>1 DEF Linked, SameLinks
  <2>5. \A i, j \in 1 .. Len(u[v].children) : u[v].children[i] = u[v].children[j] => i = j
    BY <2>1 DEF Linked
  <2> QED BY <2>1, <2>3, <2>4, <2>5
<1> QED BY <1>2, <1>3 DEF Linked, SameLinks

\* mod_parent_size and mod_start_offset relink nothing.
LEMMA ResizeLinks ==
  ASSUME NEW t, Linked(t), NEW v, NEW by \in Int
  PROVE  /\ SameLinks(t, Resize(t, v, by))
         /\ \A w \in DOMAIN t : Resize(t, v, by)[w].active = t[w].active
<1> DEFINE u == Resize(t, v, by)
           above == Line(t, v) \ {v}
           behind == Behind(t, v)
<1>1. u = [w \in DOMAIN t |->
             [t[w] EXCEPT !.size  = IF w \in above THEN @ + by ELSE @,
                          !.start = IF w \in behind THEN @ + by ELSE @]]
  BY DEF Resize
<1> HIDE DEF u, above, behind
<1>2. ASSUME NEW w \in DOMAIN t
      PROVE  /\ IsVbuf(u[w])
             /\ u[w].parent = t[w].parent
             /\ u[w].children = t[w].children
             /\ u[w].active = t[w].active
  <2> DEFINE vb == t[w]
             size == IF w \in above THEN vb.size + by ELSE vb.size
             start == IF w \in behind THEN vb.start + by ELSE vb.start
  <2>1. /\ vb = [parent |-> vb.parent, children |-> vb.children, start |-> vb.start,
                 size |-> vb.size, buf_type |-> vb.buf_type, active |-> vb.active,
                 buf |-> vb.buf]
        /\ vb.start \in Int /\ vb.size \in Int /\ vb.children \in Seq(Nat)
    BY DEF Linked, IsVbuf
  <2>2. u[w] = [vb EXCEPT !.size = size, !.start = start]
    BY <1>1
  <2>3. size \in Int /\ start \in Int
    BY <2>1
  <2> HIDE DEF vb, size, start
  <2>4. u[w] = [parent |-> vb.parent, children |-> vb.children, start |-> start,
                size |-> size, buf_type |-> vb.buf_type, active |-> vb.active,
                buf |-> vb.buf]
    BY <2>1, <2>2
  <2>5. IsVbuf(u[w])
    BY <2>1, <2>3, <2>4 DEF IsVbuf
  <2> QED BY <2>4, <2>5 DEF vb
<1>3. DOMAIN u = DOMAIN t /\ u = [w \in DOMAIN u |-> u[w]]
  BY <1>1
<1>4. SameLinks(t, u)
  BY <1>2, <1>3 DEF SameLinks
<1> QED BY <1>2, <1>4 DEF u

\* The name of a new vbuf is larger than all in use.
LEMMA NewIdIs ==
  ASSUME NEW t, Linked(t)
  PROVE  /\ NewId(t) \in Nat \ {0} /\ NewId(t) - 1 \in DOMAIN t
         /\ \A v \in DOMAIN t : v \in Nat /\ v < NewId(t)
<1>1. PICK b \in Nat : DOMAIN t \subseteq 0 .. b
  BY DEF Linked
<1>2. DOMAIN t \in SUBSET Int /\ DOMAIN t # {} /\ \A v \in DOMAIN t : v <= b /\ v \in Nat
  BY <1>1 DEF Linked
<1> DEFINE D == DOMAIN t
           top == Max(D)
<1> HIDE DEF D
<1>3. D \in SUBSET Int /\ D # {} /\ \A v \in D : v <= b
  BY <1>2 DEF D
<1>4. top \in D /\ \A v \in D : v <= top
  BY <1>3, MaxIs
<1> HIDE DEF top
<1>5. top \in Nat /\ top \in DOMAIN t /\ \A v \in DOMAIN t : v \in Nat /\ v <= top
  BY <1>2, <1>4 DEF D
<1>6. NewId(t) = 1 + top
  BY DEF NewId, top, D
<1> QED BY <1>5, <1>6

\* A vbuf has one place among its siblings.
LEMMA PlaceIs ==
  ASSUME NEW t, Linked(t), NEW p \in DOMAIN t, NEW kid \in Kids(t[p])
  PROVE  /\ t[kid].parent = p
         /\ Siblings(t, kid) = t[p].children
         /\ Place(t, kid) \in 1 .. Len(t[p].children)
         /\ t[p].children[Place(t, kid)] = kid
<1>1. t[kid].parent = p /\ t[p].children \in Seq(Nat)
  BY DEF Linked, IsVbuf
<1>2. Siblings(t, kid) = t[p].children
  BY <1>1 DEF Siblings
<1>3. DOMAIN t[p].children = 1 .. Len(t[p].children)
  BY <1>1, LenProperties
<1>4. \E i \in 1 .. Len(t[p].children) : t[p].children[i] = kid
  BY DEF Kids
<1> QED BY <1>1, <1>2, <1>3, <1>4 DEF Place

\* u is t with a new active vbuf id under p
Grown(t, u, id, p) ==
  /\ DOMAIN u = DOMAIN t \cup {id}
  /\ u[id].active = TRUE /\ u[id].parent = p /\ Kids(u[id]) = {}
  /\ Kids(u[p]) = Kids(t[p]) \cup {id}
  /\ \A w \in DOMAIN t : /\ u[w].active = t[w].active
                         /\ u[w].parent = t[w].parent
                         /\ w # p => Kids(u[w]) = Kids(t[w])

\* The list of the parent with the new vbuf in it.
LEMMA InsertKid ==
  ASSUME NEW row \in Seq(Nat), NEW id \in Nat, NEW at \in 1 .. Len(row) + 1,
         \A i \in 1 .. Len(row) : row[i] # id,
         \A i, j \in 1 .. Len(row) : row[i] = row[j] => i = j
  PROVE  LET new == InsertAt(row, at, id)
         IN  /\ new \in Seq(Nat)
             /\ \A i, j \in 1 .. Len(new) : new[i] = new[j] => i = j
             /\ {new[i] : i \in 1 .. Len(new)} = {row[i] : i \in 1 .. Len(row)} \cup {id}
<1> DEFINE new == InsertAt(row, at, id)
           n == Len(row)
           Old(i) == IF i < at THEN i ELSE i - 1
<1>1. n \in Nat /\ \A i \in 1 .. n : row[i] \in Nat
  BY LenProperties
<1>2. /\ new \in Seq(Nat)
      /\ Len(new) = n + 1
      /\ \A i \in 1 .. n + 1 :
           new[i] = IF i < at THEN row[i] ELSE IF i = at THEN id ELSE row[i - 1]
  BY InsertAtIs
<1> HIDE DEF new, n
<1>3. new[at] = id /\ at \in 1 .. n + 1
  BY <1>2 DEF n
<1>4. ASSUME NEW i \in 1 .. n + 1, i # at
      PROVE  Old(i) \in 1 .. n /\ new[i] = row[Old(i)]
  BY <1>1, <1>2, <1>3, <1>4
<1>5. ASSUME NEW i \in 1 .. n + 1, NEW j \in 1 .. n + 1, new[i] = new[j]
      PROVE  i = j
  <2>1. CASE i = at \/ j = at
    BY <1>3, <1>4, <1>5, <2>1 DEF n
  <2>2. CASE i # at /\ j # at
    <3>1. Old(i) = Old(j)
      BY <1>4, <1>5, <2>2 DEF n
    <3> QED BY <1>1, <1>3, <2>2, <3>1
  <2> QED BY <2>1, <2>2
<1>6. ASSUME NEW i \in 1 .. n
      PROVE  \E j \in 1 .. n + 1 : new[j] = row[i]
  <2>1. CASE i < at
    <3>1. i \in 1 .. n + 1 /\ new[i] = row[i]
      BY <1>1, <1>2, <2>1
    <3> QED BY <3>1
  <2>2. CASE i >= at
    <3>1. i + 1 \in 1 .. n + 1 /\ new[i + 1] = row[i]
      <4>1. i + 1 \in 1 .. n + 1 /\ ~(i + 1 < at) /\ i + 1 # at /\ i + 1 - 1 = i
        BY <1>1, <1>3, <2>2
      <4> QED BY <1>2, <4>1
    <3> QED BY <3>1
  <2> QED BY <1>3, <2>1, <2>2
<1>7. {new[i] : i \in 1 .. n + 1} = {row[i] : i \in 1 .. n} \cup {id}
  BY <1>3, <1>4, <1>6, SMTT(30)
<1> QED BY <1>2, <1>5, <1>7 DEF new, n

\* insert_new_vbuf links the new vbuf in, and moves no other.
LEMMA InsertLinks ==
  ASSUME NEW t, Linked(t), NEW p \in DOMAIN t, NEW before,
         before = Null \/ before \in Kids(t[p]),
         NEW start \in Int, NEW size \in Int, NEW type, NEW buf
  PROVE  LET u == InsertNewVbuf(t, p, before, start, size, type, buf)
         IN  Linked(u) /\ Grown(t, u, NewId(t), p)
<1> DEFINE id == NewId(t)
           kids == t[p].children
           at == IF before = Null THEN Len(kids) + 1 ELSE Place(t, before)
           new == [parent |-> p, children |-> <<>>, start |-> start, size |-> size,
                   buf_type |-> type, active |-> TRUE, buf |-> buf]
           row == InsertAt(kids, at, id)
           u == InsertNewVbuf(t, p, before, start, size, type, buf)
<1>1. id \in Nat \ {0} /\ \A v \in DOMAIN t : v \in Nat /\ v < id
  BY NewIdIs
<1>2. u = [w \in DOMAIN t \cup {id} |->
             CASE w = id -> new
               [] w = p  -> [t[w] EXCEPT !.children = row]
               [] OTHER  -> t[w]]
  BY DEF InsertNewVbuf
<1>3. kids \in Seq(Nat) /\ Len(kids) \in Nat
  BY LenProperties DEF Linked, IsVbuf
<1>4. at \in 1 .. Len(kids) + 1
  <2>1. CASE before = Null
    BY <1>3, <2>1
  <2>2. CASE before # Null
    BY <1>3, <2>2, PlaceIs
  <2> QED BY <2>1, <2>2
<1>5. /\ row \in Seq(Nat)
      /\ \A i, j \in 1 .. Len(row) : row[i] = row[j] => i = j
      /\ {row[i] : i \in 1 .. Len(row)} = Kids(t[p]) \cup {id}
  <2>1. \A i, j \in 1 .. Len(kids) : kids[i] = kids[j] => i = j
    BY DEF Linked
  <2>2. \A kid \in Kids(t[p]) : kid \in DOMAIN t
    BY DEF Linked
  <2>3. \A i \in 1 .. Len(kids) : kids[i] # id
    BY <1>1, <2>2 DEF Kids
  <2> HIDE DEF kids, at, id
  <2>4. id \in Nat
    BY <1>1
  <2>5. /\ row \in Seq(Nat)
        /\ \A i, j \in 1 .. Len(row) : row[i] = row[j] => i = j
        /\ {row[i] : i \in 1 .. Len(row)} = {kids[i] : i \in 1 .. Len(kids)} \cup {id}
    BY <1>3, <1>4, <2>1, <2>3, <2>4, InsertKid, ZenonT(40)
  <2> QED BY <2>5 DEF Kids, kids
<1> HIDE DEF id, row, at, u, new
<1>6. p # id /\ id \notin DOMAIN t
  BY <1>1
<1>7. u[id] = new
  BY <1>2, <1>6
<1>8. \A w \in DOMAIN t : w # p => u[w] = t[w]
  BY <1>2, <1>6
<1>9. u[p] = [t[p] EXCEPT !.children = row]
  BY <1>2, <1>6
<1>10. /\ IsVbuf(u[p])
       /\ u[p].children = row /\ u[p].parent = t[p].parent /\ u[p].active = t[p].active
  <2> DEFINE vb == t[p]
  <2>1. IsVbuf(vb)
    BY DEF Linked
  <2> HIDE DEF vb
  <2>2. u[p] = [vb EXCEPT !.children = row]
    BY <1>9 DEF vb
  <2>3. u[p] = [parent |-> vb.parent, children |-> row, start |-> vb.start,
                size |-> vb.size, buf_type |-> vb.buf_type, active |-> vb.active,
                buf |-> vb.buf]
    BY <2>1, <2>2 DEF IsVbuf
  <2>4. IsVbuf(u[p])
    BY <1>5, <2>1, <2>3 DEF IsVbuf
  <2> QED BY <2>3, <2>4 DEF vb
<1>11. IsVbuf(u[id]) /\ u[id].active = TRUE /\ u[id].parent = p /\ u[id].children = <<>>
  BY <1>7 DEF IsVbuf, new
<1>12. Kids(u[id]) = {} /\ Len(u[id].children) = 0
  BY <1>11 DEF Kids
<1>13. Kids(u[p]) = Kids(t[p]) \cup {id}
  BY <1>5, <1>10 DEF Kids
<1>14. Grown(t, u, id, p)
  <2>1. DOMAIN u = DOMAIN t \cup {id}
    BY <1>2
  <2>2. ASSUME NEW w \in DOMAIN t
        PROVE  /\ u[w].active = t[w].active
               /\ u[w].parent = t[w].parent
               /\ w # p => Kids(u[w]) = Kids(t[w])
    BY <1>8, <1>10
  <2> QED BY <1>11, <1>12, <1>13, <2>1, <2>2 DEF Grown
<1>15. Root \in DOMAIN u /\ \E b \in Nat : DOMAIN u \subseteq 0 .. b
  <2>1. DOMAIN u \subseteq 0 .. id
    BY <1>1, <1>2
  <2> QED BY <1>1, <1>2, <2>1 DEF Linked
<1>16. u = [v \in DOMAIN u |-> u[v]]
  BY <1>2
<1>17. ASSUME NEW v \in DOMAIN u
       PROVE  /\ IsVbuf(u[v])
              /\ \A i, j \in 1 .. Len(u[v].children) : u[v].children[i] = u[v].children[j] => i = j
              /\ \A kid \in Kids(u[v]) : kid \in DOMAIN u /\ v < kid /\ u[kid].parent = v
              /\ v # Root => u[v].parent \in DOMAIN u /\ v \in Kids(u[u[v].parent])
  <2>1. CASE v = id
    BY <1>11, <1>12, <1>13, <1>14, <2>1 DEF Grown
  <2>2. CASE v \in DOMAIN t
    <3>1. IsVbuf(u[v])
      BY <1>8, <1>10, <2>2 DEF Linked
    <3>2. \A i, j \in 1 .. Len(u[v].children) : u[v].children[i] = u[v].children[j] => i = j
      <4>1. CASE v = p
        BY <1>5, <1>10, <4>1
      <4>2. CASE v # p
        BY <1>8, <2>2, <4>2 DEF Linked
      <4> QED BY <4>1, <4>2
    <3>3. ASSUME NEW kid \in Kids(u[v])
          PROVE  kid \in DOMAIN u /\ v < kid /\ u[kid].parent = v
      <4>1. CASE kid = id
        <5>1. v = p
          <6>1. v # p => kid \in Kids(t[v])
            BY <1>14, <2>2 DEF Grown
          <6>2. kid \in Kids(t[v]) => kid \in DOMAIN t
            BY <2>2 DEF Linked
          <6> QED BY <1>6, <4>1, <6>1, <6>2
        <5> QED BY <1>1, <1>11, <1>14, <4>1, <5>1 DEF Grown
      <4>2. CASE kid # id
        <5>1. kid \in Kids(t[v])
          BY <1>13, <1>14, <2>2, <4>2 DEF Grown
        <5>2. kid \in DOMAIN t /\ v < kid /\ t[kid].parent = v
          BY <2>2, <5>1 DEF Linked
        <5> QED BY <1>14, <5>2 DEF Grown
      <4> QED BY <4>1, <4>2
    <3>4. ASSUME v # Root
          PROVE  u[v].parent \in DOMAIN u /\ v \in Kids(u[u[v].parent])
      <4>1. t[v].parent \in DOMAIN t /\ v \in Kids(t[t[v].parent])
        BY <2>2, <3>4 DEF Linked
      <4>2. u[v].parent = t[v].parent
        BY <1>14, <2>2 DEF Grown
      <4>3. Kids(t[t[v].parent]) \subseteq Kids(u[t[v].parent])
        BY <1>13, <1>14, <4>1 DEF Grown
      <4> QED BY <1>14, <4>1, <4>2, <4>3 DEF Grown
    <3> QED BY <3>1, <3>2, <3>3, <3>4
  <2> QED BY <1>14, <2>1, <2>2 DEF Grown
<1>18. Linked(u)
  BY <1>15, <1>16, <1>17 DEF Linked
<1> QED BY <1>14, <1>18 DEF u, id

\* u is t without the vbufs gone
Shrunk(t, u, gone) ==
  /\ DOMAIN u = DOMAIN t \ gone
  /\ \A w \in DOMAIN u : u[w].active = t[w].active /\ u[w].parent = t[w].parent

\* The list of the parent without the freed vbuf.
LEMMA RemoveKid ==
  ASSUME NEW row \in Seq(Nat), NEW at \in 1 .. Len(row),
         \A i, j \in 1 .. Len(row) : row[i] = row[j] => i = j
  PROVE  LET new == RemoveAt(row, at)
         IN  /\ new \in Seq(Nat)
             /\ \A i, j \in 1 .. Len(new) : new[i] = new[j] => i = j
             /\ {new[i] : i \in 1 .. Len(new)} = {row[i] : i \in 1 .. Len(row)} \ {row[at]}
<1> DEFINE new == RemoveAt(row, at)
           n == Len(row)
           Old(i) == IF i < at THEN i ELSE i + 1
<1>1. n \in Nat /\ at \in 1 .. n
  BY LenProperties
<1>2. /\ new \in Seq(Nat)
      /\ Len(new) = n - 1
      /\ \A i \in 1 .. n - 1 : new[i] = IF i < at THEN row[i] ELSE row[i + 1]
  BY RemoveAtIs
<1> HIDE DEF new, n
<1>3. ASSUME NEW i \in 1 .. n - 1
      PROVE  Old(i) \in 1 .. n /\ Old(i) # at /\ new[i] = row[Old(i)]
  BY <1>1, <1>2
<1>4. ASSUME NEW i \in 1 .. n - 1, NEW j \in 1 .. n - 1, new[i] = new[j]
      PROVE  i = j
  <2>1. Old(i) = Old(j)
    BY <1>3, <1>4 DEF n
  <2> QED BY <1>1, <2>1
<1>5. ASSUME NEW i \in 1 .. n, i # at
      PROVE  \E j \in 1 .. n - 1 : new[j] = row[i]
  <2>1. CASE i < at
    <3>1. i \in 1 .. n - 1 /\ new[i] = row[i]
      BY <1>1, <1>2, <2>1
    <3> QED BY <3>1
  <2>2. CASE i > at
    <3>1. i - 1 \in 1 .. n - 1 /\ ~(i - 1 < at) /\ i - 1 + 1 = i
      BY <1>1, <2>2
    <3>2. new[i - 1] = row[i]
      BY <1>2, <3>1
    <3> QED BY <3>1, <3>2
  <2> QED BY <1>1, <1>5, <2>1, <2>2
<1>6. {new[i] : i \in 1 .. n - 1} = {row[i] : i \in 1 .. n} \ {row[at]}
  <2>1. ASSUME NEW i \in 1 .. n - 1
        PROVE  new[i] \in {row[k] : k \in 1 .. n} \ {row[at]}
    <3>1. Old(i) \in 1 .. n /\ Old(i) # at /\ new[i] = row[Old(i)]
      BY <1>3
    <3>2. row[Old(i)] # row[at]
      BY <1>1, <3>1 DEF n
    <3> HIDE DEF Old
    <3> QED BY <3>1, <3>2
  <2>2. ASSUME NEW i \in 1 .. n, row[i] # row[at]
        PROVE  row[i] \in {new[j] : j \in 1 .. n - 1}
    <3>1. PICK j \in 1 .. n - 1 : new[j] = row[i]
      BY <1>5, <2>2
    <3> QED BY <3>1
  <2> QED BY <2>1, <2>2
<1> QED BY <1>2, <1>4, <1>6 DEF new, n

\* prune unlinks and frees an undone vbuf that has none under it.
LEMMA FreeLinks ==
  ASSUME NEW t, Linked(t), NEW v \in DOMAIN t \ {Root},
         Kids(t[v]) = {}, t[v].active = FALSE
  PROVE  Linked(FreeVbuf(t, v)) /\ Shrunk(t, FreeVbuf(t, v), {v})
<1> DEFINE u == FreeVbuf(t, v)
           p == t[v].parent
           kids == t[p].children
           row == RemoveAt(kids, Place(t, v))
<1>1. p \in DOMAIN t /\ v \in Kids(t[p]) /\ p # v
  <2>1. p \in DOMAIN t /\ v \in Kids(t[p])
    BY DEF Linked
  <2>2. p # v
    BY <2>1
  <2> QED BY <2>1, <2>2
<1>2. t[v].children = <<>>
  <2>1. t[v].children \in Seq(Nat) /\ Len(t[v].children) \in Nat
    BY LenProperties DEF Linked, IsVbuf
  <2>2. Len(t[v].children) = 0
    <3>1. CASE Len(t[v].children) # 0
      <4>1. 1 \in 1 .. Len(t[v].children)
        BY <2>1, <3>1
      <4>2. t[v].children[1] \in Kids(t[v])
        BY <4>1 DEF Kids
      <4> QED BY <4>2
    <3> QED BY <3>1
  <2> QED BY <2>1, <2>2, EmptySeq
<1>3. u = [w \in DOMAIN t \ {v} |-> IF w = p THEN [t[w] EXCEPT !.children = row] ELSE t[w]]
  <2>1. Siblings(t, v) = kids
    BY DEF Siblings
  <2> QED BY <1>2 DEF FreeVbuf
<1>4. /\ row \in Seq(Nat)
      /\ \A i, j \in 1 .. Len(row) : row[i] = row[j] => i = j
      /\ {row[i] : i \in 1 .. Len(row)} = Kids(t[p]) \ {v}
  <2> DEFINE at == Place(t, v)
  <2>1. at \in 1 .. Len(kids) /\ kids[at] = v
    BY <1>1, PlaceIs
  <2>2. kids \in Seq(Nat) /\ \A i, j \in 1 .. Len(kids) : kids[i] = kids[j] => i = j
    BY <1>1 DEF Linked, IsVbuf
  <2> HIDE DEF kids, at
  <2>3. /\ row \in Seq(Nat)
        /\ \A i, j \in 1 .. Len(row) : row[i] = row[j] => i = j
        /\ {row[i] : i \in 1 .. Len(row)} = {kids[i] : i \in 1 .. Len(kids)} \ {kids[at]}
    BY <2>1, <2>2, RemoveKid DEF at
  <2> QED BY <2>1, <2>3 DEF Kids, kids
<1> HIDE DEF u, row
<1>5. \A w \in DOMAIN t \ {v} : w # p => u[w] = t[w]
  BY <1>3
<1>6. /\ IsVbuf(u[p])
      /\ u[p].children = row /\ u[p].parent = t[p].parent /\ u[p].active = t[p].active
  <2> DEFINE vb == t[p]
  <2>1. IsVbuf(vb)
    BY <1>1 DEF Linked
  <2>2. u[p] = [vb EXCEPT !.children = row]
    BY <1>1, <1>3
  <2> HIDE DEF vb
  <2>3. u[p] = [parent |-> vb.parent, children |-> row, start |-> vb.start,
                size |-> vb.size, buf_type |-> vb.buf_type, active |-> vb.active,
                buf |-> vb.buf]
    BY <2>1, <2>2 DEF IsVbuf
  <2>4. IsVbuf(u[p])
    BY <1>4, <2>1, <2>3 DEF IsVbuf
  <2> QED BY <2>3, <2>4 DEF vb
<1>7. Kids(u[p]) = Kids(t[p]) \ {v}
  BY <1>4, <1>6 DEF Kids
<1>8. DOMAIN u = DOMAIN t \ {v} /\ u = [w \in DOMAIN u |-> u[w]]
  BY <1>3
<1>9. Shrunk(t, u, {v})
  BY <1>5, <1>6, <1>8 DEF Shrunk
<1>10. Root \in DOMAIN u /\ \E b \in Nat : DOMAIN u \subseteq 0 .. b
  BY <1>8 DEF Linked
<1>11. ASSUME NEW w \in DOMAIN u
       PROVE  /\ IsVbuf(u[w])
              /\ \A i, j \in 1 .. Len(u[w].children) : u[w].children[i] = u[w].children[j] => i = j
              /\ \A kid \in Kids(u[w]) : kid \in DOMAIN u /\ w < kid /\ u[kid].parent = w
              /\ w # Root => u[w].parent \in DOMAIN u /\ w \in Kids(u[u[w].parent])
  <2>1. w \in DOMAIN t /\ w # v
    BY <1>8
  <2>2. IsVbuf(u[w])
    BY <1>5, <1>6, <2>1 DEF Linked
  <2>3. \A i, j \in 1 .. Len(u[w].children) : u[w].children[i] = u[w].children[j] => i = j
    <3>1. CASE w = p
      BY <1>4, <1>6, <3>1
    <3>2. CASE w # p
      BY <1>5, <2>1, <3>2 DEF Linked
    <3> QED BY <3>1, <3>2
  <2>4. ASSUME NEW kid \in Kids(u[w])
        PROVE  kid \in DOMAIN u /\ w < kid /\ u[kid].parent = w
    <3>1. kid \in Kids(t[w])
      BY <1>5, <1>7, <2>1
    <3>2. kid \in DOMAIN t /\ w < kid /\ t[kid].parent = w
      BY <2>1, <3>1 DEF Linked
    <3>3. kid # v
      BY <1>7, <3>2
    <3> QED BY <1>8, <1>9, <3>2, <3>3 DEF Shrunk
  <2>5. ASSUME w # Root
        PROVE  u[w].parent \in DOMAIN u /\ w \in Kids(u[u[w].parent])
    <3>1. t[w].parent \in DOMAIN t /\ w \in Kids(t[t[w].parent])
      BY <2>1, <2>5 DEF Linked
    <3>2. t[w].parent # v
      BY <3>1
    <3>3. u[w].parent = t[w].parent
      BY <1>9 DEF Shrunk
    <3>4. w \in Kids(u[t[w].parent])
      <4>1. CASE t[w].parent = p
        BY <1>7, <2>1, <3>1, <4>1
      <4>2. CASE t[w].parent # p
        BY <1>5, <3>1, <3>2, <4>2
      <4> QED BY <4>1, <4>2
    <3> QED BY <1>8, <3>1, <3>2, <3>3, <3>4
  <2> QED BY <2>2, <2>3, <2>4, <2>5
<1>12. Linked(u)
  BY <1>8, <1>10, <1>11 DEF Linked
<1> QED BY <1>9, <1>12 DEF u

(***************************************************************************)
(* Folds.                                                                  *)
(***************************************************************************)
\* The loops of prune, vf_undo and vf_redo: over the vbufs of an entry, and over
\* the entries
FreeAll(t, list) == FoldLeft(FreeVbuf, t, list)
PruneAll(t, entries) == FoldLeft(FreeEntry, t, entries)
SwitchList(t, list, on) == FoldLeft(LAMBDA u, v : Switch(u, v, on), t, list)

\* The trees prune goes through while it frees the vbufs of an entry.
FreeRun(t, list, n, s) ==
  /\ s[0] = t
  /\ \A k \in 1 .. n : s[k] = FreeVbuf(s[k - 1], list[k])
  /\ s[n] = FreeAll(t, list)

\* There are such trees.
LEMMA FreeRuns ==
  ASSUME NEW t, NEW list, NEW n \in Nat, DOMAIN list = 1 .. n
  PROVE  \E s : FreeRun(t, list, n, s)
<1>1. \E s : Freeing!Chain(0, 0, 0, t, list, n, s)
  BY Freeing!FoldChain
<1>2. FreeAll(t, list) = Freeing!Fold(0, 0, 0, t, list)
  BY DEF Freeing!Fold, Freeing!Top, FoldLeft, MapThenFoldSet, Max, FreeStep, FreeAll
<1> QED BY <1>1, <1>2 DEF Freeing!Chain, FreeRun, FreeStep

\* The trees prune goes through, entry by entry.
PruneRun(t, list, n, s) ==
  /\ s[0] = t
  /\ \A k \in 1 .. n : s[k] = FreeEntry(s[k - 1], list[k])
  /\ s[n] = PruneAll(t, list)

\* There are such trees.
LEMMA PruneRuns ==
  ASSUME NEW t, NEW list, NEW n \in Nat, DOMAIN list = 1 .. n
  PROVE  \E s : PruneRun(t, list, n, s)
<1>1. \E s : Pruning!Chain(0, 0, 0, t, list, n, s)
  BY Pruning!FoldChain
<1>2. PruneAll(t, list) = Pruning!Fold(0, 0, 0, t, list)
  BY DEF Pruning!Fold, Pruning!Top, FoldLeft, MapThenFoldSet, Max, FreeEntryStep, PruneAll
<1> QED BY <1>1, <1>2 DEF Pruning!Chain, PruneRun, FreeEntryStep

\* The trees vf_undo and vf_redo go through for one entry.
SwitchRun(on, t, list, n, s) ==
  /\ s[0] = t
  /\ \A k \in 1 .. n : s[k] = Switch(s[k - 1], list[k], on)
  /\ s[n] = SwitchList(t, list, on)

\* There are such trees.
LEMMA SwitchRuns ==
  ASSUME NEW on, NEW t, NEW list, NEW n \in Nat, DOMAIN list = 1 .. n
  PROVE  \E s : SwitchRun(on, t, list, n, s)
<1>1. \E s : Switching!Chain(on, 0, 0, t, list, n, s)
  BY Switching!FoldChain
<1>2. SwitchList(t, list, on) = Switching!Fold(on, 0, 0, t, list)
  BY DEF Switching!Fold, Switching!Top, FoldLeft, MapThenFoldSet, Max, SwitchStep, SwitchList
<1> QED BY <1>1, <1>2 DEF Switching!Chain, SwitchRun, SwitchStep

\* The trees vf_undo and vf_redo go through, entry by entry.
SwitchAllRun(on, t, list, n, s) ==
  /\ s[0] = t
  /\ \A k \in 1 .. n : s[k] = SwitchEntry(s[k - 1], list[k], on)
  /\ s[n] = SwitchAll(t, list, on)

\* There are such trees.
LEMMA SwitchAllRuns ==
  ASSUME NEW on, NEW t, NEW list, NEW n \in Nat, DOMAIN list = 1 .. n
  PROVE  \E s : SwitchAllRun(on, t, list, n, s)
<1>1. \E s : Undoing!Chain(on, 0, 0, t, list, n, s)
  BY Undoing!FoldChain
<1>2. SwitchAll(t, list, on) = Undoing!Fold(on, 0, 0, t, list)
  BY DEF Undoing!Fold, Undoing!Top, FoldLeft, MapThenFoldSet, Max, SwitchEntryStep, SwitchAll
<1> QED BY <1>1, <1>2 DEF Undoing!Chain, SwitchAllRun, SwitchEntryStep

\* The trees _replace goes through, piece by piece.
ReplaceRun(buf, offset, t, list, n, s) ==
  /\ s[0] = t
  /\ \A k \in 1 .. n : s[k] = Put(buf, offset, s[k - 1], list[k])
  /\ s[n] = Replace(t, buf, offset, list)

\* There are such trees.
LEMMA ReplaceRuns ==
  ASSUME NEW buf, NEW offset, NEW t, NEW list, NEW n \in Nat, DOMAIN list = 1 .. n
  PROVE  \E s : ReplaceRun(buf, offset, t, list, n, s)
<1>1. \E s : Putting!Chain(buf, offset, 0, t, list, n, s)
  BY Putting!FoldChain
<1>2. Replace(t, buf, offset, list) = Putting!Fold(buf, offset, 0, t, list)
  BY DEF Putting!Fold, Putting!Top, FoldLeft, MapThenFoldSet, Max, PutStep, Replace
<1> QED BY <1>1, <1>2 DEF Putting!Chain, ReplaceRun, PutStep

\* The trees _delete goes through, piece by piece.
DeleteRun(offset, t, list, n, s) ==
  /\ s[0] = t
  /\ \A k \in 1 .. n : s[k] = Cut(offset, s[k - 1], list[k])
  /\ s[n] = Delete(t, offset, list)

\* There are such trees.
LEMMA DeleteRuns ==
  ASSUME NEW offset, NEW t, NEW list, NEW n \in Nat, DOMAIN list = 1 .. n
  PROVE  \E s : DeleteRun(offset, t, list, n, s)
<1>1. \E s : Cutting!Chain(0, offset, 0, t, list, n, s)
  BY Cutting!FoldChain
<1>2. Delete(t, offset, list) = Cutting!Fold(0, offset, 0, t, list)
  BY DEF Cutting!Fold, Cutting!Top, FoldLeft, MapThenFoldSet, Max, CutStep, Delete
<1> QED BY <1>1, <1>2 DEF Cutting!Chain, DeleteRun, CutStep

\* The loop of the walk over the children of v
Loop(t, walk, v, base, kids) ==
  FoldLeft(LAMBDA acc, kid : Visit(t, walk, v, acc, kid), base, kids)

\* The states the walk goes through, child by child.
LoopRun(t, walk, v, base, kids, n, s) ==
  /\ s[0] = base
  /\ \A k \in 1 .. n : s[k] = Visit(t, walk, v, s[k - 1], kids[k])
  /\ s[n] = Loop(t, walk, v, base, kids)

\* There are such states.
LEMMA LoopRuns ==
  ASSUME NEW t, NEW walk, NEW v, NEW base, NEW kids, NEW n \in Nat, DOMAIN kids = 1 .. n
  PROVE  \E s : LoopRun(t, walk, v, base, kids, n, s)
<1>1. \E s : Visiting!Chain(t, walk, v, base, kids, n, s)
  BY Visiting!FoldChain
<1>2. Loop(t, walk, v, base, kids) = Visiting!Fold(t, walk, v, base, kids)
  BY DEF Visiting!Fold, Visiting!Top, FoldLeft, MapThenFoldSet, Max, Loop
<1> QED BY <1>1, <1>2 DEF Visiting!Chain, LoopRun

(***************************************************************************)
(* Sums.                                                                   *)
(***************************************************************************)

\* base and what the vbufs of a list add
SumOver(t, base, kids) == FoldLeft(LAMBDA acc, kid : acc + Gain(t[kid]), base, kids)

\* The sums on the way.
SumRun(t, base, kids, n, s) ==
  /\ s[0] = base
  /\ \A k \in 1 .. n : s[k] = s[k - 1] + Gain(t[kids[k]])
  /\ s[n] = SumOver(t, base, kids)

\* There are such sums.
LEMMA SumRuns ==
  ASSUME NEW t, NEW base, NEW kids, NEW n \in Nat, DOMAIN kids = 1 .. n
  PROVE  \E s : SumRun(t, base, kids, n, s)
<1>1. \E s : Summing!Chain(t, 0, 0, base, kids, n, s)
  BY Summing!FoldChain
<1>2. SumOver(t, base, kids) = Summing!Fold(t, 0, 0, base, kids)
  BY DEF Summing!Fold, Summing!Top, FoldLeft, MapThenFoldSet, Max, SumStep, SumOver
<1> QED BY <1>1, <1>2 DEF Summing!Chain, SumRun, SumStep

\* The vbufs of the list add the same in both trees, but for one, or none, that
\* adds d more
GainMoves(t, u, kids, n, j, d) ==
  \A k \in 1 .. n : /\ Gain(t[kids[k]]) \in Int
                    /\ Gain(u[kids[k]]) = Gain(t[kids[k]]) + IF k = j THEN d ELSE 0

SameGains(t, u, kids, n) ==
  \A k \in 1 .. n : Gain(t[kids[k]]) \in Int /\ Gain(u[kids[k]]) = Gain(t[kids[k]])

\* row is kids with one vbuf more, at p
OneIn(kids, row, p, m) ==
  \A k \in 1 .. m : /\ k < p => row[k] = kids[k]
                    /\ k > p => row[k] = kids[k - 1]

LEMMA PutIn ==
  ASSUME NEW kids \in Seq(Nat), NEW id \in Nat, NEW at \in 1 .. Len(kids) + 1
  PROVE  \A row : row = InsertAt(kids, at, id) =>
           /\ row \in Seq(Nat) /\ Len(row) = Len(kids) + 1
           /\ row[at] = id /\ OneIn(kids, row, at, Len(kids) + 1)
<1> DEFINE row == InsertAt(kids, at, id)
<1>1. /\ row \in Seq(Nat)
      /\ Len(row) = Len(kids) + 1
      /\ \A i \in 1 .. Len(kids) + 1 :
           row[i] = IF i < at THEN kids[i] ELSE IF i = at THEN id ELSE kids[i - 1]
  BY InsertAtIs
<1> HIDE DEF row
<1>2. Len(kids) \in Nat
  BY LenProperties
<1>3. row[at] = id
  BY <1>1, <1>2
<1>4. OneIn(kids, row, at, Len(kids) + 1)
  BY <1>1, <1>2 DEF OneIn
<1> QED BY <1>1, <1>3, <1>4 DEF row

\* When one vbuf of the list, or none, adds d more, so does the list.
LEMMA SumMoves ==
  ASSUME NEW t, NEW u, NEW base \in Int, NEW n \in Nat, NEW kids, DOMAIN kids = 1 .. n,
         NEW j \in 0 .. n, NEW d \in Int,
         GainMoves(t, u, kids, n, j, d)
  PROVE  /\ SumOver(t, base, kids) \in Int
         /\ SumOver(u, base, kids) = SumOver(t, base, kids) + IF j = 0 THEN 0 ELSE d
<1>1. PICK s : SumRun(t, base, kids, n, s)
  BY SumRuns
<1>2. PICK z : SumRun(u, base, kids, n, z)
  BY SumRuns
<1> DEFINE S == {k \in 0 .. n : s[k] \in Int /\ z[k] = s[k] + IF 1 <= j /\ j <= k THEN d ELSE 0}
<1>3. 0 \in S
  BY <1>1, <1>2 DEF SumRun
<1>4. ASSUME NEW k \in 0 .. n - 1, k \in S
      PROVE  k + 1 \in S
  <2> DEFINE i == k + 1
             a == Gain(t[kids[i]])
             b == Gain(u[kids[i]])
  <2>1. /\ i \in 1 .. n /\ i - 1 = k /\ s[k] \in Int
        /\ z[k] = s[k] + IF 1 <= j /\ j <= k THEN d ELSE 0
    BY <1>4
  <2>2. (1 <= j /\ j <= i) <=> ((1 <= j /\ j <= k) \/ i = j)
    BY <2>1
  <2>3. ~(j <= k /\ i = j)
    BY <1>4
  <2> HIDE DEF i, S
  <2>4. a \in Int /\ b = a + IF i = j THEN d ELSE 0
    BY <2>1 DEF GainMoves
  <2>5. s[i] = s[i - 1] + a /\ z[i] = z[i - 1] + b
    BY <1>1, <1>2, <2>1 DEF SumRun
  <2> HIDE DEF a, b
  <2>6. s[i] = s[k] + a /\ z[i] = z[k] + b
    BY <2>1, <2>5
  <2>7. s[i] \in Int
    BY <2>1, <2>4, <2>6
  <2>8. z[i] = s[i] + IF 1 <= j /\ j <= i THEN d ELSE 0
    BY <2>1, <2>2, <2>3, <2>4, <2>6
  <2> QED BY <2>1, <2>7, <2>8 DEF i, S
<1>5. n \in S
  <2> HIDE DEF S
  <2>1. 0 .. n \subseteq S
    BY <1>3, <1>4, UpTo
  <2> QED BY <2>1
<1>6. s[n] \in Int /\ z[n] = s[n] + IF 1 <= j /\ j <= n THEN d ELSE 0
  BY <1>5
<1> QED BY <1>1, <1>2, <1>6 DEF SumRun

\* A vbuf that adds nothing may stand in the list or not.
LEMMA SumSkips ==
  ASSUME NEW t, NEW u, NEW base \in Int, NEW n \in Nat, NEW m \in Nat, m = n + 1,
         NEW kids, DOMAIN kids = 1 .. n, NEW row, DOMAIN row = 1 .. m, NEW p \in 1 .. m,
         OneIn(kids, row, p, m), SameGains(t, u, kids, n),
         Gain(u[row[p]]) = 0
  PROVE  SumOver(u, base, row) = SumOver(t, base, kids)
<1>1. PICK s : SumRun(t, base, kids, n, s)
  BY SumRuns
<1>2. PICK z : SumRun(u, base, row, m, z)
  BY SumRuns
<1> DEFINE S == {k \in 0 .. m : /\ k < p => s[k] \in Int /\ z[k] = s[k]
                                /\ k >= p => s[k - 1] \in Int /\ z[k] = s[k - 1]}
<1>3. 0 \in S
  BY <1>1, <1>2 DEF SumRun
<1>4. ASSUME NEW k \in 0 .. m - 1, k \in S
      PROVE  k + 1 \in S
  <2> DEFINE i == k + 1
  <2>a. /\ k < p => s[k] \in Int /\ z[k] = s[k]
        /\ k >= p => s[k - 1] \in Int /\ z[k] = s[k - 1]
    BY <1>4
  <2> HIDE DEF S
  <2>b. i \in 1 .. m /\ i - 1 = k
    OBVIOUS
  <2>1. /\ i \in 1 .. m /\ i - 1 = k
        /\ k < p => s[k] \in Int /\ z[k] = s[k]
        /\ k >= p => s[k - 1] \in Int /\ z[k] = s[k - 1]
    BY <2>a, <2>b
  <2>2. z[i] = z[k] + Gain(u[row[i]])
    <3> HIDE DEF i
    <3>1. z[i] = z[i - 1] + Gain(u[row[i]])
      BY <1>2, <2>1 DEF SumRun
    <3> QED BY <2>1, <3>1
  <2>3. CASE i < p
    <3>1. i \in 1 .. n /\ k < p /\ row[i] = kids[i]
      BY <2>1, <2>3 DEF OneIn
    <3> HIDE DEF i
    <3>2. s[i] = s[i - 1] + Gain(t[kids[i]])
      BY <1>1, <3>1 DEF SumRun
    <3>3. Gain(u[row[i]]) = Gain(t[kids[i]]) /\ Gain(t[kids[i]]) \in Int
      BY <3>1 DEF SameGains
    <3>4. s[i] \in Int /\ z[i] = s[i]
      BY <2>1, <2>2, <3>1, <3>2, <3>3
    <3> QED BY <2>1, <2>3, <3>4 DEF i, S
  <2>4. CASE i = p
    <3>1. s[k] \in Int /\ z[k] = s[k] /\ Gain(u[row[i]]) = 0
      BY <2>1, <2>4
    <3> HIDE DEF i
    <3>2. z[i] = s[i - 1] /\ s[i - 1] \in Int
      BY <2>1, <2>2, <3>1
    <3> QED BY <2>1, <2>4, <3>2 DEF i, S
  <2>5. CASE i > p
    <3>1. k \in 1 .. n /\ k >= p /\ row[i] = kids[k]
      BY <2>1, <2>5 DEF OneIn
    <3>2. s[k] = s[k - 1] + Gain(t[kids[k]])
      BY <1>1, <3>1 DEF SumRun
    <3>3. Gain(u[row[i]]) = Gain(t[kids[k]]) /\ Gain(t[kids[k]]) \in Int
      BY <3>1 DEF SameGains
    <3>4. s[k - 1] \in Int /\ z[k] = s[k - 1]
      BY <2>1, <3>1
    <3> HIDE DEF i
    <3>5. s[k] \in Int /\ z[i] = s[k]
      BY <2>2, <3>2, <3>3, <3>4
    <3>6. s[i - 1] \in Int /\ z[i] = s[i - 1]
      BY <2>1, <3>5
    <3> QED BY <2>1, <2>5, <3>6 DEF i, S
  <2> QED BY <2>1, <2>3, <2>4, <2>5
<1>5. m \in S
  <2> HIDE DEF S
  <2>1. 0 .. m \subseteq S
    BY <1>3, <1>4, UpTo
  <2> QED BY <2>1
<1>6. z[m] = s[n]
  <2>1. m >= p => z[m] = s[m - 1]
    BY <1>5
  <2> HIDE DEF S
  <2>2. m - 1 = n /\ m >= p
    OBVIOUS
  <2> QED BY <2>1, <2>2
<1> QED BY <1>1, <1>2, <1>6 DEF SumRun

\* A list whose vbufs add what they did adds what it did.
LEMMA SumSame ==
  ASSUME NEW t, NEW u, NEW base \in Int, NEW n \in Nat, NEW kids, DOMAIN kids = 1 .. n,
         SameGains(t, u, kids, n)
  PROVE  SumOver(u, base, kids) = SumOver(t, base, kids)
<1>1. 0 \in 0 .. n /\ 0 \in Int
  OBVIOUS
<1>2. GainMoves(t, u, kids, n, 0, 0)
  BY DEF SameGains, GainMoves
<1>3. /\ SumOver(t, base, kids) \in Int
      /\ SumOver(u, base, kids) = SumOver(t, base, kids) + IF 0 = 0 THEN 0 ELSE 0
  BY <1>1, <1>2, SumMoves
<1> QED BY <1>3

\* What a vbuf adds is in its fields.
LEMMA GainSame ==
  ASSUME NEW a, NEW b, a.size = b.size, a.buf_type = b.buf_type, a.buf = b.buf,
         a.active = b.active
  PROVE  Gain(a) = Gain(b) /\ (HasBytes(a) <=> HasBytes(b))
BY DEF Gain, HasBytes

\* A list of undone vbufs adds nothing.
LEMMA SumOfUndone ==
  ASSUME NEW t, NEW base \in Int, NEW n \in Nat, NEW kids, DOMAIN kids = 1 .. n,
         \A k \in 1 .. n : Gain(t[kids[k]]) = 0
  PROVE  SumOver(t, base, kids) = base
<1>1. PICK s : SumRun(t, base, kids, n, s)
  BY SumRuns
<1> DEFINE S == {k \in 0 .. n : s[k] = base}
<1>2. 0 \in S
  BY <1>1 DEF SumRun
<1>3. ASSUME NEW k \in 0 .. n - 1, k \in S
      PROVE  k + 1 \in S
  <2>1. k + 1 \in 1 .. n /\ k + 1 - 1 = k /\ s[k] = base
    BY <1>3
  <2> DEFINE i == k + 1
  <2> HIDE DEF i
  <2>2. i \in 1 .. n /\ i - 1 = k
    BY <2>1 DEF i
  <2>3. s[i] = s[i - 1] + Gain(t[kids[i]]) /\ Gain(t[kids[i]]) = 0
    BY <1>1, <2>2 DEF SumRun
  <2>4. s[i] = base
    BY <2>1, <2>2, <2>3
  <2> QED BY <2>1, <2>4 DEF i
<1>4. n \in S
  <2> HIDE DEF S
  <2>1. 0 .. n \subseteq S
    BY <1>2, <1>3, UpTo
  <2> QED BY <2>1
<1> QED BY <1>1, <1>4 DEF SumRun

\* An empty list adds nothing.
LEMMA SumOfNone ==
  ASSUME NEW t, NEW base \in Int, NEW kids, DOMAIN kids = 1 .. 0
  PROVE  SumOver(t, base, kids) = base
<1>1. PICK s : SumRun(t, base, kids, 0, s)
  BY SumRuns
<1> QED BY <1>1 DEF SumRun

(***************************************************************************)
(* The sizes.                                                              *)
(***************************************************************************)

\* Types, and a vbuf without bytes has none under it
Typed(t) ==
  \A v \in DOMAIN t :
    /\ Len(t[v].buf) \in Nat
    /\ t[v].active \in BOOLEAN
    /\ t[v].buf_type \in IF v = Root THEN {"FILE"} ELSE {"INSERT", "REPLACE", "DELETE"}
    /\ ~HasBytes(t[v]) => Kids(t[v]) = {}

Balanced(t) ==
  \A v \in DOMAIN t :
    HasBytes(t[v]) => t[v].size = SumOver(t, Len(t[v].buf), t[v].children)

Sized(t) == Typed(t) /\ Balanced(t)

\* What a vbuf adds is a number.
LEMMA GainIs ==
  ASSUME NEW t, Linked(t), Typed(t), NEW w \in DOMAIN t \ {Root}
  PROVE  Gain(t[w]) \in Int
<1>1. t[w].size \in Int /\ -t[w].size \in Int
  BY DEF Linked, IsVbuf
<1>2. /\ Len(t[w].buf) \in Nat
      /\ t[w].active \in BOOLEAN
      /\ t[w].buf_type \in {"INSERT", "REPLACE", "DELETE"}
  BY DEF Typed
<1>3. t[w].size - Len(t[w].buf) \in Int
  BY <1>1, <1>2
<1>4. CASE ~t[w].active
  BY <1>4 DEF Gain
<1>5. CASE t[w].active
  <2>1. CASE t[w].buf_type = "INSERT"
    BY <1>1, <1>5, <2>1 DEF Gain
  <2>2. CASE t[w].buf_type = "DELETE"
    BY <1>1, <1>5, <2>2 DEF Gain
  <2>3. CASE t[w].buf_type = "REPLACE"
    BY <1>3, <1>5, <2>3 DEF Gain
  <2> QED BY <1>2, <2>1, <2>2, <2>3
<1> QED BY <1>4, <1>5

\* The list of children.
LEMMA RowIs ==
  ASSUME NEW t, Linked(t), NEW v \in DOMAIN t
  PROVE  LET kids == t[v].children
         IN  /\ kids \in Seq(Nat) /\ Len(kids) \in Nat /\ DOMAIN kids = 1 .. Len(kids)
             /\ \A k \in 1 .. Len(kids) :
                  /\ kids[k] \in DOMAIN t \ {Root} /\ kids[k] \in Nat
                  /\ kids[k] \in Kids(t[v]) /\ v < kids[k] /\ t[kids[k]].parent = v
             /\ \A i, j \in 1 .. Len(kids) : kids[i] = kids[j] => i = j
<1> DEFINE kids == t[v].children
<1>1. kids \in Seq(Nat) /\ Len(kids) \in Nat /\ DOMAIN kids = 1 .. Len(kids)
      /\ \A k \in 1 .. Len(kids) : kids[k] \in Nat
  BY LenProperties DEF Linked, IsVbuf
<1>2. v \in Nat
  BY DEF Linked
<1>3. ASSUME NEW k \in 1 .. Len(kids)
      PROVE  /\ kids[k] \in DOMAIN t \ {Root}
             /\ kids[k] \in Kids(t[v]) /\ v < kids[k] /\ t[kids[k]].parent = v
  <2>1. kids[k] \in Kids(t[v]) /\ kids[k] \in Nat
    BY <1>1 DEF Kids
  <2> HIDE DEF kids
  <2>2. kids[k] \in DOMAIN t /\ v < kids[k] /\ t[kids[k]].parent = v
    BY <2>1 DEF Linked
  <2>3. kids[k] # Root
    BY <1>2, <2>1, <2>2 DEF Root
  <2> QED BY <2>1, <2>2, <2>3
<1>4. \A i, j \in 1 .. Len(kids) : kids[i] = kids[j] => i = j
  BY DEF Linked
<1> QED BY <1>1, <1>3, <1>4

\* u is t with one vbuf more, at place at of the children of p
NewUnder(t, u, id, p, at) ==
  /\ DOMAIN u = DOMAIN t \cup {id}
  /\ u[id].children = <<>>
  /\ \A w \in DOMAIN t :
       /\ u[w].size = t[w].size /\ u[w].buf_type = t[w].buf_type
       /\ u[w].buf = t[w].buf /\ u[w].active = t[w].active
       /\ u[w].children = IF w = p THEN InsertAt(t[w].children, at, id) ELSE t[w].children

\* insert_new_vbuf makes one.
LEMMA InsertIs ==
  ASSUME NEW t, Linked(t), NEW p \in DOMAIN t, NEW before,
         before = Null \/ before \in Kids(t[p]),
         NEW start, NEW size, NEW type, NEW buf
  PROVE  LET u  == InsertNewVbuf(t, p, before, start, size, type, buf)
             id == NewId(t)
         IN  /\ \E at \in 1 .. Len(t[p].children) + 1 : NewUnder(t, u, id, p, at)
             /\ u[id] = [parent |-> p, children |-> <<>>, start |-> start, size |-> size,
                         buf_type |-> type, active |-> TRUE, buf |-> buf]
<1> DEFINE id == NewId(t)
           kids == t[p].children
           at == IF before = Null THEN Len(kids) + 1 ELSE Place(t, before)
           new == [parent |-> p, children |-> <<>>, start |-> start, size |-> size,
                   buf_type |-> type, active |-> TRUE, buf |-> buf]
           row == InsertAt(kids, at, id)
           u == InsertNewVbuf(t, p, before, start, size, type, buf)
<1>1. id \notin DOMAIN t /\ id \in Nat
  BY NewIdIs
<1>2. u = [w \in DOMAIN t \cup {id} |->
             CASE w = id -> new
               [] w = p  -> [t[w] EXCEPT !.children = row]
               [] OTHER  -> t[w]]
  BY DEF InsertNewVbuf
<1>3. Len(kids) \in Nat
  BY RowIs
<1>4. at \in 1 .. Len(kids) + 1
  <2>1. CASE before = Null
    BY <1>3, <2>1
  <2>2. CASE before # Null
    <3>1. Place(t, before) \in 1 .. Len(kids)
      BY <2>2, PlaceIs
    <3> QED BY <1>3, <2>2, <3>1
  <2> QED BY <2>1, <2>2
<1> HIDE DEF u, at, id
<1>5. u[id] = new
  <2>1. p # id
    BY <1>1
  <2> HIDE DEF new, row
  <2> QED BY <1>2, <2>1
<1> HIDE DEF new
<1>6. ASSUME NEW w \in DOMAIN t
      PROVE  /\ u[w].size = t[w].size /\ u[w].buf_type = t[w].buf_type
             /\ u[w].buf = t[w].buf /\ u[w].active = t[w].active
             /\ u[w].children = IF w = p THEN InsertAt(t[w].children, at, id) ELSE t[w].children
  <2>1. CASE w # p
    BY <1>1, <1>2, <2>1
  <2>2. CASE w = p
    <3> DEFINE vb == t[w]
    <3>1. u[w] = [vb EXCEPT !.children = row]
      BY <1>1, <1>2, <2>2
    <3>2. vb = [parent |-> vb.parent, children |-> vb.children, start |-> vb.start,
                size |-> vb.size, buf_type |-> vb.buf_type, active |-> vb.active, buf |-> vb.buf]
      BY DEF Linked, IsVbuf
    <3>3. row = InsertAt(t[w].children, at, id)
      BY <2>2
    <3> HIDE DEF vb, row
    <3>4. u[w] = [parent |-> vb.parent, children |-> row, start |-> vb.start,
                  size |-> vb.size, buf_type |-> vb.buf_type, active |-> vb.active, buf |-> vb.buf]
      BY <3>1, <3>2
    <3> QED BY <2>2, <3>3, <3>4 DEF vb
  <2> QED BY <2>1, <2>2
<1>7. DOMAIN u = DOMAIN t \cup {id}
  BY <1>2
<1>8. u[id].children = <<>>
  BY <1>5 DEF new
<1>9. NewUnder(t, u, id, p, at)
  BY <1>6, <1>7, <1>8 DEF NewUnder
<1> QED BY <1>4, <1>5, <1>9 DEF u, id, new

\* Nothing else changes its sum when the new vbuf adds nothing.
LEMMA NewSized ==
  ASSUME NEW t, Linked(t), Sized(t), NEW u, NEW id \in Nat, id \notin DOMAIN t, id # Root,
         NEW p \in DOMAIN t, HasBytes(t[p]),
         NEW at \in 1 .. Len(t[p].children) + 1, NewUnder(t, u, id, p, at),
         Len(u[id].buf) \in Nat, u[id].active \in BOOLEAN,
         u[id].buf_type \in {"INSERT", "REPLACE", "DELETE"},
         Gain(u[id]) = 0, HasBytes(u[id]) => u[id].size = Len(u[id].buf)
  PROVE  Sized(u)
<1>1. \A w \in DOMAIN t \ {Root} : Gain(t[w]) \in Int
  BY GainIs DEF Sized
<1>2. \A w \in DOMAIN t : /\ Gain(u[w]) = Gain(t[w])
                          /\ HasBytes(u[w]) <=> HasBytes(t[w])
  BY GainSame DEF NewUnder
<1>3. ASSUME NEW w \in DOMAIN u, w # id, w # p
      PROVE  /\ w \in DOMAIN t /\ u[w].children = t[w].children
             /\ Kids(u[w]) = Kids(t[w])
             /\ SumOver(u, Len(u[w].buf), u[w].children) = SumOver(t, Len(t[w].buf), t[w].children)
  <2>1. w \in DOMAIN t /\ u[w].children = t[w].children /\ u[w].buf = t[w].buf
    BY <1>3 DEF NewUnder
  <2>2. Len(t[w].buf) \in Int
    BY <2>1 DEF Sized, Typed
  <2> DEFINE kids == t[w].children
             n == Len(kids)
  <2>3. /\ n \in Nat /\ DOMAIN kids = 1 .. n
        /\ \A k \in 1 .. n : kids[k] \in DOMAIN t \ {Root}
    BY <2>1, RowIs
  <2> HIDE DEF n, kids
  <2>4. SameGains(t, u, kids, n)
    BY <1>1, <1>2, <2>3 DEF SameGains
  <2>5. SumOver(u, Len(t[w].buf), kids) = SumOver(t, Len(t[w].buf), kids)
    BY <2>2, <2>3, <2>4, SumSame
  <2> QED BY <2>1, <2>5 DEF kids, Kids
<1>4. SumOver(u, Len(u[p].buf), u[p].children) = SumOver(t, Len(t[p].buf), t[p].children)
  <2> DEFINE kids == t[p].children
             row == u[p].children
             n == Len(kids)
             m == n + 1
  <2>1. u[p].buf = t[p].buf /\ row = InsertAt(kids, at, id)
    BY DEF NewUnder
  <2>2. Len(t[p].buf) \in Int
    BY DEF Sized, Typed
  <2>3. /\ kids \in Seq(Nat) /\ n \in Nat /\ DOMAIN kids = 1 .. n
        /\ \A k \in 1 .. n : kids[k] \in DOMAIN t \ {Root}
    BY RowIs
  <2>4. at \in 1 .. n + 1
    OBVIOUS
  <2> HIDE DEF n, kids, row
  <2>5. row \in Seq(Nat) /\ Len(row) = n + 1 /\ row[at] = id /\ OneIn(kids, row, at, n + 1)
    <3>1. n = Len(kids) /\ at \in 1 .. Len(kids) + 1
      BY <2>4 DEF n
    <3>2. kids \in Seq(Nat) /\ id \in Nat /\ row = InsertAt(kids, at, id)
      BY <2>1, <2>3
    <3>3. \A r : r = InsertAt(kids, at, id) =>
                  /\ r \in Seq(Nat) /\ Len(r) = Len(kids) + 1
                  /\ r[at] = id /\ OneIn(kids, r, at, Len(kids) + 1)
      BY <3>1, <3>2, PutIn
    <3> QED BY <3>1, <3>2, <3>3
  <2>6. DOMAIN row = 1 .. m /\ m \in Nat /\ m = n + 1
    BY <2>3, <2>5, LenProperties
  <2>7. OneIn(kids, row, at, m)
    BY <2>5
  <2>8. SameGains(t, u, kids, n)
    BY <1>1, <1>2, <2>3 DEF SameGains
  <2>9. Gain(u[row[at]]) = 0
    BY <2>5
  <2> HIDE DEF m
  <2>10. at \in 1 .. m
    BY <2>4 DEF m
  <2>11. SumOver(u, Len(t[p].buf), row) = SumOver(t, Len(t[p].buf), kids)
    BY <2>2, <2>3, <2>6, <2>7, <2>8, <2>9, <2>10, SumSkips
  <2> QED BY <2>1, <2>11 DEF row, kids
<1>5. SumOver(u, Len(u[id].buf), u[id].children) = Len(u[id].buf) /\ Kids(u[id]) = {}
  <2> DEFINE kids == u[id].children
  <2>1. kids = <<>> /\ DOMAIN kids = 1 .. 0 /\ 0 \in Nat /\ Len(u[id].buf) \in Int
        /\ Len(kids) = 0
    BY DEF NewUnder
  <2> HIDE DEF kids
  <2>2. SumOver(u, Len(u[id].buf), kids) = Len(u[id].buf)
    BY <2>1, SumOfNone
  <2> QED BY <2>1, <2>2 DEF kids, Kids
<1>6. Typed(u)
  <2>1. ASSUME NEW w \in DOMAIN u
        PROVE  /\ Len(u[w].buf) \in Nat
               /\ u[w].active \in BOOLEAN
               /\ u[w].buf_type \in IF w = Root THEN {"FILE"} ELSE {"INSERT", "REPLACE", "DELETE"}
               /\ ~HasBytes(u[w]) => Kids(u[w]) = {}
    <3>1. CASE w = id
      BY <1>5, <3>1
    <3>2. CASE w # id
      <4>1. w \in DOMAIN t
        BY <3>2 DEF NewUnder
      <4>2. /\ Len(u[w].buf) \in Nat
            /\ u[w].active \in BOOLEAN
            /\ u[w].buf_type \in IF w = Root THEN {"FILE"} ELSE {"INSERT", "REPLACE", "DELETE"}
        BY <4>1 DEF NewUnder, Sized, Typed
      <4>3. ASSUME ~HasBytes(u[w]) PROVE Kids(u[w]) = {}
        <5>1. ~HasBytes(t[w]) /\ w # p
          BY <1>2, <4>1, <4>3
        <5>2. Kids(u[w]) = Kids(t[w])
          BY <1>3, <3>2, <5>1
        <5> QED BY <4>1, <5>1, <5>2 DEF Sized, Typed
      <4> QED BY <4>2, <4>3
    <3> QED BY <3>1, <3>2
  <2> QED BY <2>1 DEF Typed
<1>7. Balanced(u)
  <2>1. ASSUME NEW w \in DOMAIN u, HasBytes(u[w])
        PROVE  u[w].size = SumOver(u, Len(u[w].buf), u[w].children)
    <3>1. CASE w = id
      BY <1>5, <2>1, <3>1
    <3>2. CASE w # id
      <4>1. w \in DOMAIN t
        BY <3>2 DEF NewUnder
      <4>2. u[w].size = t[w].size
        BY <4>1 DEF NewUnder
      <4>3. t[w].size = SumOver(t, Len(t[w].buf), t[w].children)
        BY <1>2, <2>1, <4>1 DEF Sized, Balanced
      <4> QED BY <1>3, <1>4, <3>2, <4>2, <4>3
    <3> QED BY <3>1, <3>2
  <2> QED BY <2>1 DEF Balanced
<1> QED BY <1>6, <1>7 DEF Sized

\* prune takes a vbuf away that adds nothing.
LEMMA FreeSized ==
  ASSUME NEW t, Linked(t), Sized(t), NEW v \in DOMAIN t \ {Root}
  PROVE  Sized(FreeVbuf(t, v))
<1> SUFFICES ASSUME t[v].children = <<>>, ~t[v].active
             PROVE  Sized(FreeVbuf(t, v))
  BY DEF FreeVbuf
<1> DEFINE u == FreeVbuf(t, v)
           p == t[v].parent
           kids == t[p].children
           at == Place(t, v)
           row == RemoveAt(kids, at)
<1>1. p \in DOMAIN t /\ v \in Kids(t[p]) /\ p # v
  <2>1. p \in DOMAIN t /\ v \in Kids(t[p])
    BY DEF Linked
  <2>2. p < v /\ v \in Nat
    BY <2>1 DEF Linked
  <2> QED BY <2>1, <2>2
<1>2. at \in 1 .. Len(kids) /\ kids[at] = v
  BY <1>1, PlaceIs
<1>3. u = [w \in DOMAIN t \ {v} |->
             IF w = p THEN [t[w] EXCEPT !.children = RemoveAt(@, at)] ELSE t[w]]
  BY DEF FreeVbuf
<1> HIDE DEF u, at
<1>4. ASSUME NEW w \in DOMAIN u
      PROVE  /\ w \in DOMAIN t \ {v}
             /\ u[w].size = t[w].size /\ u[w].buf_type = t[w].buf_type
             /\ u[w].buf = t[w].buf /\ u[w].active = t[w].active
             /\ u[w].children = IF w = p THEN row ELSE t[w].children
  <2>0. w \in DOMAIN t \ {v}
    BY <1>3
  <2>1. CASE w # p
    BY <1>3, <2>0, <2>1
  <2>2. CASE w = p
    <3> DEFINE vb == t[w]
    <3>1. u[w] = [vb EXCEPT !.children = row]
      BY <1>3, <2>0, <2>2
    <3>2. vb = [parent |-> vb.parent, children |-> vb.children, start |-> vb.start,
                size |-> vb.size, buf_type |-> vb.buf_type, active |-> vb.active, buf |-> vb.buf]
      BY <2>0 DEF Linked, IsVbuf
    <3> HIDE DEF vb, row
    <3>4. u[w] = [parent |-> vb.parent, children |-> row, start |-> vb.start,
                  size |-> vb.size, buf_type |-> vb.buf_type, active |-> vb.active, buf |-> vb.buf]
      BY <3>1, <3>2
    <3> QED BY <2>0, <2>2, <3>4 DEF vb
  <2> QED BY <2>1, <2>2
<1>5. p \in DOMAIN u /\ DOMAIN u = DOMAIN t \ {v}
  BY <1>1, <1>3
<1>6. \A w \in DOMAIN t \ {Root} : Gain(t[w]) \in Int
  BY GainIs DEF Sized
<1>7. \A w \in DOMAIN u : /\ Gain(u[w]) = Gain(t[w])
                          /\ HasBytes(u[w]) <=> HasBytes(t[w])
  BY <1>4, GainSame
<1>8. Gain(t[v]) = 0
  BY DEF Gain
<1>9. /\ kids \in Seq(Nat) /\ Len(kids) \in Nat /\ DOMAIN kids = 1 .. Len(kids)
      /\ \A k \in 1 .. Len(kids) : kids[k] \in DOMAIN t \ {Root}
      /\ \A i, j \in 1 .. Len(kids) : kids[i] = kids[j] => i = j
  BY <1>1, RowIs
<1>10. /\ row \in Seq(Nat)
       /\ Len(row) = Len(kids) - 1
       /\ \A i \in 1 .. Len(kids) - 1 : row[i] = IF i < at THEN kids[i] ELSE kids[i + 1]
  <2> HIDE DEF kids
  <2> QED BY <1>2, <1>9, RemoveAtIs
<1>11. SumOver(u, Len(u[p].buf), u[p].children) = SumOver(t, Len(t[p].buf), t[p].children)
  <2> DEFINE m == Len(kids)
             n == m - 1
  <2>1. u[p].buf = t[p].buf /\ u[p].children = row /\ Len(t[p].buf) \in Int
    BY <1>1, <1>4, <1>5 DEF Sized, Typed
  <2> HIDE DEF kids, row, p
  <2>2. n \in Nat /\ m \in Nat /\ m = n + 1 /\ DOMAIN row = 1 .. n /\ DOMAIN kids = 1 .. m
        /\ at \in 1 .. m
    BY <1>2, <1>9, <1>10, LenProperties
  <2>3. OneIn(row, kids, at, m)
    <3>1. ASSUME NEW k \in 1 .. m, k < at
          PROVE  kids[k] = row[k]
      <4>1. k \in 1 .. Len(kids) - 1
        BY <2>2, <3>1
      <4> QED BY <1>10, <3>1, <4>1
    <3>2. ASSUME NEW k \in 1 .. m, k > at
          PROVE  kids[k] = row[k - 1]
      <4>1. k - 1 \in 1 .. Len(kids) - 1 /\ ~(k - 1 < at) /\ k - 1 + 1 = k
        BY <2>2, <3>2
      <4> QED BY <1>10, <4>1
    <3> QED BY <3>1, <3>2 DEF OneIn
  <2>4. SameGains(u, t, row, n)
    <3>1. ASSUME NEW k \in 1 .. n
          PROVE  Gain(u[row[k]]) \in Int /\ Gain(t[row[k]]) = Gain(u[row[k]])
      <4> DEFINE i == IF k < at THEN k ELSE k + 1
      <4>1. i \in 1 .. m /\ i # at /\ row[k] = kids[i]
        BY <1>10, <2>2
      <4> HIDE DEF i
      <4>2. kids[i] \in DOMAIN t \ {Root} /\ kids[i] # v
        BY <1>2, <1>9, <2>2, <4>1
      <4> QED BY <1>5, <1>6, <1>7, <4>1, <4>2
    <3> QED BY <3>1 DEF SameGains
  <2>5. Gain(t[kids[at]]) = 0
    BY <1>2, <1>8
  <2> HIDE DEF m, n
  <2>6. SumOver(t, Len(t[p].buf), kids) = SumOver(u, Len(t[p].buf), row)
    BY <2>1, <2>2, <2>3, <2>4, <2>5, SumSkips
  <2> QED BY <2>1, <2>6 DEF kids
<1>12. ASSUME NEW w \in DOMAIN u, w # p
       PROVE  SumOver(u, Len(u[w].buf), u[w].children) = SumOver(t, Len(t[w].buf), t[w].children)
  <2>1. w \in DOMAIN t /\ u[w].children = t[w].children /\ u[w].buf = t[w].buf
    BY <1>4, <1>12
  <2>2. Len(t[w].buf) \in Int
    BY <2>1 DEF Sized, Typed
  <2> DEFINE own == t[w].children
             n == Len(own)
  <2>3. /\ n \in Nat /\ DOMAIN own = 1 .. n
        /\ \A k \in 1 .. n : own[k] \in DOMAIN t \ {Root} /\ t[own[k]].parent = w
    BY <2>1, RowIs
  <2> HIDE DEF n, own
  <2>4. \A k \in 1 .. n : own[k] \in DOMAIN u
    BY <1>5, <1>12, <2>3
  <2>5. SameGains(t, u, own, n)
    BY <1>6, <1>7, <2>3, <2>4 DEF SameGains
  <2>6. SumOver(u, Len(t[w].buf), own) = SumOver(t, Len(t[w].buf), own)
    BY <2>2, <2>3, <2>5, SumSame
  <2> QED BY <2>1, <2>6 DEF own
<1>13. Typed(u)
  <2>1. ASSUME NEW w \in DOMAIN u
        PROVE  /\ Len(u[w].buf) \in Nat
               /\ u[w].active \in BOOLEAN
               /\ u[w].buf_type \in IF w = Root THEN {"FILE"} ELSE {"INSERT", "REPLACE", "DELETE"}
               /\ ~HasBytes(u[w]) => Kids(u[w]) = {}
    <3>1. /\ Len(u[w].buf) \in Nat
          /\ u[w].active \in BOOLEAN
          /\ u[w].buf_type \in IF w = Root THEN {"FILE"} ELSE {"INSERT", "REPLACE", "DELETE"}
      BY <1>4 DEF Sized, Typed
    <3>2. ASSUME ~HasBytes(u[w]) PROVE Kids(u[w]) = {}
      <4>1. ~HasBytes(t[w]) /\ Kids(t[w]) = {}
        BY <1>4, <1>7, <3>2 DEF Sized, Typed
      <4>2. w # p
        BY <1>1, <4>1
      <4>3. u[w].children = t[w].children
        BY <1>4, <4>2
      <4> QED BY <4>1, <4>3 DEF Kids
    <3> QED BY <3>1, <3>2
  <2> QED BY <2>1 DEF Typed
<1>14. Balanced(u)
  <2>1. ASSUME NEW w \in DOMAIN u, HasBytes(u[w])
        PROVE  u[w].size = SumOver(u, Len(u[w].buf), u[w].children)
    <3>1. u[w].size = t[w].size /\ w \in DOMAIN t
      BY <1>4
    <3>2. t[w].size = SumOver(t, Len(t[w].buf), t[w].children)
      BY <1>7, <2>1, <3>1 DEF Sized, Balanced
    <3> QED BY <1>11, <1>12, <3>1, <3>2
  <2> QED BY <2>1 DEF Balanced
<1>15. Sized(u)
  BY <1>13, <1>14 DEF Sized
<1> QED BY <1>15 DEF u

(***************************************************************************)
(* prune.                                                                  *)
(***************************************************************************)

\* A list of n vbufs of t other than the root, each named once
VbList(t, list, n) ==
  /\ DOMAIN list = 1 .. n
  /\ \A i \in 1 .. n : list[i] \in DOMAIN t \ {Root}
  /\ \A i, j \in 1 .. n : list[i] = list[j] => i = j

\* No vbuf that is left gets others under it.
LEMMA ShrunkKids ==
  ASSUME NEW t, Linked(t), NEW u, Linked(u), NEW gone, Shrunk(t, u, gone), NEW v \in DOMAIN u
  PROVE  Kids(u[v]) \subseteq Kids(t[v]) \ gone
<1> SUFFICES ASSUME NEW kid \in Kids(u[v])
             PROVE  kid \in Kids(t[v]) \ gone
  OBVIOUS
<1>1. kid \in DOMAIN u /\ v < kid /\ u[kid].parent = v
  BY DEF Linked
<1>2. kid \in DOMAIN t \ gone /\ t[kid].parent = v
  BY <1>1 DEF Shrunk
<1>3. kid # Root
  <2>1. v \in Nat /\ kid \in Nat
    BY <1>1 DEF Linked
  <2> QED BY <1>1, <2>1 DEF Root
<1>4. kid \in Kids(t[v])
  BY <1>2, <1>3 DEF Linked
<1> QED BY <1>2, <1>4

\* The undone vbufs of one entry, all without vbufs under them, are freed; the
\* sizes still add up.
LEMMA EntryFreed ==
  ASSUME NEW t, Linked(t), NEW n \in Nat, NEW list, VbList(t, list, n),
         \A i \in 1 .. n : t[list[i]].active = FALSE /\ Kids(t[list[i]]) = {}
  PROVE  LET u == FreeAll(t, list)
         IN  Linked(u) /\ Shrunk(t, u, Range(list)) /\ (Sized(t) => Sized(u))
<1> DEFINE Gone(k) == {list[i] : i \in 1 .. k}
<1>1. PICK s : FreeRun(t, list, n, s)
  BY FreeRuns DEF VbList
<1> DEFINE S == {k \in 0 .. n : /\ Linked(s[k]) /\ Shrunk(t, s[k], Gone(k))
                                /\ Sized(t) => Sized(s[k])}
<1>2. 0 \in S
  BY <1>1 DEF Shrunk, FreeRun
<1>3. ASSUME NEW k \in 0 .. n - 1, k \in S
      PROVE  k + 1 \in S
  <2> DEFINE v == list[k + 1]
  <2>1. /\ k + 1 \in 1 .. n /\ Linked(s[k]) /\ Shrunk(t, s[k], Gone(k))
        /\ Sized(t) => Sized(s[k])
    BY <1>3
  <2>2. v \in DOMAIN t \ {Root} /\ v \notin Gone(k)
    BY <2>1 DEF VbList
  <2>3. v \in DOMAIN s[k] \ {Root}
    BY <2>1, <2>2 DEF Shrunk
  <2>4. s[k][v].active = FALSE
    BY <2>1, <2>3 DEF Shrunk
  <2>5. Kids(s[k][v]) = {}
    BY <2>1, <2>3, ShrunkKids
  <2>6. s[k + 1] = FreeVbuf(s[k], v)
    <3>1. k + 1 - 1 = k
      OBVIOUS
    <3> QED BY <1>1, <2>1, <3>1 DEF FreeRun
  <2> HIDE DEF v, Gone
  <2>7. Linked(s[k + 1]) /\ Shrunk(s[k], s[k + 1], {v})
    BY <2>1, <2>3, <2>4, <2>5, <2>6, FreeLinks
  <2>8. Gone(k + 1) = Gone(k) \cup {v}
    BY <2>1 DEF Gone, v
  <2>9. Shrunk(t, s[k + 1], Gone(k + 1))
    BY <2>1, <2>7, <2>8 DEF Shrunk
  <2>10. Sized(t) => Sized(s[k + 1])
    BY <2>1, <2>3, <2>6, FreeSized
  <2> QED BY <2>1, <2>7, <2>9, <2>10
<1>4. n \in S
  <2> HIDE DEF S
  <2>1. 0 .. n \subseteq S
    BY <1>2, <1>3, UpTo
  <2> QED BY <2>1
<1>5. Gone(n) = Range(list)
  BY DEF VbList, Range
<1> HIDE DEF Gone
<1> QED BY <1>1, <1>4, <1>5 DEF FreeRun

\* Every entry of the list names vbufs of t in the state the entry says; they
\* hang under vbufs of older entries; every vbuf but the root has one entry.
Owned(t, list) ==
  /\ Linked(t)
  /\ \A i \in 1 .. Len(list) :
       /\ \E n \in Nat : VbList(t, list[i].vb_list, n)
       /\ \A v \in Range(list[i].vb_list) :
            /\ t[v].active = list[i].applied
            /\ t[v].parent # Root =>
                 \E j \in 1 .. i - 1 : t[v].parent \in Range(list[j].vb_list)
  /\ \A v \in DOMAIN t \ {Root} : \E i \in 1 .. Len(list) : v \in Range(list[i].vb_list)
  /\ \A i, j \in 1 .. Len(list) :
       Range(list[i].vb_list) \cap Range(list[j].vb_list) # {} => i = j

\* The inductive invariant: the tree belongs to the undo list.
TreeInv == HistoryInv /\ Owned(tree, ul)

\* The names of an entry are vbufs, and not the root.
LEMMA NamesAreVbufs ==
  ASSUME NEW t, NEW list, NEW n \in Nat, VbList(t, list, n)
  PROVE  /\ Range(list) \subseteq DOMAIN t \ {Root}
         /\ \A v \in Range(list) : \E k \in 1 .. n : list[k] = v
         /\ \A k \in 1 .. n : list[k] \in Range(list)
BY DEF VbList, Range

\* prune frees the vbufs of every undone entry, and no other.
LEMMA UndoneAreFreed ==
  ASSUME TreeInv
  PROVE  /\ Linked(PrunedTree)
         /\ Shrunk(tree, PrunedTree,
                   {v \in DOMAIN tree : \E i \in LastApplied(ul) + 1 .. Len(ul) :
                                          v \in Range(ul[i].vb_list)})
         /\ Sized(tree) => Sized(PrunedTree)
<1> DEFINE top == LastApplied(ul)
           len == Len(ul)
           m == len - top
           newer == SubSeq(ul, top + 1, len)
           list == Reverse(newer)
           Behind0(k) == {v \in DOMAIN tree : \E i \in len - k + 1 .. len :
                                                v \in Range(ul[i].vb_list)}
<1>1. /\ len \in Nat /\ top \in 0 .. len
      /\ \A i \in 1 .. len : ul[i].applied <=> i <= top
      /\ \A i \in 1 .. len : ul[i].applied \in BOOLEAN
      /\ ul = [i \in 1 .. len |-> ul[i]]
  BY DEF TreeInv, HistoryInv, UndoListTypeOK
<1>2. m \in Nat /\ DOMAIN list = 1 .. m /\ \A k \in 1 .. m : list[k] = ul[len - k + 1]
  <2> DEFINE from == top + 1
  <2> HIDE DEF len, top
  <2>1. /\ from \in 1 .. len + 1 /\ len \in from - 1 .. len /\ m = len - from + 1
        /\ \A k \in 1 .. m : from + k - 1 = top + k
    BY <1>1
  <2> HIDE DEF m, from
  <2>2. Len(newer) = m /\ \A k \in 1 .. m : newer[k] = ul[top + k]
    <3>1. /\ Len(SubSeq(ul, from, len)) = m
          /\ \A k \in 1 .. m : SubSeq(ul, from, len)[k] = ul[from + k - 1]
      BY <1>1, <2>1, StretchIs, SMTT(30) DEF len
    <3> QED BY <2>1, <3>1 DEF from
  <2>3. list = [k \in 1 .. m |-> newer[m - k + 1]]
    BY <2>2 DEF Reverse
  <2>4. m \in Nat /\ m = len - top
    BY <1>1 DEF len, top, m
  <2> HIDE DEF newer, list, m
  <2>5. ASSUME NEW k \in 1 .. m PROVE list[k] = ul[len - k + 1]
    <3>1. m - k + 1 \in 1 .. m /\ top + (m - k + 1) = len - k + 1
      BY <1>1, <2>4 DEF len, top
    <3> QED BY <2>2, <2>3, <3>1
  <2> QED BY <2>3, <2>4, <2>5
<1> HIDE DEF list, newer
<1>3. PICK s : PruneRun(tree, list, m, s)
  <2> HIDE DEF m
  <2> QED BY <1>2, PruneRuns
<1> DEFINE S == {k \in 0 .. m : /\ Linked(s[k]) /\ Shrunk(tree, s[k], Behind0(k))
                                /\ Sized(tree) => Sized(s[k])}
<1>4. 0 \in S
  <2>1. Behind0(0) = {}
    BY <1>1
  <2>2. Linked(tree)
    BY DEF TreeInv, Owned
  <2> QED BY <1>2, <1>3, <2>1, <2>2 DEF Shrunk, PruneRun
<1>5. ASSUME NEW k \in 0 .. m - 1, k \in S
      PROVE  k + 1 \in S
  <2> DEFINE i == len - k
             vbs == ul[i].vb_list
  <2>1. /\ k + 1 \in 1 .. m /\ len - (k + 1) + 1 = i /\ i \in 1 .. len /\ top < i
        /\ k + 1 - 1 = k
    BY <1>1, <1>2
  <2>2. Linked(s[k]) /\ Shrunk(tree, s[k], Behind0(k)) /\ (Sized(tree) => Sized(s[k]))
    BY <1>5
  <2>3. s[k + 1] = FreeAll(s[k], vbs)
    <3>1. s[k + 1] = FreeEntry(s[k], list[k + 1]) /\ list[k + 1] = ul[i]
      BY <1>2, <1>3, <2>1 DEF PruneRun
    <3>2. FreeEntry(s[k], ul[i]) = FreeAll(s[k], vbs)
      BY DEF FreeEntry, FreeAll
    <3> QED BY <3>1, <3>2
  <2>4. PICK n \in Nat : VbList(tree, vbs, n)
    BY <2>1 DEF TreeInv, Owned
  <2>5. ASSUME NEW v \in Range(vbs)
        PROVE  /\ v \in DOMAIN s[k]
               /\ s[k][v].active = FALSE
               /\ Kids(s[k][v]) = {}
    <3>1. v \in DOMAIN tree \ {Root}
      BY <2>4, NamesAreVbufs
    <3>2. v \notin Behind0(k)
      <4>1. ASSUME NEW j \in len - k + 1 .. len, v \in Range(ul[j].vb_list) PROVE FALSE
        <5>1. j \in 1 .. len /\ j # i
          BY <1>1, <2>1, SMTT(30)
        <5> QED BY <2>1, <4>1, <5>1, Zenon DEF TreeInv, Owned
      <4> QED BY <4>1
    <3>3. v \in DOMAIN s[k]
      BY <2>2, <3>1, <3>2 DEF Shrunk
    <3>4. tree[v].active = ul[i].applied /\ ul[i].applied = FALSE
      BY <1>1, <2>1 DEF TreeInv, Owned
    <3>5. s[k][v].active = FALSE
      BY <2>2, <3>3, <3>4 DEF Shrunk
    <3>6. ASSUME NEW kid \in Kids(s[k][v]) PROVE FALSE
      <4>1. kid \in Kids(tree[v]) /\ kid \notin Behind0(k)
        BY <2>2, <3>3, <3>6, ShrunkKids DEF TreeInv, Owned
      <4>2. kid \in DOMAIN tree /\ v < kid /\ tree[kid].parent = v
        BY <3>1, <4>1 DEF TreeInv, Owned, Linked
      <4>3. kid # Root
        <5>1. v \in Nat /\ kid \in Nat
          BY <3>1, <4>2 DEF TreeInv, Owned, Linked
        <5> QED BY <4>2, <5>1 DEF Root
      <4>4. PICK j \in 1 .. len : kid \in Range(ul[j].vb_list)
        BY <4>2, <4>3 DEF TreeInv, Owned
      <4>5. PICK h \in 1 .. j - 1 : v \in Range(ul[h].vb_list)
        BY <3>1, <4>2, <4>4 DEF TreeInv, Owned
      <4>6. h \in 1 .. len
        BY <1>1, <4>4, <4>5
      <4>7. h = i
        BY <2>1, <4>5, <4>6, Zenon DEF TreeInv, Owned
      <4>8. j \in len - k + 1 .. len
        BY <1>1, <2>1, <4>4, <4>5, <4>7, SMTT(30)
      <4> QED BY <4>1, <4>2, <4>4, <4>8
    <3> QED BY <3>3, <3>5, <3>6
  <2>6. VbList(s[k], vbs, n)
    <3>1. ASSUME NEW c \in 1 .. n PROVE vbs[c] \in DOMAIN s[k] \ {Root}
      <4> HIDE DEF vbs
      <4>1. vbs[c] \in Range(vbs) /\ vbs[c] # Root
        BY <2>4, NamesAreVbufs DEF VbList
      <4> QED BY <2>5, <4>1
    <3> HIDE DEF vbs
    <3> QED BY <2>4, <3>1 DEF VbList
  <2>7. \A c \in 1 .. n : s[k][vbs[c]].active = FALSE /\ Kids(s[k][vbs[c]]) = {}
    BY <2>4, <2>5, NamesAreVbufs
  <2> HIDE DEF vbs
  <2>8. /\ Linked(s[k + 1]) /\ Shrunk(s[k], s[k + 1], Range(vbs))
        /\ Sized(s[k]) => Sized(s[k + 1])
    BY <2>2, <2>3, <2>6, <2>7, EntryFreed
  <2>9. Behind0(k + 1) = Behind0(k) \cup Range(vbs)
    <3>1. Range(vbs) \subseteq DOMAIN tree
      BY <2>4, NamesAreVbufs
    <3>2. \A j : j \in len - (k + 1) + 1 .. len <=> j = i \/ j \in len - k + 1 .. len
      BY <1>1, <2>1, SMTT(30)
    <3> HIDE DEF i
    <3> QED BY <3>1, <3>2 DEF vbs
  <2>10. Shrunk(tree, s[k + 1], Behind0(k + 1))
    <3> HIDE DEF Behind0
    <3> QED BY <2>2, <2>8, <2>9 DEF Shrunk
  <2> HIDE DEF Behind0, m
  <2> QED BY <1>2, <2>1, <2>2, <2>8, <2>10
<1>6. m \in S
  <2> HIDE DEF S, m
  <2>1. 0 .. m \subseteq S
    BY <1>2, <1>4, <1>5, UpTo
  <2> QED BY <1>2, <2>1
<1>7. len - m + 1 = top + 1
  BY <1>1
<1>8. PrunedTree = s[m]
  <2>1. PrunedTree = PruneAll(tree, list)
    BY DEF PrunedTree, PruneAll, list, newer
  <2> QED BY <1>3, <2>1 DEF PruneRun
<1> HIDE DEF m
<1> QED BY <1>6, <1>7, <1>8

\* What prune leaves of the tree belongs to what it leaves of the list.
LEMMA OwnedPruned ==
  ASSUME TreeInv
  PROVE  /\ Owned(PrunedTree, PrunedUl)
         /\ Len(PrunedUl) \in Nat
         /\ PrunedUl = [i \in 1 .. Len(PrunedUl) |-> PrunedUl[i]]
<1> DEFINE top == LastApplied(ul)
           t == PrunedTree
           list == PrunedUl
<1>1. /\ Len(ul) \in Nat /\ top \in 0 .. Len(ul)
      /\ ul = [i \in 1 .. Len(ul) |-> ul[i]]
  BY DEF TreeInv, HistoryInv, UndoListTypeOK
<1>2. Len(list) = top /\ list = [i \in 1 .. top |-> ul[i]]
  BY <1>1, PrefixIsFcn DEF PrunedUl
<1> DEFINE gone == {v \in DOMAIN tree : \E i \in top + 1 .. Len(ul) :
                                          v \in Range(ul[i].vb_list)}
<1>3. Linked(t) /\ Shrunk(tree, t, gone)
  BY UndoneAreFreed
<1> HIDE DEF list, t, top
<1>4. \A i \in 1 .. top : list[i] = ul[i] /\ i \in 1 .. Len(ul)
  BY <1>1, <1>2
<1>5. ASSUME NEW i \in 1 .. top, NEW v \in Range(ul[i].vb_list)
      PROVE  v \in DOMAIN t \ {Root}
  <2>1. PICK n \in Nat : VbList(tree, ul[i].vb_list, n)
    BY <1>4 DEF TreeInv, Owned
  <2>2. v \in DOMAIN tree \ {Root}
    BY <2>1, NamesAreVbufs
  <2>3. ASSUME NEW j \in top + 1 .. Len(ul), v \in Range(ul[j].vb_list) PROVE FALSE
    <3>1. j \in 1 .. Len(ul) /\ j # i
      BY <1>1
    <3> QED BY <1>4, <2>3, <3>1 DEF TreeInv, Owned
  <2>4. v \notin gone
    BY <2>3
  <2> QED BY <1>3, <2>2, <2>4 DEF Shrunk
<1>6. ASSUME NEW i \in 1 .. top
      PROVE  \E n \in Nat : VbList(t, ul[i].vb_list, n)
  <2>1. PICK n \in Nat : VbList(tree, ul[i].vb_list, n)
    BY <1>4 DEF TreeInv, Owned
  <2>2. \A k \in 1 .. n : ul[i].vb_list[k] \in DOMAIN t \ {Root}
    BY <1>5, <2>1, NamesAreVbufs
  <2>3. VbList(t, ul[i].vb_list, n)
    BY <2>1, <2>2 DEF VbList
  <2> QED BY <2>3
<1>7. ASSUME NEW i \in 1 .. top, NEW v \in Range(ul[i].vb_list)
      PROVE  /\ t[v].active = ul[i].applied
             /\ t[v].parent # Root =>
                  \E j \in 1 .. i - 1 : t[v].parent \in Range(ul[j].vb_list)
  <2>1. t[v].active = tree[v].active /\ t[v].parent = tree[v].parent
    BY <1>3, <1>5 DEF Shrunk
  <2> QED BY <1>4, <2>1 DEF TreeInv, Owned
<1>8. ASSUME NEW v \in DOMAIN t \ {Root}
      PROVE  \E i \in 1 .. top : v \in Range(ul[i].vb_list)
  <2>1. v \in DOMAIN tree \ {Root} /\ v \notin gone
    BY <1>3 DEF Shrunk
  <2>2. PICK i \in 1 .. Len(ul) : v \in Range(ul[i].vb_list)
    BY <2>1 DEF TreeInv, Owned
  <2>3. i \in 1 .. top
    BY <1>1, <2>1, <2>2
  <2> QED BY <2>2, <2>3
<1>9. ASSUME NEW i \in 1 .. top, NEW j \in 1 .. top,
             Range(ul[i].vb_list) \cap Range(ul[j].vb_list) # {}
      PROVE  i = j
  BY <1>4, <1>9 DEF TreeInv, Owned
<1>10. ASSUME NEW i \in 1 .. top, NEW j \in 1 .. i - 1
       PROVE  j \in 1 .. top
  BY <1>1
<1>11. Owned(t, list)
  <2> HIDE DEF gone
  <2>1. ASSUME NEW i \in 1 .. top
        PROVE  /\ \E n \in Nat : VbList(t, list[i].vb_list, n)
               /\ \A v \in Range(list[i].vb_list) :
                    /\ t[v].active = list[i].applied
                    /\ t[v].parent # Root =>
                         \E j \in 1 .. i - 1 : t[v].parent \in Range(list[j].vb_list)
    <3>1. list[i] = ul[i] /\ \A j \in 1 .. i - 1 : list[j] = ul[j]
      BY <1>4, <1>10
    <3> QED BY <1>6, <1>7, <3>1
  <2>2. \A v \in DOMAIN t \ {Root} : \E i \in 1 .. top : v \in Range(list[i].vb_list)
    BY <1>4, <1>8
  <2>3. \A i, j \in 1 .. top :
          Range(list[i].vb_list) \cap Range(list[j].vb_list) # {} => i = j
    BY <1>4, <1>9
  <2> QED BY <1>2, <1>3, <2>1, <2>2, <2>3 DEF Owned
<1>12. top \in Nat /\ list = [i \in 1 .. top |-> list[i]]
  BY <1>1, <1>2
<1> QED BY <1>2, <1>11, <1>12 DEF t, list

(***************************************************************************)
(* Edits.                                                                  *)
(***************************************************************************)

\* u is t with n new active vbufs, each under a vbuf of t
GrownBy(t, u, n) ==
  /\ Linked(u)
  /\ DOMAIN u = DOMAIN t \cup {NewId(t) + i - 1 : i \in 1 .. n}
  /\ NewId(u) = NewId(t) + n
  /\ \A w \in DOMAIN t : /\ u[w].active = t[w].active
                         /\ u[w].parent = t[w].parent
                         /\ Kids(t[w]) \subseteq Kids(u[w])
  /\ \A i \in 1 .. n : LET id == NewId(t) + i - 1
                       IN  u[id].active = TRUE /\ u[id].parent \in DOMAIN t

\* A place for a new vbuf: at the end of the children of p, or before one
PlaceOK(t, p, before) == p \in DOMAIN t /\ (before = Null \/ before \in Kids(t[p]))

\* One vbuf more.
LEMMA OneMore ==
  ASSUME NEW t, Linked(t), NEW n \in Nat, NEW u, GrownBy(t, u, n),
         NEW p, NEW before, PlaceOK(t, p, before),
         NEW start \in Int, NEW size \in Int, NEW type, NEW buf
  PROVE  GrownBy(t, InsertNewVbuf(u, p, before, start, size, type, buf), n + 1)
<1> DEFINE new == InsertNewVbuf(u, p, before, start, size, type, buf)
           id == NewId(u)
<1>1. Linked(u) /\ p \in DOMAIN u /\ (before = Null \/ before \in Kids(u[p]))
  BY DEF GrownBy, PlaceOK
<1>2. Linked(new) /\ Grown(u, new, id, p)
  BY <1>1, InsertLinks
<1> HIDE DEF new, id
<1>3. NewId(t) \in Nat \ {0} /\ \A v \in DOMAIN t : v \in Nat /\ v < NewId(t)
  BY NewIdIs
<1>4. id = NewId(t) + (n + 1) - 1 /\ id = NewId(t) + n
  BY <1>3 DEF GrownBy, id
<1>5. DOMAIN new = DOMAIN t \cup {NewId(t) + i - 1 : i \in 1 .. n + 1}
  <2>1. {NewId(t) + i - 1 : i \in 1 .. n + 1} = {NewId(t) + i - 1 : i \in 1 .. n} \cup {id}
    <3>1. \A i : i \in 1 .. n + 1 <=> i \in 1 .. n \/ i = n + 1
      OBVIOUS
    <3> QED BY <1>4, <3>1
  <2> QED BY <1>2, <2>1 DEF Grown, GrownBy
<1>6. NewId(new) = NewId(t) + (n + 1)
  <2>1. /\ NewId(new) \in Nat /\ NewId(new) - 1 \in DOMAIN new
        /\ \A v \in DOMAIN new : v \in Nat /\ v < NewId(new)
    BY <1>2, NewIdIs
  <2>2. id \in DOMAIN new /\ \A v \in DOMAIN new : v <= id
    <3>1. id \in Nat /\ \A v \in DOMAIN u : v \in Nat /\ v < id
      BY <1>1, NewIdIs DEF id
    <3> QED BY <1>2, <3>1 DEF Grown
  <2>3. NewId(new) - 1 = id
    BY <2>1, <2>2
  <2> QED BY <1>3, <1>4, <2>1, <2>3
<1>7. ASSUME NEW w \in DOMAIN t
      PROVE  /\ new[w].active = t[w].active
             /\ new[w].parent = t[w].parent
             /\ Kids(t[w]) \subseteq Kids(new[w])
  <2>1. w \in DOMAIN u
    BY DEF GrownBy
  <2>2. Kids(u[w]) \subseteq Kids(new[w])
    BY <1>2, <2>1 DEF Grown
  <2> QED BY <1>2, <2>1, <2>2 DEF Grown, GrownBy
<1>8. ASSUME NEW i \in 1 .. n + 1
      PROVE  /\ new[NewId(t) + i - 1].active = TRUE
             /\ new[NewId(t) + i - 1].parent \in DOMAIN t
  <2>1. CASE i = n + 1
    BY <1>2, <1>4, <2>1 DEF Grown, PlaceOK
  <2>2. CASE i # n + 1
    <3>1. i \in 1 .. n
      BY <2>2
    <3>2. NewId(t) + i - 1 \in DOMAIN u
      BY <3>1 DEF GrownBy
    <3> QED BY <1>2, <3>1, <3>2 DEF Grown, GrownBy
  <2> QED BY <2>1, <2>2
<1>9. GrownBy(t, new, n + 1)
  BY <1>2, <1>5, <1>6, <1>7, <1>8 DEF GrownBy
<1> QED BY <1>9 DEF new

\* Sizes and starts do not matter.
LEMMA GrownResized ==
  ASSUME NEW t, NEW n \in Nat, NEW u, GrownBy(t, u, n), NEW v, NEW by \in Int
  PROVE  GrownBy(t, Resize(u, v, by), n)
<1> DEFINE new == Resize(u, v, by)
<1>1. SameLinks(u, new) /\ \A w \in DOMAIN u : new[w].active = u[w].active
  BY ResizeLinks DEF GrownBy
<1> HIDE DEF new
<1>2. Linked(new)
  BY <1>1, SameLinksLinked DEF GrownBy
<1>3. DOMAIN new = DOMAIN u /\ NewId(new) = NewId(u)
  BY <1>1 DEF SameLinks, NewId
<1>4. \A w \in DOMAIN u : /\ new[w].active = u[w].active
                          /\ new[w].parent = u[w].parent
                          /\ Kids(new[w]) = Kids(u[w])
  BY <1>1 DEF SameLinks, Kids
<1>5. GrownBy(t, new, n)
  <2>1. \A w \in DOMAIN t : w \in DOMAIN u
    BY DEF GrownBy
  <2>2. \A i \in 1 .. n : NewId(t) + i - 1 \in DOMAIN u
    BY DEF GrownBy
  <2> QED BY <1>2, <1>3, <1>4, <2>1, <2>2 DEF GrownBy
<1> QED BY <1>5 DEF new

\* An edit that allocates nothing.
LEMMA GrownByNone ==
  ASSUME NEW t, Linked(t)
  PROVE  GrownBy(t, t, 0)
<1>1. NewId(t) + 0 = NewId(t)
  BY NewIdIs
<1> QED BY <1>1 DEF GrownBy

\* _insert_before makes one vbuf, at a good place.
LEMMA InsertGrows ==
  ASSUME NEW t, Linked(t), NEW buf, Len(buf) \in Nat, NEW offset \in Int,
         PlaceOK(t, InsertPoint(t, offset).parent, InsertPoint(t, offset).before)
  PROVE  GrownBy(t, InsertBefore(t, buf, offset), 1)
<1> DEFINE at == InsertPoint(t, offset)
           u == InsertNewVbuf(t, at.parent, at.before, offset, Len(buf), "INSERT", buf)
<1>1. GrownBy(t, u, 0 + 1)
  BY GrownByNone, OneMore
<1> HIDE DEF u
<1>2. GrownBy(t, Resize(u, NewId(t), Len(buf)), 1)
  BY <1>1, GrownResized
<1> QED BY <1>2 DEF InsertBefore, u

\* The n pieces of a walk
PiecesOK(t, pieces, n) ==
  /\ DOMAIN pieces = 1 .. n
  /\ \A i \in 1 .. n : /\ PlaceOK(t, pieces[i].parent, pieces[i].before)
                       /\ pieces[i].from \in Nat
                       /\ pieces[i].size \in Nat \ {0}
                       /\ HasBytes(t[Root]) => HasBytes(t[pieces[i].parent])

\* _replace makes one vbuf for every piece.
LEMMA ReplaceRunGrows ==
  ASSUME NEW t, Linked(t), NEW buf, NEW offset \in Int,
         NEW n \in Nat, NEW pieces, PiecesOK(t, pieces, n),
         NEW s, ReplaceRun(buf, offset, t, pieces, n, s), NEW m \in 0 .. n
  PROVE  GrownBy(t, s[m], m)
<1> DEFINE S == {k \in 0 .. n : GrownBy(t, s[k], k)}
<1>2. 0 \in S
  BY GrownByNone DEF ReplaceRun
<1>3. ASSUME NEW k \in 0 .. n - 1, k \in S
      PROVE  k + 1 \in S
  <2> DEFINE p == pieces[k + 1]
             bytes == SubSeq(buf, p.from - offset + 1, p.from - offset + p.size)
  <2>1. k + 1 \in 1 .. n /\ k + 1 - 1 = k /\ GrownBy(t, s[k], k)
    BY <1>3
  <2>2. s[k + 1] = InsertNewVbuf(s[k], p.parent, p.before, p.from, p.size, "REPLACE", bytes)
    BY <2>1 DEF ReplaceRun, Put
  <2>3. PlaceOK(t, p.parent, p.before) /\ p.from \in Int /\ p.size \in Int
    BY <2>1 DEF PiecesOK
  <2> HIDE DEF p, bytes
  <2>4. GrownBy(t, s[k + 1], k + 1)
    BY <2>1, <2>2, <2>3, OneMore
  <2> QED BY <2>1, <2>4
<1>4. m \in S
  <2> HIDE DEF S
  <2>1. 0 .. n \subseteq S
    BY <1>2, <1>3, UpTo
  <2> QED BY <2>1
<1> QED BY <1>4

\* All of them.
LEMMA ReplaceGrows ==
  ASSUME NEW t, Linked(t), NEW buf, NEW offset \in Int,
         NEW n \in Nat, NEW pieces, PiecesOK(t, pieces, n)
  PROVE  GrownBy(t, Replace(t, buf, offset, pieces), n)
<1>1. PICK s : ReplaceRun(buf, offset, t, pieces, n, s)
  BY ReplaceRuns DEF PiecesOK
<1>2. n \in 0 .. n
  OBVIOUS
<1>3. GrownBy(t, s[n], n)
  BY <1>1, <1>2, ReplaceRunGrows
<1> QED BY <1>1, <1>3 DEF ReplaceRun

\* So does _delete.
LEMMA DeleteRunGrows ==
  ASSUME NEW t, Linked(t), NEW offset \in Int,
         NEW n \in Nat, NEW pieces, PiecesOK(t, pieces, n),
         NEW s, DeleteRun(offset, t, pieces, n, s), NEW m \in 0 .. n
  PROVE  GrownBy(t, s[m], m)
<1> DEFINE S == {k \in 0 .. n : GrownBy(t, s[k], k)}
<1>2. 0 \in S
  BY GrownByNone DEF DeleteRun
<1>3. ASSUME NEW k \in 0 .. n - 1, k \in S
      PROVE  k + 1 \in S
  <2> DEFINE p == pieces[k + 1]
             u == InsertNewVbuf(s[k], p.parent, p.before, offset, p.size, "DELETE", <<>>)
  <2>1. k + 1 \in 1 .. n /\ k + 1 - 1 = k /\ GrownBy(t, s[k], k)
    BY <1>3
  <2>2. s[k + 1] = Resize(u, NewId(s[k]), -p.size)
    BY <2>1 DEF DeleteRun, Cut
  <2>3. PlaceOK(t, p.parent, p.before) /\ p.size \in Int /\ -p.size \in Int
    BY <2>1 DEF PiecesOK
  <2> HIDE DEF p
  <2>4. GrownBy(t, u, k + 1)
    BY <2>1, <2>3, OneMore
  <2> HIDE DEF u
  <2>5. GrownBy(t, s[k + 1], k + 1)
    BY <2>1, <2>2, <2>3, <2>4, GrownResized
  <2> QED BY <2>1, <2>5
<1>4. m \in S
  <2> HIDE DEF S
  <2>1. 0 .. n \subseteq S
    BY <1>2, <1>3, UpTo
  <2> QED BY <2>1
<1> QED BY <1>4

\* All of them.
LEMMA DeleteGrows ==
  ASSUME NEW t, Linked(t), NEW offset \in Int,
         NEW n \in Nat, NEW pieces, PiecesOK(t, pieces, n)
  PROVE  GrownBy(t, Delete(t, offset, pieces), n)
<1>1. PICK s : DeleteRun(offset, t, pieces, n, s)
  BY DeleteRuns DEF PiecesOK
<1>2. n \in 0 .. n
  OBVIOUS
<1>3. GrownBy(t, s[n], n)
  BY <1>1, <1>2, DeleteRunGrows
<1> QED BY <1>1, <1>3 DEF DeleteRun

\* The entry pushed for the new vbufs is theirs.
LEMMA OwnedGrown ==
  ASSUME NEW t, NEW list, Owned(t, list),
         Len(list) \in Nat, list = [i \in 1 .. Len(list) |-> list[i]],
         NEW n \in Nat, NEW u, GrownBy(t, u, n)
  PROVE  Owned(u, Pushed(list, t, n))
<1> DEFINE len == Len(list)
           vbs == NewVbufs(t, n)
           e == [vb_list |-> vbs, applied |-> TRUE]
           new == Append(list, e)
<1>1. NewId(t) \in Nat \ {0} /\ \A v \in DOMAIN t : v \in Nat /\ v < NewId(t)
  BY NewIdIs DEF Owned
<1>2. ASSUME NEW i \in 1 .. len
      PROVE  /\ \E k \in Nat : VbList(u, list[i].vb_list, k)
             /\ Range(list[i].vb_list) \subseteq DOMAIN t
             /\ \A v \in Range(list[i].vb_list) :
                  /\ u[v].active = list[i].applied
                  /\ u[v].parent # Root =>
                       \E j \in 1 .. i - 1 : u[v].parent \in Range(list[j].vb_list)
  <2>1. PICK k \in Nat : VbList(t, list[i].vb_list, k)
    BY DEF Owned
  <2>2. VbList(u, list[i].vb_list, k)
    BY <2>1 DEF VbList, GrownBy
  <2>3. Range(list[i].vb_list) \subseteq DOMAIN t
    BY <2>1, NamesAreVbufs
  <2>4. \A v \in Range(list[i].vb_list) :
          /\ t[v].active = list[i].applied
          /\ t[v].parent # Root =>
               \E j \in 1 .. i - 1 : t[v].parent \in Range(list[j].vb_list)
    BY DEF Owned
  <2> QED BY <2>2, <2>3, <2>4 DEF GrownBy
<1>3. CASE n = 0
  <2>1. Pushed(list, t, n) = list
    BY <1>3 DEF Pushed
  <2>2. DOMAIN u = DOMAIN t
    BY <1>3 DEF GrownBy
  <2>3. Linked(u)
    BY DEF GrownBy
  <2>4. Owned(u, list)
    BY <1>2, <2>2, <2>3 DEF Owned
  <2> QED BY <2>1, <2>4
<1>4. CASE n # 0
  <2>1. Pushed(list, t, n) = new
    BY <1>4 DEF Pushed
  <2>2. /\ Len(new) = len + 1
        /\ new = [i \in 1 .. len + 1 |-> IF i = len + 1 THEN e ELSE list[i]]
    BY AppendIsFcn
  <2>3. /\ \A i \in 1 .. len : new[i] = list[i]
        /\ new[len + 1].vb_list = vbs /\ new[len + 1].applied = TRUE
    BY <2>2
  <2>4. vbs = [i \in 1 .. n |-> NewId(t) + i - 1]
    BY DEF NewVbufs
  <2> HIDE DEF new, e, vbs
  <2>5. Range(vbs) = {NewId(t) + i - 1 : i \in 1 .. n}
    BY <2>4 DEF Range
  <2>6. VbList(u, vbs, n)
    <3>1. \A i \in 1 .. n : vbs[i] \in DOMAIN u /\ vbs[i] # Root
      BY <1>1, <2>4 DEF GrownBy, Root
    <3>2. \A i, j \in 1 .. n : vbs[i] = vbs[j] => i = j
      BY <1>1, <2>4
    <3> QED BY <2>4, <3>1, <3>2 DEF VbList
  <2>7. Range(vbs) \cap DOMAIN t = {}
    BY <1>1, <2>5
  <2>8. ASSUME NEW v \in Range(vbs)
        PROVE  /\ u[v].active = TRUE
               /\ u[v].parent # Root =>
                    \E j \in 1 .. len : u[v].parent \in Range(list[j].vb_list)
    <3>1. u[v].active = TRUE /\ u[v].parent \in DOMAIN t
      BY <2>5 DEF GrownBy
    <3> QED BY <3>1 DEF Owned
  <2>9. ASSUME NEW i \in 1 .. len + 1
        PROVE  /\ \E k \in Nat : VbList(u, new[i].vb_list, k)
               /\ \A v \in Range(new[i].vb_list) :
                    /\ u[v].active = new[i].applied
                    /\ u[v].parent # Root =>
                         \E j \in 1 .. i - 1 : u[v].parent \in Range(new[j].vb_list)
    <3>1. CASE i = len + 1
      <4>1. i - 1 = len
        BY <3>1
      <4> QED BY <2>3, <2>6, <2>8, <3>1, <4>1, Zenon
    <3>2. CASE i # len + 1
      <4>1. i \in 1 .. len /\ new[i] = list[i]
        BY <2>3, <3>2
      <4>2. \A j \in 1 .. i - 1 : new[j] = list[j]
        BY <2>3, <4>1
      <4> QED BY <1>2, <4>1, <4>2
    <3> QED BY <3>1, <3>2
  <2>10. ASSUME NEW v \in DOMAIN u \ {Root}
         PROVE  \E i \in 1 .. len + 1 : v \in Range(new[i].vb_list)
    <3>1. CASE v \in Range(vbs)
      <4>1. len + 1 \in 1 .. len + 1
        OBVIOUS
      <4> QED BY <2>3, <3>1, <4>1
    <3>2. CASE v \notin Range(vbs)
      <4>1. v \in DOMAIN t \ {Root}
        BY <2>5, <3>2 DEF GrownBy
      <4>2. PICK i \in 1 .. len : v \in Range(list[i].vb_list)
        BY <4>1 DEF Owned
      <4>3. i \in 1 .. len + 1
        OBVIOUS
      <4> QED BY <2>3, <4>2, <4>3
    <3> QED BY <3>1, <3>2
  <2>11. ASSUME NEW i \in 1 .. len + 1, NEW j \in 1 .. len + 1,
                Range(new[i].vb_list) \cap Range(new[j].vb_list) # {}
         PROVE  i = j
    <3>1. ASSUME NEW h \in 1 .. len
          PROVE  Range(new[h].vb_list) \cap Range(vbs) = {}
      BY <1>2, <2>3, <2>7
    <3>2. CASE i \in 1 .. len /\ j \in 1 .. len
      BY <2>3, <2>11, <3>2 DEF Owned
    <3>3. CASE i = len + 1 \/ j = len + 1
      <4>1. \A h \in 1 .. len + 1 : h \in 1 .. len \/ h = len + 1
        OBVIOUS
      <4> QED BY <2>3, <2>11, <3>1, <3>3, <4>1
    <3> QED BY <3>2, <3>3
  <2>12. Linked(u)
    BY DEF GrownBy
  <2>13. Len(new) = len + 1
    BY <2>2
  <2>14. Owned(u, new)
    <3> DEFINE l == len + 1
    <3>1. /\ \A i \in 1 .. l :
               /\ \E k \in Nat : VbList(u, new[i].vb_list, k)
               /\ \A v \in Range(new[i].vb_list) :
                    /\ u[v].active = new[i].applied
                    /\ u[v].parent # Root =>
                         \E j \in 1 .. i - 1 : u[v].parent \in Range(new[j].vb_list)
          /\ \A v \in DOMAIN u \ {Root} : \E i \in 1 .. l : v \in Range(new[i].vb_list)
      BY <2>9, <2>10
    <3>2. \A i, j \in 1 .. l :
            Range(new[i].vb_list) \cap Range(new[j].vb_list) # {} => i = j
      BY <2>11
    <3>3. Len(new) = l
      BY <2>13
    <3> HIDE DEF l
    <3> QED BY <2>12, <3>1, <3>2, <3>3 DEF Owned
  <2> QED BY <2>1, <2>14
<1> QED BY <1>3, <1>4

(***************************************************************************)
(* Where the edits put their vbufs.                                        *)
(***************************************************************************)
LEMMA MinPair ==
  ASSUME NEW a \in Int, NEW b \in Int
  PROVE  Min({a, b}) = IF a <= b THEN a ELSE b
BY DEF Min

\* The places of new vbufs, and the pieces, for a search that begins at v: it
\* does not go from a vbuf with bytes to one without
Places(t, v) == {at \in [parent : DOMAIN t, before : DOMAIN t \cup {Null}] :
                   /\ PlaceOK(t, at.parent, at.before)
                   /\ HasBytes(t[v]) => HasBytes(t[at.parent])}
Pieces(t, v) == {p \in [parent : DOMAIN t, before : DOMAIN t \cup {Null}, from : Nat,
                        size : Nat \ {0}] :
                   /\ PlaceOK(t, p.parent, p.before)
                   /\ HasBytes(t[v]) => HasBytes(t[p.parent])}

\* The descent of _insert_before, one vbuf down.
LEMMA DescendIs ==
  ASSUME NEW t, Linked(t), NEW offset \in Int, NEW v \in DOMAIN t, NEW g, NEW h,
         \A w \in DOMAIN t : v < w => g[w] = h[w] /\ g[w] \in Places(t, w)
  PROVE  Descend(t, offset, g, v) = Descend(t, offset, h, v)
         /\ Descend(t, offset, g, v) \in Places(t, v)
<1> DEFINE kids == t[v].children
           stops == {i \in DOMAIN kids :
                       \/ offset < t[kids[i]].start
                       \/ HasBytes(t[kids[i]]) /\ offset < End(t[kids[i]])}
           kid == kids[Min(stops)]
<1>1. kids \in Seq(Nat) /\ DOMAIN kids = 1 .. Len(kids) /\ Len(kids) \in Nat
  BY LenProperties DEF Linked, IsVbuf
<1>2. \A f : Descend(t, offset, f, v) =
               IF stops = {} THEN [parent |-> v, before |-> Null]
               ELSE IF offset < t[kid].start THEN [parent |-> v, before |-> kid]
               ELSE f[kid]
  BY DEF Descend
<1> HIDE DEF stops
<1>3. ASSUME stops # {} PROVE kid \in Kids(t[v])
  <2>1. stops \in SUBSET Nat /\ stops \subseteq 1 .. Len(kids)
    BY <1>1 DEF stops
  <2>2. Min(stops) \in 1 .. Len(kids)
    BY <1>3, <2>1, MinIs
  <2> QED BY <2>2 DEF Kids
<1>4. ASSUME stops # {}
      PROVE  kid \in DOMAIN t /\ v < kid
  BY <1>3, <1>4 DEF Linked
<1>7. ASSUME stops # {}, ~(offset < t[kid].start)
      PROVE  HasBytes(t[kid])
  <2>1. stops \in SUBSET Nat
    BY <1>1 DEF stops
  <2>2. Min(stops) \in stops
    BY <1>7, <2>1, MinIs
  <2> QED BY <1>7, <2>2 DEF stops
<1>8. \A w \in DOMAIN t : HasBytes(t[w]) => Places(t, w) \subseteq Places(t, v)
  BY DEF Places
<1>5. [parent |-> v, before |-> Null] \in Places(t, v)
  BY DEF Places, PlaceOK
<1>6. ASSUME stops # {} PROVE [parent |-> v, before |-> kid] \in Places(t, v)
  <2> HIDE DEF kid
  <2> QED BY <1>3, <1>4, <1>6 DEF Places, PlaceOK
<1> HIDE DEF kid
<1> QED BY <1>2, <1>4, <1>5, <1>6, <1>7, <1>8

\* _insert_before finds a vbuf in use, and a child of it or the end of its list.
LEMMA InsertPointIs ==
  ASSUME NEW t, Linked(t), NEW offset \in Int
  PROVE  /\ PlaceOK(t, InsertPoint(t, offset).parent, InsertPoint(t, offset).before)
         /\ HasBytes(t[Root]) => HasBytes(t[InsertPoint(t, offset).parent])
<1> DEFINE D == DOMAIN t
           rank == [v \in D |-> v]
           V == [v \in D |-> Places(t, v)]
           down == CHOOSE f : f = [v \in D |-> DescendAt(t, offset, f, v)]
<1>1. PICK n \in Nat : DOMAIN t \subseteq 0 .. n
  BY DEF Linked
<1>2. rank \in [D -> 0 .. n]
  BY <1>1
<1>3. ASSUME NEW x \in D, NEW g, NEW h,
             \A y \in D : rank[x] < rank[y] => g[y] = h[y] /\ g[y] \in V[y]
      PROVE  DescendAt(t, offset, g, x) = DescendAt(t, offset, h, x)
             /\ DescendAt(t, offset, g, x) \in V[x]
  <2>1. \A w \in DOMAIN t : x < w => g[w] = h[w] /\ g[w] \in Places(t, w)
    BY <1>3
  <2>2. Descend(t, offset, g, x) = Descend(t, offset, h, x)
        /\ Descend(t, offset, g, x) \in Places(t, x)
    BY <2>1, DescendIs
  <2> QED BY <2>2 DEF DescendAt
<1> HIDE DEF D, rank, V
<1>4. Freeing!Rests(t, offset, D, rank, V)
  BY <1>3, Zenon DEF Freeing!Rests
<1>5. /\ \E f : Freeing!Recursive(t, offset, D, f)
      /\ \A f : Freeing!Recursive(t, offset, D, f) => \A x \in D : f[x] \in V[x]
  BY <1>1, <1>2, <1>4, Freeing!RecursionExists
<1>6. Freeing!Recursive(t, offset, D, down)
  BY <1>5 DEF Freeing!Recursive
<1>7. InsertPoint(t, offset) = down[Root]
  BY DEF InsertPoint, DescendAt, D
<1> HIDE DEF down
<1>8. Root \in D
  BY DEF Linked, D
<1>9. down[Root] \in V[Root]
  BY <1>5, <1>6, <1>8
<1>10. down[Root] \in Places(t, Root)
  BY <1>8, <1>9 DEF V
<1> QED BY <1>7, <1>10 DEF Places

\* Where the walk is between two children of a vbuf, with len bytes to do at most
Between(t, v, len) == [offset : Nat, len : 0 .. len, pieces : Seq(Pieces(t, v))]

\* What the walk returns for a range
Walked(t, v, len) == [done : 0 .. len, pieces : Seq(Pieces(t, v))]

\* g and h agree on what they are asked below v, and answer it
AgreeUnder(t, v, g, h) ==
  \A a \in Asked(t) : v < a.vb => g[a] = h[a] /\ g[a] \in Walked(t, a.vb, a.len)

\* One turn of the loop rests on the walk of the child only.
LEMMA VisitIs ==
  ASSUME NEW t, Linked(t), NEW v \in DOMAIN t, NEW len \in Nat, NEW g, NEW h,
         AgreeUnder(t, v, g, h),
         NEW acc \in Between(t, v, len), NEW kid \in Kids(t[v])
  PROVE  /\ Visit(t, g, v, acc, kid) = Visit(t, h, v, acc, kid)
         /\ Visit(t, g, v, acc, kid) \in Between(t, v, len)
<1> DEFINE start == t[kid].start
           end == End(t[kid])
           n == Min({acc.len, start - acc.offset})
           l == Min({acc.len, end - acc.offset})
           ask == VbRange(kid, acc.offset, l)
           p == Piece(v, kid, acc.offset, n)
           Turn(f) == [offset |-> acc.offset + f[ask].done, len |-> acc.len - f[ask].done,
                       pieces |-> acc.pieces \o f[ask].pieces]
           gap == [offset |-> acc.offset + n, len |-> acc.len - n,
                   pieces |-> Append(acc.pieces, p)]
<1>1. kid \in DOMAIN t /\ v < kid /\ start \in Int /\ end \in Int
  BY DEF Linked, IsVbuf, End
<1>2. /\ acc = [offset |-> acc.offset, len |-> acc.len, pieces |-> acc.pieces]
      /\ acc.offset \in Nat /\ acc.len \in 0 .. len /\ acc.pieces \in Seq(Pieces(t, v))
  BY DEF Between
<1>3. \A f : Visit(t, f, v, acc, kid) =
               IF acc.len = 0 THEN acc
               ELSE IF acc.offset < start THEN gap
               ELSE IF HasBytes(t[kid]) /\ acc.offset < end THEN Turn(f)
               ELSE acc
  BY DEF Visit
<1>4. ASSUME acc.len # 0, acc.offset < start
      PROVE  gap \in Between(t, v, len)
  <2>1. n \in Nat \ {0} /\ n <= acc.len
    <3>1. start - acc.offset \in Int
      BY <1>1, <1>2
    <3>2. n = IF acc.len <= start - acc.offset THEN acc.len ELSE start - acc.offset
      BY <1>2, <3>1, MinPair
    <3> QED BY <1>1, <1>2, <1>4, <3>2
  <2> HIDE DEF n
  <2>2. p \in Pieces(t, v)
    BY <1>1, <1>2, <2>1 DEF Piece, Pieces, PlaceOK
  <2> HIDE DEF p
  <2>3. Append(acc.pieces, p) \in Seq(Pieces(t, v))
    BY <1>2, <2>2, AppendProperties
  <2>4. acc.offset + n \in Nat /\ acc.len - n \in 0 .. len
    BY <1>2, <2>1
  <2> QED BY <2>3, <2>4 DEF Between
<1>5. ASSUME acc.len # 0, acc.offset < end, HasBytes(t[kid])
      PROVE  Turn(g) = Turn(h) /\ Turn(g) \in Between(t, v, len)
  <2>1. l \in Nat /\ l <= acc.len
    <3>1. end - acc.offset \in Int
      BY <1>1, <1>2
    <3>2. l = IF acc.len <= end - acc.offset THEN acc.len ELSE end - acc.offset
      BY <1>2, <3>1, MinPair
    <3> QED BY <1>1, <1>2, <1>5, <3>2
  <2> HIDE DEF l
  <2>2. ask \in Asked(t) /\ ask.vb = kid /\ ask.len = l
    BY <1>1, <1>2, <2>1 DEF VbRange, Asked
  <2> HIDE DEF ask
  <2>3. g[ask] = h[ask] /\ g[ask] \in Walked(t, kid, l)
    BY <1>1, <2>2 DEF AgreeUnder
  <2>4. g[ask].done \in 0 .. l /\ g[ask].pieces \in Seq(Pieces(t, kid))
    BY <2>3 DEF Walked
  <2>5. acc.pieces \o g[ask].pieces \in Seq(Pieces(t, v))
    <3>1. Pieces(t, kid) \subseteq Pieces(t, v)
      BY <1>5 DEF Pieces
    <3>2. g[ask].pieces \in Seq(Pieces(t, v))
      <4> DEFINE S == Pieces(t, kid)
                 T == Pieces(t, v)
      <4> HIDE DEF S, T
      <4>1. S \subseteq T /\ g[ask].pieces \in Seq(S)
        BY <2>4, <3>1 DEF S, T
      <4>2. g[ask].pieces \in Seq(T)
        BY <4>1
      <4> QED BY <4>2 DEF T
    <3> QED BY <1>2, <3>2, ConcatProperties
  <2>6. acc.offset + g[ask].done \in Nat /\ acc.len - g[ask].done \in 0 .. len
    BY <1>2, <2>1, <2>4
  <2> QED BY <2>3, <2>5, <2>6 DEF Between
<1> HIDE DEF start, end, gap, Turn
<1> QED BY <1>3, <1>4, <1>5

\* The loop over the children.
LEMMA LoopIs ==
  ASSUME NEW t, Linked(t), NEW v \in DOMAIN t, NEW len \in Nat, NEW g, NEW h,
         AgreeUnder(t, v, g, h),
         NEW base \in Between(t, v, len)
  PROVE  /\ Loop(t, g, v, base, t[v].children) = Loop(t, h, v, base, t[v].children)
         /\ Loop(t, g, v, base, t[v].children) \in Between(t, v, len)
<1> DEFINE row == t[v].children
           n == Len(row)
<1>1. n \in Nat /\ DOMAIN row = 1 .. n
  BY LenProperties DEF Linked, IsVbuf
<1>2. \A k \in 1 .. n : row[k] \in Kids(t[v])
  BY DEF Kids
<1> HIDE DEF row, n
<1>3. PICK s : LoopRun(t, g, v, base, row, n, s)
  BY <1>1, LoopRuns
<1>4. PICK z : LoopRun(t, h, v, base, row, n, z)
  BY <1>1, LoopRuns
<1> DEFINE S == {k \in 0 .. n : s[k] = z[k] /\ s[k] \in Between(t, v, len)}
<1>5. 0 \in S
  BY <1>1, <1>3, <1>4 DEF LoopRun
<1>6. ASSUME NEW k \in 0 .. n - 1, k \in S
      PROVE  k + 1 \in S
  <2>1. k + 1 \in 1 .. n /\ k + 1 - 1 = k /\ s[k] = z[k] /\ s[k] \in Between(t, v, len)
    BY <1>1, <1>6
  <2>2. s[k + 1] = Visit(t, g, v, s[k], row[k + 1]) /\ z[k + 1] = Visit(t, h, v, z[k], row[k + 1])
    BY <1>3, <1>4, <2>1 DEF LoopRun
  <2>3. row[k + 1] \in Kids(t[v])
    BY <1>2, <2>1
  <2>4. Visit(t, g, v, s[k], row[k + 1]) = Visit(t, h, v, s[k], row[k + 1])
        /\ Visit(t, g, v, s[k], row[k + 1]) \in Between(t, v, len)
    BY <2>1, <2>3, VisitIs
  <2> QED BY <2>1, <2>2, <2>4
<1>7. n \in S
  <2> HIDE DEF S
  <2>1. 0 .. n \subseteq S
    BY <1>1, <1>5, <1>6, UpTo
  <2> QED BY <1>1, <2>1
<1> QED BY <1>3, <1>4, <1>7 DEF LoopRun, row

\* One call of the walk rests on those for the vbufs under its own.
LEMMA WalkVbufIs ==
  ASSUME NEW t, Linked(t), NEW ask \in Asked(t), NEW g, NEW h,
         AgreeUnder(t, ask.vb, g, h)
  PROVE  /\ WalkVbuf(t, g, ask) = WalkVbuf(t, h, ask)
         /\ WalkVbuf(t, g, ask) \in Walked(t, ask.vb, ask.len)
<1> DEFINE v == ask.vb
           base == [offset |-> ask.offset, len |-> ask.len, pieces |-> <<>>]
           all == Loop(t, g, v, base, t[v].children)
           rest == Min({all.len, End(t[v]) - all.offset})
           p == Piece(v, Null, all.offset, rest)
           Result(l, r, q) ==
             IF ask.offset + ask.len > End(t[v]) THEN [done |-> 0, pieces |-> <<>>]
             ELSE IF r > 0
             THEN [done |-> ask.len - l.len + r,
                   pieces |-> Append(l.pieces, q)]
             ELSE [done |-> ask.len - l.len, pieces |-> l.pieces]
<1>1. v \in DOMAIN t /\ ask.offset \in Nat /\ ask.len \in Nat
  BY DEF Asked
<1>2. base \in Between(t, v, ask.len)
  <2>1. <<>> \in Seq(Pieces(t, v))
    OBVIOUS
  <2> QED BY <1>1, <2>1 DEF Between
<1> HIDE DEF base
<1>3. all = Loop(t, h, v, base, t[v].children) /\ all \in Between(t, v, ask.len)
  BY <1>1, <1>2, LoopIs
<1>4. WalkVbuf(t, g, ask) = Result(all, rest, p)
  BY DEF WalkVbuf, Loop, base
<1>5. WalkVbuf(t, h, ask) = Result(all, rest, p)
  <2> DEFINE other == Loop(t, h, v, base, t[v].children)
             r == Min({other.len, End(t[v]) - other.offset})
  <2>1. WalkVbuf(t, h, ask) = Result(other, r, Piece(v, Null, other.offset, r))
    BY DEF WalkVbuf, Loop, base
  <2> HIDE DEF other, all
  <2>2. other = all
    BY <1>3 DEF other
  <2> HIDE DEF Result
  <2> QED BY <2>1, <2>2
<1> HIDE DEF all
<1>6. all.offset \in Nat /\ all.len \in 0 .. ask.len /\ all.pieces \in Seq(Pieces(t, v))
  BY <1>3 DEF Between
<1>7. End(t[v]) \in Int
  BY <1>1 DEF Linked, IsVbuf, End
<1>8. rest \in Int /\ rest <= all.len
  <2> DEFINE b == End(t[v]) - all.offset
  <2>1. all.len \in Int /\ b \in Int
    BY <1>1, <1>6, <1>7
  <2> HIDE DEF b
  <2>2. rest = IF all.len <= b THEN all.len ELSE b
    BY <2>1, MinPair DEF b
  <2> QED BY <2>1, <2>2
<1> HIDE DEF rest
<1>9. ASSUME rest > 0 PROVE Append(all.pieces, p) \in Seq(Pieces(t, v))
  <2>1. p \in Pieces(t, v)
    BY <1>1, <1>6, <1>8, <1>9 DEF Piece, Pieces, PlaceOK
  <2> HIDE DEF p
  <2> QED BY <1>6, <2>1, AppendProperties
<1>10. Result(all, rest, p) \in Walked(t, ask.vb, ask.len)
  <2>1. 0 \in 0 .. ask.len /\ <<>> \in Seq(Pieces(t, v)) /\ ask.len - all.len \in 0 .. ask.len
    BY <1>1, <1>6
  <2>2. ASSUME rest > 0 PROVE ask.len - all.len + rest \in 0 .. ask.len
    BY <1>1, <1>6, <1>8, <2>2
  <2> HIDE DEF p
  <2> QED BY <1>6, <1>9, <2>1, <2>2 DEF Walked
<1> QED BY <1>4, <1>5, <1>10

\* _replace and _delete cut their range into pieces with a vbuf and a place each.
LEMMA WalkIs ==
  ASSUME NEW t, Linked(t), NEW offset \in Nat, NEW len \in Nat
  PROVE  /\ Walk(t, offset, len).done \in 0 .. len
         /\ Len(Walk(t, offset, len).pieces) \in Nat
         /\ PiecesOK(t, Walk(t, offset, len).pieces, Len(Walk(t, offset, len).pieces))
<1> DEFINE D == Asked(t)
           rank == [ask \in D |-> ask.vb]
           V == [ask \in D |-> Walked(t, ask.vb, ask.len)]
           walk == CHOOSE f : f = [ask \in D |-> WalkAt(t, 0, f, ask)]
           ask == VbRange(Root, offset, len)
<1>1. PICK n \in Nat : DOMAIN t \subseteq 0 .. n
  BY DEF Linked
<1>2. rank \in [D -> 0 .. n]
  BY <1>1 DEF Asked
<1>3. ASSUME NEW x \in D, NEW g, NEW h,
             \A y \in D : rank[x] < rank[y] => g[y] = h[y] /\ g[y] \in V[y]
      PROVE  WalkAt(t, 0, g, x) = WalkAt(t, 0, h, x) /\ WalkAt(t, 0, g, x) \in V[x]
  <2>1. AgreeUnder(t, x.vb, g, h)
    BY <1>3 DEF AgreeUnder
  <2>2. WalkVbuf(t, g, x) = WalkVbuf(t, h, x) /\ WalkVbuf(t, g, x) \in Walked(t, x.vb, x.len)
    BY <2>1, WalkVbufIs
  <2> QED BY <2>2 DEF WalkAt
<1>4. Visiting!Rests(t, 0, D, rank, V)
  <2> HIDE DEF D, rank, V
  <2> QED BY <1>3, Zenon DEF Visiting!Rests
<1>5. /\ \E f : Visiting!Recursive(t, 0, D, f)
      /\ \A f : Visiting!Recursive(t, 0, D, f) => \A x \in D : f[x] \in V[x]
  <2> HIDE DEF D, rank, V
  <2> QED BY <1>1, <1>2, <1>4, Visiting!RecursionExists
<1>6. Visiting!Recursive(t, 0, D, walk)
  <2> HIDE DEF D
  <2> QED BY <1>5 DEF Visiting!Recursive
<1>7. Walk(t, offset, len) = walk[ask]
  BY DEF Walk, WalkAt
<1> HIDE DEF walk
<1>8. ask \in D /\ ask.len = len /\ ask.vb = Root
  BY DEF Linked, Asked, VbRange
<1>9. walk[ask] \in V[ask]
  <2> HIDE DEF D, V, ask
  <2> QED BY <1>5, <1>6, <1>8
<1>10. walk[ask] \in Walked(t, Root, len)
  <2> HIDE DEF D, ask
  <2> QED BY <1>8, <1>9
<1> HIDE DEF ask
<1>11. walk[ask].done \in 0 .. len /\ walk[ask].pieces \in Seq(Pieces(t, Root))
  BY <1>10 DEF Walked
<1> DEFINE pieces == walk[ask].pieces
<1>12. /\ Len(pieces) \in Nat /\ DOMAIN pieces = 1 .. Len(pieces)
       /\ \A i \in 1 .. Len(pieces) : pieces[i] \in Pieces(t, Root)
  BY <1>11, LenProperties
<1> HIDE DEF pieces
<1>13. PiecesOK(t, pieces, Len(pieces))
  BY <1>12 DEF PiecesOK, Pieces
<1> QED BY <1>7, <1>11, <1>12, <1>13 DEF pieces

(***************************************************************************)
(* vf_undo and vf_redo.                                                    *)
(***************************************************************************)

\* u is t with the vbufs of set switched on or off
Switched(t, u, set, on) ==
  /\ SameLinks(t, u)
  /\ \A w \in DOMAIN t : u[w].active = IF w \in set THEN on ELSE t[w].active

\* One vbuf: sizes and starts move, its flag changes.
LEMMA SwitchOne ==
  ASSUME NEW t, Linked(t), NEW v \in DOMAIN t, NEW on
  PROVE  Switched(t, Switch(t, v, on), {v}, on)
<1> DEFINE size == t[v].size
           moved == CASE t[v].buf_type = "INSERT" -> Resize(t, v, IF on THEN size ELSE -size)
                      [] t[v].buf_type = "DELETE" -> Resize(t, v, IF on THEN -size ELSE size)
                      [] OTHER -> t
           u == Switch(t, v, on)
<1>1. size \in Int /\ -size \in Int
  BY DEF Linked, IsVbuf
<1>2. SameLinks(t, moved) /\ \A w \in DOMAIN t : moved[w].active = t[w].active
  <2> HIDE DEF size
  <2>1. \A by \in Int : /\ SameLinks(t, Resize(t, v, by))
                        /\ \A w \in DOMAIN t : Resize(t, v, by)[w].active = t[w].active
    BY ResizeLinks
  <2>2. SameLinks(t, t)
    BY DEF SameLinks, Linked
  <2>3. CASE t[v].buf_type = "INSERT"
    BY <1>1, <2>1, <2>3
  <2>4. CASE t[v].buf_type = "DELETE"
    BY <1>1, <2>1, <2>4
  <2>5. CASE t[v].buf_type \notin {"INSERT", "DELETE"}
    BY <2>2, <2>5
  <2> QED BY <2>3, <2>4, <2>5
<1>3. u = [moved EXCEPT ![v].active = on]
  BY DEF Switch
<1> HIDE DEF u, moved
<1>4. DOMAIN moved = DOMAIN t /\ moved = [w \in DOMAIN t |-> moved[w]]
  BY <1>2 DEF SameLinks
<1>5. u = [w \in DOMAIN t |-> IF w = v THEN [moved[v] EXCEPT !.active = on] ELSE moved[w]]
  BY <1>3, <1>4
<1>6. /\ IsVbuf(u[v]) /\ u[v].active = on
      /\ u[v].parent = moved[v].parent /\ u[v].children = moved[v].children
  <2> DEFINE vb == moved[v]
  <2>1. IsVbuf(vb)
    BY <1>2 DEF SameLinks
  <2>2. u[v] = [vb EXCEPT !.active = on]
    BY <1>5
  <2> HIDE DEF vb
  <2>3. u[v] = [parent |-> vb.parent, children |-> vb.children, start |-> vb.start,
                size |-> vb.size, buf_type |-> vb.buf_type, active |-> on,
                buf |-> vb.buf]
    BY <2>1, <2>2 DEF IsVbuf
  <2>4. IsVbuf(u[v])
    BY <2>1, <2>3 DEF IsVbuf
  <2> QED BY <2>3, <2>4 DEF vb
<1>7. \A w \in DOMAIN t : w # v => u[w] = moved[w]
  BY <1>5
<1>8. DOMAIN u = DOMAIN t /\ u = [w \in DOMAIN u |-> u[w]]
  BY <1>5
<1>9. Switched(t, u, {v}, on)
  BY <1>2, <1>6, <1>7, <1>8 DEF Switched, SameLinks
<1> QED BY <1>9 DEF u

\* One after the other.
LEMMA SwitchedBoth ==
  ASSUME NEW t, NEW u, NEW w, NEW a, NEW b, NEW on,
         Switched(t, u, a, on), Switched(u, w, b, on)
  PROVE  Switched(t, w, a \cup b, on)
BY DEF Switched, SameLinks

\* Nothing switched.
LEMMA SwitchedNone ==
  ASSUME NEW t, Linked(t), NEW on
  PROVE  Switched(t, t, {}, on)
BY DEF Switched, SameLinks, Linked

\* The first k names of a list
First(list, k) == {list[i] : i \in 1 .. k}

\* The trees vf_undo and vf_redo go through for one entry.
LEMMA SwitchRunIs ==
  ASSUME NEW t, Linked(t), NEW n \in Nat, NEW list, VbList(t, list, n), NEW on,
         NEW s, SwitchRun(on, t, list, n, s), NEW m \in 0 .. n
  PROVE  Switched(t, s[m], First(list, m), on)
<1> DEFINE Done(k) == {list[i] : i \in 1 .. k}
           S == {k \in 0 .. n : Switched(t, s[k], Done(k), on)}
<1>2. 0 \in S
  <2>1. Done(0) = {}
    OBVIOUS
  <2> HIDE DEF Done
  <2> QED BY <2>1, SwitchedNone DEF SwitchRun
<1>3. ASSUME NEW k \in 0 .. n - 1, k \in S
      PROVE  k + 1 \in S
  <2> DEFINE v == list[k + 1]
  <2>1. k + 1 \in 1 .. n /\ k + 1 - 1 = k /\ Switched(t, s[k], Done(k), on)
    BY <1>3
  <2>2. Linked(s[k]) /\ v \in DOMAIN s[k]
    BY <2>1, SameLinksLinked DEF Switched, SameLinks, VbList
  <2>3. s[k + 1] = Switch(s[k], v, on)
    BY <2>1 DEF SwitchRun
  <2> HIDE DEF v, Done
  <2>4. Switched(s[k], s[k + 1], {v}, on)
    BY <2>2, <2>3, SwitchOne
  <2>5. Done(k + 1) = Done(k) \cup {v}
    BY <2>1 DEF Done, v
  <2>6. Switched(t, s[k + 1], Done(k + 1), on)
    BY <2>1, <2>4, <2>5, SwitchedBoth
  <2> QED BY <2>1, <2>6
<1>4. m \in S
  <2> HIDE DEF S
  <2>1. 0 .. n \subseteq S
    BY <1>2, <1>3, UpTo
  <2> QED BY <2>1
<1> QED BY <1>4 DEF First

\* The vbufs of one entry.
LEMMA SwitchListIs ==
  ASSUME NEW t, Linked(t), NEW n \in Nat, NEW list, VbList(t, list, n), NEW on
  PROVE  Switched(t, SwitchList(t, list, on), Range(list), on)
<1>1. PICK s : SwitchRun(on, t, list, n, s)
  BY SwitchRuns DEF VbList
<1>2. n \in 0 .. n
  OBVIOUS
<1>3. Switched(t, s[n], First(list, n), on)
  BY <1>1, <1>2, SwitchRunIs
<1>4. First(list, n) = Range(list)
  BY DEF VbList, Range, First
<1> QED BY <1>1, <1>3, <1>4 DEF SwitchRun

\* The trees they go through entry by entry.
LEMMA SwitchAllRunIs ==
  ASSUME Owned(tree, ul), NEW m \in Nat, NEW entries, DOMAIN entries = 1 .. m,
         \A k \in 1 .. m : \E i \in 1 .. Len(ul) : entries[k] = ul[i],
         NEW on, NEW s, SwitchAllRun(on, tree, entries, m, s), NEW n \in 0 .. m
  PROVE  Switched(tree, s[n],
                  {v \in DOMAIN tree : \E k \in 1 .. n : v \in Range(entries[k].vb_list)}, on)
<1> DEFINE Done(k) == {v \in DOMAIN tree : \E i \in 1 .. k : v \in Range(entries[i].vb_list)}
           S == {k \in 0 .. m : Switched(tree, s[k], Done(k), on)}
<1>2. 0 \in S
  <2>1. Done(0) = {}
    OBVIOUS
  <2>2. Linked(tree)
    BY DEF Owned
  <2> HIDE DEF Done
  <2>3. s[0] = tree
    BY DEF SwitchAllRun
  <2>4. Switched(tree, tree, {}, on)
    BY <2>2, SwitchedNone
  <2>5. Switched(tree, s[0], Done(0), on)
    BY <2>1, <2>3, <2>4
  <2> QED BY <2>5
<1>3. ASSUME NEW k \in 0 .. m - 1, k \in S
      PROVE  k + 1 \in S
  <2> DEFINE vbs == entries[k + 1].vb_list
  <2>1. k + 1 \in 1 .. m /\ k + 1 - 1 = k /\ Switched(tree, s[k], Done(k), on)
    BY <1>3
  <2>2. Linked(s[k])
    BY <2>1, SameLinksLinked DEF Owned, Switched
  <2>3. PICK j \in Nat : VbList(tree, vbs, j)
    <3>1. PICK i \in 1 .. Len(ul) : entries[k + 1] = ul[i]
      BY <2>1
    <3> QED BY <3>1 DEF Owned
  <2>4. VbList(s[k], vbs, j)
    BY <2>1, <2>3 DEF VbList, Switched, SameLinks
  <2>5. s[k + 1] = SwitchList(s[k], vbs, on)
    <3>1. s[k + 1] = SwitchEntry(s[k], entries[k + 1], on)
      BY <2>1 DEF SwitchAllRun
    <3>2. SwitchEntry(s[k], entries[k + 1], on) = SwitchList(s[k], vbs, on)
      BY DEF SwitchEntry, SwitchList
    <3> QED BY <3>1, <3>2
  <2>6. Range(vbs) \subseteq DOMAIN tree
    BY <2>3, NamesAreVbufs
  <2> HIDE DEF vbs, Done
  <2>7. Switched(s[k], s[k + 1], Range(vbs), on)
    BY <2>2, <2>4, <2>5, SwitchListIs
  <2>8. Done(k + 1) = Done(k) \cup Range(vbs)
    <3>1. \A i : i \in 1 .. k + 1 <=> i \in 1 .. k \/ i = k + 1
      BY <2>1
    <3> QED BY <2>6, <3>1 DEF Done, vbs
  <2>9. Switched(tree, s[k + 1], Done(k + 1), on)
    BY <2>1, <2>7, <2>8, SwitchedBoth
  <2> QED BY <2>1, <2>9
<1>4. n \in S
  <2> HIDE DEF S
  <2>1. 0 .. m \subseteq S
    BY <1>2, <1>3, UpTo
  <2> QED BY <2>1
<1> QED BY <1>4

\* m entries of the undo list, in any order.
LEMMA SwitchAllIs ==
  ASSUME Owned(tree, ul), NEW m \in Nat, NEW entries, DOMAIN entries = 1 .. m,
         \A k \in 1 .. m : \E i \in 1 .. Len(ul) : entries[k] = ul[i],
         NEW on
  PROVE  Switched(tree, SwitchAll(tree, entries, on),
                  {v \in DOMAIN tree : \E k \in 1 .. m : v \in Range(entries[k].vb_list)}, on)
<1>1. PICK s : SwitchAllRun(on, tree, entries, m, s)
  BY SwitchAllRuns
<1>2. m \in 0 .. m
  OBVIOUS
<1>3. Switched(tree, s[m],
               {v \in DOMAIN tree : \E k \in 1 .. m : v \in Range(entries[k].vb_list)}, on)
  BY <1>1, <1>2, SwitchAllRunIs
<1> QED BY <1>1, <1>3 DEF SwitchAllRun

\* Undo and redo: the vbufs of the entries switched are those of the entries
\* marked, and the others keep their state.
LEMMA OwnedMarked ==
  ASSUME TreeInv, NEW from \in Int, NEW to \in Int, NEW on,
         NEW m \in Nat, NEW entries, DOMAIN entries = 1 .. m,
         \A k \in 1 .. m : \E i \in 1 .. Len(ul) : i \in from .. to /\ entries[k] = ul[i],
         \A i \in 1 .. Len(ul) : i \in from .. to => \E k \in 1 .. m : entries[k] = ul[i]
  PROVE  Owned(SwitchAll(tree, entries, on), Marked(from, to, on))
<1> DEFINE t == SwitchAll(tree, entries, on)
           list == Marked(from, to, on)
           set == {v \in DOMAIN tree : \E k \in 1 .. m : v \in Range(entries[k].vb_list)}
           len == Len(ul)
<1>1. /\ len \in Nat /\ Owned(tree, ul)
      /\ \A i \in 1 .. len : ul[i] = [vb_list |-> ul[i].vb_list, applied |-> ul[i].applied]
  BY DEF TreeInv, HistoryInv, UndoListTypeOK
<1>2. Switched(tree, t, set, on)
  <2>1. \A k \in 1 .. m : \E i \in 1 .. Len(ul) : entries[k] = ul[i]
    OBVIOUS
  <2> HIDE DEF list
  <2> QED BY <1>1, <2>1, SwitchAllIs
<1>3. Len(list) = len
  <2>1. list = [i \in 1 .. len |-> list[i]]
    BY DEF Marked
  <2> HIDE DEF list
  <2> QED BY <1>1, <2>1, FcnIsSeq
<1>4. ASSUME NEW i \in 1 .. len
      PROVE  /\ list[i].vb_list = ul[i].vb_list
             /\ list[i].applied = IF i \in from .. to THEN on ELSE ul[i].applied
  <2>1. list[i] = IF i \in from .. to THEN [ul[i] EXCEPT !.applied = on] ELSE ul[i]
    BY DEF Marked
  <2> HIDE DEF list
  <2> DEFINE e == ul[i]
  <2>2. e = [vb_list |-> e.vb_list, applied |-> e.applied]
    BY <1>1
  <2> HIDE DEF e
  <2>3. [e EXCEPT !.applied = on] = [vb_list |-> e.vb_list, applied |-> on]
    BY <2>2
  <2> QED BY <2>1, <2>3 DEF e
<1>5. ASSUME NEW i \in 1 .. len, NEW v \in Range(ul[i].vb_list)
      PROVE  v \in DOMAIN tree /\ (v \in set <=> i \in from .. to)
  <2>1. PICK n \in Nat : VbList(tree, ul[i].vb_list, n)
    BY <1>1 DEF Owned
  <2>2. v \in DOMAIN tree
    BY <2>1, NamesAreVbufs
  <2>3. ASSUME v \in set PROVE i \in from .. to
    <3>1. PICK k \in 1 .. m : v \in Range(entries[k].vb_list)
      BY <2>3
    <3>2. PICK j \in 1 .. len : j \in from .. to /\ entries[k] = ul[j]
      OBVIOUS
    <3>3. Range(ul[i].vb_list) \cap Range(ul[j].vb_list) # {}
      BY <3>1, <3>2
    <3>4. i = j
      BY <1>1, <3>3 DEF Owned
    <3> QED BY <3>2, <3>4
  <2>4. ASSUME i \in from .. to PROVE v \in set
    BY <2>2, <2>4
  <2> QED BY <2>2, <2>3, <2>4
<1> HIDE DEF set, t, list
<1>6. Linked(t) /\ DOMAIN t = DOMAIN tree
  BY <1>1, <1>2, SameLinksLinked DEF Owned, Switched, SameLinks
<1>7. ASSUME NEW i \in 1 .. len
      PROVE  \E n \in Nat : VbList(t, list[i].vb_list, n)
  <2>1. PICK n \in Nat : VbList(tree, ul[i].vb_list, n)
    BY <1>1 DEF Owned
  <2>2. VbList(t, list[i].vb_list, n)
    BY <1>4, <1>6, <2>1 DEF VbList
  <2> QED BY <2>2
<1>8. ASSUME NEW i \in 1 .. len, NEW v \in Range(list[i].vb_list)
      PROVE  /\ t[v].active = list[i].applied
             /\ t[v].parent # Root =>
                  \E j \in 1 .. i - 1 : t[v].parent \in Range(list[j].vb_list)
  <2>1. v \in Range(ul[i].vb_list)
    BY <1>4
  <2>2. v \in DOMAIN tree /\ t[v].parent = tree[v].parent
    BY <1>2, <1>5, <2>1 DEF Switched, SameLinks
  <2>3. t[v].active = IF i \in from .. to THEN on ELSE tree[v].active
    BY <1>2, <1>5, <2>1, <2>2 DEF Switched
  <2>4. tree[v].active = ul[i].applied
    BY <1>1, <2>1 DEF Owned
  <2>6. t[v].active = list[i].applied
    BY <1>4, <2>3, <2>4
  <2>5. ASSUME t[v].parent # Root
        PROVE  \E j \in 1 .. i - 1 : t[v].parent \in Range(list[j].vb_list)
    <3>1. PICK j \in 1 .. i - 1 : tree[v].parent \in Range(ul[j].vb_list)
      BY <1>1, <2>1, <2>2, <2>5 DEF Owned
    <3>2. j \in 1 .. len
      BY <1>1, <3>1
    <3> QED BY <1>4, <2>2, <3>1, <3>2
  <2> QED BY <2>5, <2>6
<1>9. \A v \in DOMAIN t \ {Root} : \E i \in 1 .. len : v \in Range(list[i].vb_list)
  BY <1>1, <1>4, <1>6 DEF Owned
<1>10. \A i, j \in 1 .. len :
         Range(list[i].vb_list) \cap Range(list[j].vb_list) # {} => i = j
  BY <1>1, <1>4 DEF Owned
<1>11. Owned(t, list)
  BY <1>3, <1>6, <1>7, <1>8, <1>9, <1>10 DEF Owned
<1> QED BY <1>11 DEF t, list

(***************************************************************************)
(* An undo and its redo cancel out.                                        *)
(***************************************************************************)

\* The line of a vbuf is itself and the line of its parent, and is in V[v] when
\* all that is built in this way is.
LEMMA LineIs ==
  ASSUME NEW t, Linked(t), NEW V, {Root} \in V[Root],
         \A x \in DOMAIN t \ {Root} : \A S \in V[t[x].parent] : {x} \cup S \in V[x]
  PROVE  \A v \in DOMAIN t :
           /\ Line(t, v) \in V[v]
           /\ Line(t, v) = IF v = Root THEN {Root} ELSE {v} \cup Line(t, t[v].parent)
<1>1. PICK n \in Nat : DOMAIN t \subseteq 0 .. n
  BY DEF Linked
<1> DEFINE D == DOMAIN t
           rank == [v \in D |-> n - v]
           up == CHOOSE f : f = [v \in D |-> Climb(t, 0, f, v)]
<1>2. rank \in [D -> 0 .. n]
  BY <1>1
<1>3. ASSUME NEW x \in D \ {Root}
      PROVE  t[x].parent \in D /\ rank[x] < rank[t[x].parent]
  <2>1. t[x].parent \in D /\ x \in Kids(t[t[x].parent])
    BY DEF Linked
  <2>2. t[x].parent < x
    BY <2>1 DEF Linked
  <2>3. x \in 0 .. n /\ t[x].parent \in 0 .. n
    BY <1>1, <2>1
  <2> QED BY <2>1, <2>2, <2>3
<1>4. ASSUME NEW x \in D, NEW g, NEW h,
             \A y \in D : rank[x] < rank[y] => g[y] = h[y] /\ g[y] \in V[y]
      PROVE  Climb(t, 0, g, x) = Climb(t, 0, h, x) /\ Climb(t, 0, g, x) \in V[x]
  <2> HIDE DEF rank, D
  <2>1. CASE x = Root
    BY <2>1 DEF Climb
  <2>2. CASE x # Root
    <3>1. g[t[x].parent] = h[t[x].parent] /\ g[t[x].parent] \in V[t[x].parent]
      BY <1>3, <1>4, <2>2
    <3>2. {x} \cup g[t[x].parent] \in V[x]
      BY <2>2, <3>1 DEF D
    <3> QED BY <2>2, <3>1, <3>2 DEF Climb
  <2> QED BY <2>1, <2>2
<1> HIDE DEF D, rank
<1>5. Climbing!Rests(t, 0, D, rank, V)
  BY <1>4, Zenon DEF Climbing!Rests
<1>6. /\ \E f : Climbing!Recursive(t, 0, D, f)
      /\ \A f : Climbing!Recursive(t, 0, D, f) => \A x \in D : f[x] \in V[x]
  BY <1>1, <1>2, <1>5, Climbing!RecursionExists
<1>7. Climbing!Recursive(t, 0, D, up)
  BY <1>6 DEF Climbing!Recursive
<1>8. \A v : Line(t, v) = up[v]
  BY DEF Line, Climb, D
<1> HIDE DEF up
<1>9. up = [v \in D |-> Climb(t, 0, up, v)]
  BY <1>7 DEF Climbing!Recursive
<1>10. ASSUME NEW v \in D
       PROVE  up[v] = IF v = Root THEN {Root} ELSE {v} \cup up[t[v].parent]
  <2>1. up[v] = Climb(t, 0, up, v)
    BY <1>9
  <2> QED BY <2>1 DEF Climb
<1>11. \A v \in D : up[v] \in V[v]
  BY <1>6, <1>7
<1>12. ASSUME NEW v \in D
       PROVE  Line(t, v) = IF v = Root THEN {Root} ELSE {v} \cup Line(t, t[v].parent)
  BY <1>8, <1>10
<1> QED BY <1>8, <1>11, <1>12 DEF D

\* It depends on the links only, and has vbufs of the tree.
LEMMA LineSame ==
  ASSUME NEW t, Linked(t), NEW u, SameLinks(t, u), NEW v \in DOMAIN t
  PROVE  Line(u, v) = Line(t, v) /\ Line(t, v) \subseteq DOMAIN t
<1> DEFINE V == [x \in DOMAIN t |-> SUBSET DOMAIN t]
           W == [x \in DOMAIN t |-> {Line(t, x)}]
<1>1. Root \in DOMAIN t /\ \A x \in DOMAIN t \ {Root} : t[x].parent \in DOMAIN t
  BY DEF Linked
<1>2. {Root} \in V[Root]
      /\ \A x \in DOMAIN t \ {Root} : \A S \in V[t[x].parent] : {x} \cup S \in V[x]
  BY <1>1
<1>3. \A x \in DOMAIN t :
        /\ Line(t, x) \in V[x]
        /\ Line(t, x) = IF x = Root THEN {Root} ELSE {x} \cup Line(t, t[x].parent)
  <2> HIDE DEF V
  <2> QED BY <1>2, LineIs
<1>4. {Root} \in W[Root]
  BY <1>1, <1>3
<1>5. ASSUME NEW x \in DOMAIN u \ {Root}, NEW S \in W[u[x].parent]
      PROVE  {x} \cup S \in W[x]
  <2>1. x \in DOMAIN t \ {Root} /\ u[x].parent = t[x].parent /\ t[x].parent \in DOMAIN t
    BY <1>1 DEF SameLinks
  <2>2. S = Line(t, t[x].parent)
    BY <2>1
  <2>3. {x} \cup S = Line(t, x)
    BY <1>3, <2>1, <2>2
  <2> QED BY <2>1, <2>3
<1>6. Linked(u) /\ v \in DOMAIN u
  BY SameLinksLinked DEF SameLinks
<1>7. Line(u, v) \in W[v]
  <2> HIDE DEF W
  <2> QED BY <1>4, <1>5, <1>6, LineIs
<1> QED BY <1>3, <1>7

\* Nor does what is behind a vbuf depend on more.
LEMMA BehindSame ==
  ASSUME NEW t, Linked(t), NEW u, SameLinks(t, u), NEW v \in DOMAIN t
  PROVE  Behind(u, v) = Behind(t, v)
<1> DEFINE Roots(s) == UNION {Later(s, x) : x \in Line(s, v) \ {Root}}
<1>1. Line(u, v) = Line(t, v) /\ Line(t, v) \subseteq DOMAIN t
  BY LineSame
<1>2. ASSUME NEW x \in Line(t, v) \ {Root}
      PROVE  Later(u, x) = Later(t, x)
  <2>1. x \in DOMAIN t \ {Root}
    BY <1>1
  <2>2. t[x].parent \in DOMAIN t /\ u[x].parent = t[x].parent
    BY <2>1 DEF Linked, SameLinks
  <2>3. Siblings(u, x) = Siblings(t, x)
    BY <2>1, <2>2 DEF Siblings, SameLinks
  <2>4. Place(u, x) = Place(t, x)
    BY <2>3 DEF Place
  <2> QED BY <2>3, <2>4 DEF Later
<1>3. Roots(u) = Roots(t)
  BY <1>1, <1>2
<1>4. DOMAIN u = DOMAIN t /\ \A w \in DOMAIN t : Line(u, w) = Line(t, w)
  BY LineSame DEF SameLinks
<1>5. \A s : Behind(s, v) = {w \in DOMAIN s : Line(s, w) \cap Roots(s) # {}}
  BY DEF Behind
<1> HIDE DEF Roots
<1> QED BY <1>3, <1>4, <1>5

\* What switching v adds to the sizes above it and the starts behind it
Change(vb, on) ==
  CASE vb.buf_type = "INSERT" -> IF on THEN vb.size ELSE -vb.size
    [] vb.buf_type = "DELETE" -> IF on THEN -vb.size ELSE vb.size
    [] OTHER -> 0

\* u becomes r when v is switched, in a tree linked like t
Moved(t, u, r, v, on, by) ==
  /\ SameLinks(t, r)
  /\ \A w \in DOMAIN t :
       /\ r[w].size = u[w].size + IF w \in Line(t, v) \ {v} THEN by ELSE 0
       /\ r[w].start = u[w].start + IF w \in Behind(t, v) THEN by ELSE 0
       /\ r[w].buf_type = u[w].buf_type
       /\ r[w].buf = u[w].buf
       /\ r[w].active = IF w = v THEN on ELSE u[w].active

\* A resize moves what the links say, and nothing else.
LEMMA ResizeMoves ==
  ASSUME NEW t, Linked(t), NEW u, SameLinks(t, u), NEW v \in DOMAIN t, NEW by \in Int,
         NEW w \in DOMAIN t
  PROVE  LET r == Resize(u, v, by)
         IN  /\ r[w].size = u[w].size + IF w \in Line(t, v) \ {v} THEN by ELSE 0
             /\ r[w].start = u[w].start + IF w \in Behind(t, v) THEN by ELSE 0
             /\ r[w].buf_type = u[w].buf_type
             /\ r[w].buf = u[w].buf
             /\ r[w].active = u[w].active
<1> DEFINE r == Resize(u, v, by)
           above == Line(t, v) \ {v}
           behind == Behind(t, v)
           vb == u[w]
           size == IF w \in above THEN vb.size + by ELSE vb.size
           start == IF w \in behind THEN vb.start + by ELSE vb.start
<1>1. Line(u, v) = Line(t, v) /\ Behind(u, v) = Behind(t, v) /\ DOMAIN u = DOMAIN t
  BY LineSame, BehindSame DEF SameLinks
<1>2. r = [x \in DOMAIN t |->
             [u[x] EXCEPT !.size  = IF x \in above THEN @ + by ELSE @,
                          !.start = IF x \in behind THEN @ + by ELSE @]]
  BY <1>1 DEF Resize
<1>3. r[w] = [vb EXCEPT !.size = size, !.start = start]
  BY <1>2
<1>4. IsVbuf(vb)
  BY DEF SameLinks
<1> HIDE DEF r, vb, above, behind
<1>5. r[w] = [parent |-> vb.parent, children |-> vb.children, start |-> start,
              size |-> size, buf_type |-> vb.buf_type, active |-> vb.active,
              buf |-> vb.buf]
  BY <1>3, <1>4 DEF IsVbuf
<1>6. vb.size \in Int /\ vb.start \in Int
  BY <1>4 DEF IsVbuf
<1>7. size = vb.size + IF w \in above THEN by ELSE 0
  BY <1>6
<1>8. start = vb.start + IF w \in behind THEN by ELSE 0
  BY <1>6
<1> QED BY <1>5, <1>7, <1>8 DEF r, vb, above, behind

\* Switching one vbuf.
LEMMA SwitchMoves ==
  ASSUME NEW t, Linked(t), NEW u, SameLinks(t, u), NEW v \in DOMAIN t, NEW on
  PROVE  Moved(t, u, Switch(u, v, on), v, on, Change(u[v], on))
<1> DEFINE by == Change(u[v], on)
           moved == CASE u[v].buf_type = "INSERT" -> Resize(u, v, IF on THEN u[v].size ELSE -u[v].size)
                      [] u[v].buf_type = "DELETE" -> Resize(u, v, IF on THEN -u[v].size ELSE u[v].size)
                      [] OTHER -> u
           r == Switch(u, v, on)
<1>1. /\ Linked(u) /\ v \in DOMAIN u /\ DOMAIN u = DOMAIN t
      /\ \A w \in DOMAIN t : IsVbuf(u[w])
  BY SameLinksLinked DEF SameLinks
<1>2. u[v].size \in Int /\ -u[v].size \in Int /\ by \in Int
  BY <1>1 DEF IsVbuf, Change
<1>3. ASSUME NEW w \in DOMAIN t
      PROVE  /\ moved[w].size = u[w].size + IF w \in Line(t, v) \ {v} THEN by ELSE 0
             /\ moved[w].start = u[w].start + IF w \in Behind(t, v) THEN by ELSE 0
             /\ moved[w].buf_type = u[w].buf_type
             /\ moved[w].buf = u[w].buf
             /\ moved[w].active = u[w].active
  <2>1. \A by1 \in Int :
          LET m == Resize(u, v, by1)
          IN  /\ m[w].size = u[w].size + IF w \in Line(t, v) \ {v} THEN by1 ELSE 0
              /\ m[w].start = u[w].start + IF w \in Behind(t, v) THEN by1 ELSE 0
              /\ m[w].buf_type = u[w].buf_type
              /\ m[w].buf = u[w].buf
              /\ m[w].active = u[w].active
    BY ResizeMoves
  <2>2. CASE u[v].buf_type = "INSERT"
    <3>1. moved = Resize(u, v, by)
      BY <2>2 DEF Change
    <3> HIDE DEF moved, by
    <3> QED BY <1>2, <2>1, <3>1
  <2>3. CASE u[v].buf_type = "DELETE"
    <3>1. moved = Resize(u, v, by)
      BY <2>3 DEF Change
    <3> HIDE DEF moved, by
    <3> QED BY <1>2, <2>1, <3>1
  <2>4. CASE u[v].buf_type \notin {"INSERT", "DELETE"}
    <3>1. moved = u /\ by = 0
      BY <2>4 DEF Change
    <3>2. u[w].size \in Int /\ u[w].start \in Int
      BY <1>1 DEF IsVbuf
    <3> HIDE DEF moved, by
    <3> QED BY <3>1, <3>2
  <2> QED BY <2>2, <2>3, <2>4
<1>4. SameLinks(t, moved)
  <2>1. \A by1 \in Int : SameLinks(u, Resize(u, v, by1))
    BY <1>1, ResizeLinks
  <2>2. SameLinks(u, moved)
    <3>1. CASE u[v].buf_type = "INSERT"
      BY <1>2, <2>1, <3>1
    <3>2. CASE u[v].buf_type = "DELETE"
      BY <1>2, <2>1, <3>2
    <3>3. CASE u[v].buf_type \notin {"INSERT", "DELETE"}
      <4>1. moved = u
        BY <3>3
      <4> HIDE DEF moved
      <4> QED BY <4>1 DEF SameLinks
    <3> QED BY <3>1, <3>2, <3>3
  <2> HIDE DEF moved
  <2> QED BY <2>2 DEF SameLinks
<1>5. r = [moved EXCEPT ![v].active = on]
  BY DEF Switch
<1> HIDE DEF r, moved, by
<1>6. DOMAIN moved = DOMAIN t /\ moved = [w \in DOMAIN t |-> moved[w]]
  BY <1>4 DEF SameLinks
<1>7. r = [w \in DOMAIN t |-> IF w = v THEN [moved[v] EXCEPT !.active = on] ELSE moved[w]]
  BY <1>5, <1>6
<1>8. /\ IsVbuf(r[v]) /\ r[v].active = on
      /\ r[v].parent = moved[v].parent /\ r[v].children = moved[v].children
      /\ r[v].size = moved[v].size /\ r[v].start = moved[v].start
      /\ r[v].buf_type = moved[v].buf_type /\ r[v].buf = moved[v].buf
  <2> DEFINE vb == moved[v]
  <2>1. IsVbuf(vb)
    BY <1>4 DEF SameLinks
  <2>2. r[v] = [vb EXCEPT !.active = on]
    BY <1>7
  <2> HIDE DEF vb
  <2>3. r[v] = [parent |-> vb.parent, children |-> vb.children, start |-> vb.start,
                size |-> vb.size, buf_type |-> vb.buf_type, active |-> on,
                buf |-> vb.buf]
    BY <2>1, <2>2 DEF IsVbuf
  <2>4. IsVbuf(r[v])
    BY <2>1, <2>3 DEF IsVbuf
  <2> QED BY <2>3, <2>4 DEF vb
<1>9. \A w \in DOMAIN t : w # v => r[w] = moved[w]
  BY <1>7
<1>10. DOMAIN r = DOMAIN t /\ r = [w \in DOMAIN r |-> r[w]]
  BY <1>7
<1>11. SameLinks(t, r)
  BY <1>4, <1>8, <1>9, <1>10 DEF SameLinks
<1>12. Moved(t, u, r, v, on, by)
  BY <1>3, <1>8, <1>9, <1>11 DEF Moved
<1> QED BY <1>12 DEF r, by

\* No vbuf of the list is above another of it.
Apart(t, list, n) ==
  \A i, j \in 1 .. n : list[j] \notin Line(t, list[i]) \ {list[i]}

\* What is above a vbuf is the root or belongs to older entries.
LEMMA LineOlder ==
  ASSUME NEW t, NEW list, Owned(t, list), NEW e \in 1 .. Len(list),
         NEW v \in Range(list[e].vb_list), NEW x \in Line(t, v) \ {v, Root}
  PROVE  \E j \in 1 .. e - 1 : x \in Range(list[j].vb_list)
<1> DEFINE Entry(i) == Range(list[i].vb_list)
           Older(y) == {w \in DOMAIN t :
                          /\ y # Root
                          /\ \/ w = Root
                             \/ \E j \in 1 .. Len(list) :
                                  /\ w \in Entry(j)
                                  /\ \A i \in 1 .. Len(list) : y \in Entry(i) => j < i}
           V == [y \in DOMAIN t |-> SUBSET ({y} \cup Older(y))]
<1>1. Linked(t) /\ Root \in DOMAIN t
  BY DEF Owned, Linked
<1>2. {Root} \in V[Root]
  BY <1>1
<1>3. ASSUME NEW y \in DOMAIN t \ {Root}, NEW S \in V[t[y].parent]
      PROVE  {y} \cup S \in V[y]
  <2> DEFINE p == t[y].parent
  <2>1. p \in DOMAIN t
    BY <1>1 DEF Linked
  <2>2. S \subseteq {p} \cup Older(p)
    BY <2>1
  <2>3. PICK i \in 1 .. Len(list) : y \in Entry(i)
    BY DEF Owned
  <2>4. \A k \in 1 .. Len(list) : y \in Entry(k) => k = i
    BY <2>3 DEF Owned
  <2>5. p \in Older(y)
    <3>1. CASE p = Root
      BY <2>1, <3>1
    <3>2. CASE p # Root
      <4>1. PICK j \in 1 .. i - 1 : p \in Entry(j)
        BY <2>3, <3>2 DEF Owned
      <4>2. j \in 1 .. Len(list) /\ j < i
        BY <2>3, <4>1
      <4> QED BY <2>1, <2>4, <4>1, <4>2
    <3> QED BY <3>1, <3>2
  <2>6. ASSUME NEW w \in Older(p) PROVE w \in Older(y)
    <3>1. CASE w = Root
      BY <3>1
    <3>2. p # Root
      BY <2>6
    <3>3. CASE w # Root
      <4>1. PICK j \in 1 .. Len(list) :
              w \in Entry(j) /\ \A k \in 1 .. Len(list) : p \in Entry(k) => j < k
        BY <2>6, <3>3
      <4>2. PICK k \in 1 .. i - 1 : p \in Entry(k)
        BY <2>3, <3>2 DEF Owned
      <4>3. k \in 1 .. Len(list) /\ k < i
        BY <2>3, <4>2
      <4>4. j < i
        BY <4>1, <4>2, <4>3
      <4> QED BY <2>4, <2>6, <4>1, <4>4
    <3> QED BY <3>1, <3>3
  <2> HIDE DEF Older, p
  <2>7. {y} \cup S \subseteq {y} \cup Older(y)
    BY <2>2, <2>5, <2>6
  <2> QED BY <2>7
<1>4. v \in DOMAIN t
  <2>1. PICK n \in Nat : VbList(t, list[e].vb_list, n)
    BY DEF Owned
  <2> QED BY <2>1, NamesAreVbufs
<1>5. Line(t, v) \subseteq {v} \cup Older(v)
  <2>1. Line(t, v) \in V[v]
    <3> HIDE DEF V
    <3> QED BY <1>1, <1>2, <1>3, <1>4, LineIs
  <2> HIDE DEF Older
  <2> QED BY <1>4, <2>1
<1>6. PICK j \in 1 .. Len(list) : x \in Entry(j) /\ j < e
  BY <1>5
<1> QED BY <1>6

\* The vbufs of one entry hang side by side, under those of older entries.
LEMMA EntryApart ==
  ASSUME NEW t, NEW list, Owned(t, list), NEW e \in 1 .. Len(list),
         NEW n \in Nat, VbList(t, list[e].vb_list, n)
  PROVE  Apart(t, list[e].vb_list, n)
<1>1. ASSUME NEW i \in 1 .. n, NEW j \in 1 .. n,
             list[e].vb_list[j] \in Line(t, list[e].vb_list[i]) \ {list[e].vb_list[i]}
      PROVE  FALSE
  <2> DEFINE v == list[e].vb_list[i]
             w == list[e].vb_list[j]
  <2>1. v \in Range(list[e].vb_list) /\ w \in Range(list[e].vb_list) /\ w # Root
    BY NamesAreVbufs DEF VbList
  <2>2. w \in Line(t, v) \ {v, Root}
    BY <1>1, <2>1
  <2> HIDE DEF v, w
  <2>3. PICK k \in 1 .. e - 1 : w \in Range(list[k].vb_list)
    BY <2>1, <2>2, LineOlder
  <2>4. k \in 1 .. Len(list) /\ k # e
    BY <2>3
  <2> QED BY <2>1, <2>3, <2>4 DEF Owned
<1> QED BY <1>1 DEF Apart

\* The trees vf_undo and vf_redo go through for one entry: each vbuf is switched
\* by the size it had at the start.
LEMMA RunMoves ==
  ASSUME NEW t, Linked(t), NEW u, SameLinks(t, u), NEW n \in Nat, NEW list,
         VbList(t, list, n), Apart(t, list, n), NEW on, NEW s, SwitchRun(on, u, list, n, s)
  PROVE  /\ \A k \in 0 .. n :
              /\ SameLinks(t, s[k])
              /\ \A w \in DOMAIN t : s[k][w].buf_type = u[w].buf_type /\ s[k][w].buf = u[w].buf
              /\ \A j \in 1 .. n : s[k][list[j]].size = u[list[j]].size
         /\ \A k \in 1 .. n : Moved(t, s[k - 1], s[k], list[k], on, Change(u[list[k]], on))
<1> DEFINE Kept(k) ==
             /\ SameLinks(t, s[k])
             /\ \A w \in DOMAIN t : s[k][w].buf_type = u[w].buf_type /\ s[k][w].buf = u[w].buf
             /\ \A j \in 1 .. n : s[k][list[j]].size = u[list[j]].size
           S == {k \in 0 .. n : Kept(k)}
<1>1. 0 \in S
  BY DEF SwitchRun
<1>2. ASSUME NEW k \in 1 .. n, Kept(k - 1)
      PROVE  /\ Moved(t, s[k - 1], s[k], list[k], on, Change(u[list[k]], on))
             /\ Kept(k)
  <2> DEFINE v == list[k]
             p == s[k - 1]
             r == s[k]
             by == Change(u[v], on)
  <2>1. v \in DOMAIN t /\ SameLinks(t, p)
    BY <1>2 DEF VbList
  <2>2. r = Switch(p, v, on)
    BY DEF SwitchRun
  <2>3. Change(p[v], on) = by
    BY <1>2, <2>1 DEF Change
  <2>4. Moved(t, p, r, v, on, by)
    <3> HIDE DEF v, p, r, by, Kept
    <3> QED BY <2>1, <2>2, <2>3, SwitchMoves
  <2>5. ASSUME NEW j \in 1 .. n PROVE r[list[j]].size = u[list[j]].size
    <3>1. list[j] \in DOMAIN t /\ list[j] \notin Line(t, v) \ {v}
      BY DEF VbList, Apart
    <3>2. p[list[j]].size = u[list[j]].size /\ p[list[j]].size \in Int
      BY <1>2, <2>1, <3>1 DEF SameLinks, IsVbuf
    <3>3. r[list[j]].size = p[list[j]].size + 0
      <4> HIDE DEF v, p, r, by, Kept
      <4> QED BY <2>4, <3>1 DEF Moved
    <3> QED BY <3>2, <3>3
  <2>6. ASSUME NEW w \in DOMAIN t
        PROVE  r[w].buf_type = u[w].buf_type /\ r[w].buf = u[w].buf
    <3>1. p[w].buf_type = u[w].buf_type /\ p[w].buf = u[w].buf
      BY <1>2
    <3> HIDE DEF v, p, r, by, Kept
    <3> QED BY <2>4, <3>1 DEF Moved
  <2>7. SameLinks(t, r)
    <3> HIDE DEF v, p, r, by, Kept
    <3> QED BY <2>4 DEF Moved
  <2> QED BY <2>4, <2>5, <2>6, <2>7
<1>3. ASSUME NEW k \in 0 .. n - 1, k \in S
      PROVE  k + 1 \in S
  <2>1. k + 1 \in 1 .. n /\ k + 1 - 1 = k /\ Kept(k)
    BY <1>3
  <2> HIDE DEF Kept
  <2>2. Kept(k + 1)
    BY <1>2, <2>1
  <2> QED BY <2>1, <2>2
<1>4. \A k \in 0 .. n : Kept(k)
  <2> HIDE DEF S
  <2>1. 0 .. n \subseteq S
    BY <1>1, <1>3, UpTo
  <2> QED BY <2>1 DEF S
<1>5. \A k \in 1 .. n : k - 1 \in 0 .. n
  OBVIOUS
<1>6. \A k \in 1 .. n : Moved(t, s[k - 1], s[k], list[k], on, Change(u[list[k]], on))
  <2> HIDE DEF Kept
  <2> QED BY <1>2, <1>4, <1>5
<1> QED BY <1>4, <1>6

\* Undo and redo of one entry that is in force cancel out: what a vbuf is moved by
\* when it is switched off, it is moved back by when it is switched on.
LEMMA OffAndOn ==
  ASSUME NEW t, Linked(t), NEW n \in Nat, NEW list, VbList(t, list, n), Apart(t, list, n),
         \A v \in Range(list) : t[v].active = TRUE
  PROVE  SwitchList(SwitchList(t, list, FALSE), list, TRUE) = t
<1>1. PICK s : SwitchRun(FALSE, t, list, n, s)
  BY SwitchRuns DEF VbList
<1> DEFINE off == SwitchList(t, list, FALSE)
<1>2. PICK z : SwitchRun(TRUE, off, list, n, z)
  BY SwitchRuns DEF VbList
<1>3. SameLinks(t, t)
  BY DEF SameLinks, Linked
<1>4. /\ \A k \in 0 .. n :
            /\ SameLinks(t, s[k])
            /\ \A w \in DOMAIN t : s[k][w].buf_type = t[w].buf_type /\ s[k][w].buf = t[w].buf
            /\ \A j \in 1 .. n : s[k][list[j]].size = t[list[j]].size
      /\ \A k \in 1 .. n : Moved(t, s[k - 1], s[k], list[k], FALSE, Change(t[list[k]], FALSE))
  BY <1>1, <1>3, RunMoves, Zenon
<1>5. off = s[n] /\ n \in 0 .. n
  BY <1>1 DEF SwitchRun
<1> HIDE DEF off
<1>6. SameLinks(t, off)
  BY <1>4, <1>5
<1>7. /\ \A k \in 0 .. n :
            /\ SameLinks(t, z[k])
            /\ \A w \in DOMAIN t : z[k][w].buf_type = off[w].buf_type /\ z[k][w].buf = off[w].buf
            /\ \A j \in 1 .. n : z[k][list[j]].size = off[list[j]].size
      /\ \A k \in 1 .. n : Moved(t, z[k - 1], z[k], list[k], TRUE, Change(off[list[k]], TRUE))
  BY <1>2, <1>6, RunMoves, Zenon
<1>8. ASSUME NEW k \in 1 .. n
      PROVE  Change(off[list[k]], TRUE) = -Change(t[list[k]], FALSE)
             /\ Change(t[list[k]], FALSE) \in Int
  <2>1. list[k] \in DOMAIN t
    BY DEF VbList
  <2>2. t[list[k]].size \in Int
    BY <2>1 DEF Linked, IsVbuf
  <2>3. off[list[k]].size = t[list[k]].size /\ off[list[k]].buf_type = t[list[k]].buf_type
    BY <1>4, <1>5, <2>1
  <2> QED BY <2>2, <2>3 DEF Change
\* z undoes turn by turn what s did
<1> DEFINE Mirror(k) ==
             \A w \in DOMAIN t :
               /\ z[k][w].size + s[k][w].size = off[w].size + t[w].size
               /\ z[k][w].start + s[k][w].start = off[w].start + t[w].start
               /\ z[k][w].active =
                    IF \E j \in 1 .. k : w = list[j] THEN TRUE ELSE off[w].active
               /\ s[k][w].active =
                    IF \E j \in 1 .. k : w = list[j] THEN FALSE ELSE t[w].active
           S == {k \in 0 .. n : Mirror(k)}
<1>9. \A w \in DOMAIN t : /\ off[w].size \in Int /\ off[w].start \in Int
                          /\ t[w].size \in Int /\ t[w].start \in Int
  BY <1>6 DEF SameLinks, Linked, IsVbuf
<1>10. 0 \in S
  <2>1. s[0] = t /\ z[0] = off
    BY <1>1, <1>2 DEF SwitchRun
  <2>2. Mirror(0)
    BY <1>9, <2>1
  <2> HIDE DEF Mirror
  <2> QED BY <1>5, <2>2
<1>11. ASSUME NEW k \in 0 .. n - 1, k \in S
       PROVE  k + 1 \in S
  <2> DEFINE v == list[k + 1]
             by == Change(t[v], FALSE)
  <2>0. k + 1 \in 1 .. n /\ k + 1 - 1 = k /\ k \in 0 .. n
    BY <1>11
  <2>1. Mirror(k)
    <3> HIDE DEF Mirror
    <3> QED BY <1>11
  <2>2. Moved(t, s[k], s[k + 1], v, FALSE, by)
    <3> HIDE DEF Mirror, by
    <3> DEFINE j == k + 1
    <3>1. j \in 1 .. n /\ j - 1 = k
      BY <2>0
    <3> HIDE DEF j
    <3>2. Moved(t, s[j - 1], s[j], list[j], FALSE, Change(t[list[j]], FALSE))
      BY <1>4, <3>1
    <3> QED BY <3>1, <3>2 DEF by, j
  <2>3. Moved(t, z[k], z[k + 1], v, TRUE, -by) /\ by \in Int
    <3> HIDE DEF Mirror, by
    <3> DEFINE j == k + 1
    <3>1. j \in 1 .. n /\ j - 1 = k
      BY <2>0
    <3>2. Change(off[v], TRUE) = -by /\ by \in Int
      BY <1>8, <2>0 DEF by
    <3> HIDE DEF j
    <3>3. Moved(t, z[j - 1], z[j], list[j], TRUE, Change(off[list[j]], TRUE))
      BY <1>7, <3>1
    <3> QED BY <3>1, <3>2, <3>3 DEF j
  <2>4. ASSUME NEW w \in DOMAIN t
        PROVE  /\ z[k + 1][w].size + s[k + 1][w].size = off[w].size + t[w].size
               /\ z[k + 1][w].start + s[k + 1][w].start = off[w].start + t[w].start
    <3> DEFINE a == z[k][w]
               b == s[k][w]
               a1 == z[k + 1][w]
               b1 == s[k + 1][w]
    <3>1. a.size + b.size = off[w].size + t[w].size /\ a.start + b.start = off[w].start + t[w].start
      BY <2>1
    <3>2. a.size \in Int /\ a.start \in Int /\ b.size \in Int /\ b.start \in Int
      BY <1>4, <1>7, <2>0 DEF SameLinks, IsVbuf
    <3> HIDE DEF v, by, Mirror
    <3>3. /\ b1.size = b.size + IF w \in Line(t, v) \ {v} THEN by ELSE 0
          /\ b1.start = b.start + IF w \in Behind(t, v) THEN by ELSE 0
      BY <2>2 DEF Moved
    <3>4. /\ a1.size = a.size + IF w \in Line(t, v) \ {v} THEN -by ELSE 0
          /\ a1.start = a.start + IF w \in Behind(t, v) THEN -by ELSE 0
      BY <2>3 DEF Moved
    <3> HIDE DEF a, b, a1, b1
    <3>5. a1.size + b1.size = a.size + b.size
      BY <2>3, <3>2, <3>3, <3>4
    <3>6. a1.start + b1.start = a.start + b.start
      BY <2>3, <3>2, <3>3, <3>4
    <3>7. a1.size + b1.size = off[w].size + t[w].size /\ a1.start + b1.start = off[w].start + t[w].start
      BY <3>1, <3>5, <3>6
    <3> QED BY <3>7 DEF a1, b1
  <2>5. ASSUME NEW w \in DOMAIN t
        PROVE  /\ z[k + 1][w].active =
                    IF \E j \in 1 .. k + 1 : w = list[j] THEN TRUE ELSE off[w].active
               /\ s[k + 1][w].active =
                    IF \E j \in 1 .. k + 1 : w = list[j] THEN FALSE ELSE t[w].active
    <3>1. /\ z[k + 1][w].active = IF w = v THEN TRUE ELSE z[k][w].active
          /\ s[k + 1][w].active = IF w = v THEN FALSE ELSE s[k][w].active
      <4> HIDE DEF v, by, Mirror
      <4> QED BY <2>2, <2>3 DEF Moved
    <3>2. (\E j \in 1 .. k + 1 : w = list[j]) <=> (w = v \/ \E j \in 1 .. k : w = list[j])
      <4>1. \A j : j \in 1 .. k + 1 <=> j \in 1 .. k \/ j = k + 1
        BY <2>0
      <4> QED BY <4>1
    <3>3. /\ z[k][w].active = IF \E j \in 1 .. k : w = list[j] THEN TRUE ELSE off[w].active
          /\ s[k][w].active = IF \E j \in 1 .. k : w = list[j] THEN FALSE ELSE t[w].active
      BY <2>1
    <3> HIDE DEF v, Mirror
    <3> QED BY <3>1, <3>2, <3>3, Zenon
  <2>6. Mirror(k + 1)
    <3> HIDE DEF v, by
    <3> QED BY <2>4, <2>5
  <2> HIDE DEF Mirror
  <2> QED BY <2>0, <2>6
<1>12. Mirror(n)
  <2> HIDE DEF S
  <2>1. 0 .. n \subseteq S
    BY <1>10, <1>11, UpTo
  <2>2. n \in S
    BY <2>1
  <2> QED BY <2>2 DEF S
<1> DEFINE r == z[n]
<1>13. r = SwitchList(off, list, TRUE)
  BY <1>2 DEF SwitchRun
<1>14. SameLinks(t, r)
  BY <1>7
<1>15. ASSUME NEW w \in DOMAIN t PROVE r[w] = t[w]
  <2>1. r[w].size = t[w].size /\ r[w].start = t[w].start
    <3>1. /\ r[w].size + off[w].size = off[w].size + t[w].size
          /\ r[w].start + off[w].start = off[w].start + t[w].start
      BY <1>5, <1>12
    <3>2. r[w].size \in Int /\ r[w].start \in Int
      BY <1>14 DEF SameLinks, IsVbuf
    <3>3. /\ off[w].size \in Int /\ off[w].start \in Int
          /\ t[w].size \in Int /\ t[w].start \in Int
      BY <1>9
    <3> DEFINE a == r[w].size
               b == t[w].size
               c == off[w].size
               d == r[w].start
               e == t[w].start
               f == off[w].start
    <3>4. a + c = c + b /\ a \in Int /\ b \in Int /\ c \in Int
      BY <3>1, <3>2, <3>3
    <3>5. d + f = f + e /\ d \in Int /\ e \in Int /\ f \in Int
      BY <3>1, <3>2, <3>3
    <3> HIDE DEF a, b, c, d, e, f
    <3>6. a = b /\ d = e
      BY <3>4, <3>5
    <3> QED BY <3>6 DEF a, b, d, e
  <2>2. r[w].active = t[w].active
    <3>1. /\ r[w].active = IF \E j \in 1 .. n : w = list[j] THEN TRUE ELSE off[w].active
          /\ off[w].active = IF \E j \in 1 .. n : w = list[j] THEN FALSE ELSE t[w].active
      BY <1>5, <1>12
    <3>2. \A j \in 1 .. n : t[list[j]].active = TRUE
      BY DEF VbList, Range
    <3> HIDE DEF r, Mirror
    <3> QED BY <3>1, <3>2
  <2>3. r[w].buf_type = t[w].buf_type /\ r[w].buf = t[w].buf
    BY <1>4, <1>5, <1>7
  <2>4. IsVbuf(r[w]) /\ IsVbuf(t[w]) /\ r[w].parent = t[w].parent /\ r[w].children = t[w].children
    BY <1>14 DEF SameLinks, Linked
  <2> DEFINE a == r[w]
             b == t[w]
  <2>5. /\ a.size = b.size /\ a.start = b.start /\ a.active = b.active
        /\ a.buf_type = b.buf_type /\ a.buf = b.buf
        /\ a.parent = b.parent /\ a.children = b.children /\ IsVbuf(a) /\ IsVbuf(b)
    BY <2>1, <2>2, <2>3, <2>4
  <2> HIDE DEF a, b
  <2>6. a = b
    BY <2>5 DEF IsVbuf
  <2> QED BY <2>6 DEF a, b
<1>16. r = t
  <2> HIDE DEF r
  <2>1. DOMAIN r = DOMAIN t /\ r = [w \in DOMAIN r |-> r[w]] /\ t = [w \in DOMAIN t |-> t[w]]
    BY <1>14 DEF SameLinks, Linked
  <2> QED BY <1>15, <2>1
<1> QED BY <1>13, <1>16 DEF off

(***************************************************************************)
(* The sizes when one vbuf is switched.                                    *)
(***************************************************************************)

\* L is a line that ends in v: with a vbuf it has its parent, and of the vbufs
\* of one list it has one at most, but one of every list down to v
IsLine(t, L, v) ==
  /\ L \subseteq DOMAIN t /\ v \in L
  /\ \A x \in L : x <= v
  /\ \A x \in L \ {Root} : t[x].parent \in L
  /\ \A x \in L \ {v} : \E k \in L : k \in Kids(t[x])
  /\ \A x, y \in L \ {Root} : t[x].parent = t[y].parent => x = y

LEMMA LineFacts ==
  ASSUME NEW t, Linked(t), NEW v \in DOMAIN t
  PROVE  IsLine(t, Line(t, v), v)
<1> DEFINE V == [x \in DOMAIN t |-> {S \in SUBSET DOMAIN t : IsLine(t, S, x)}]
<1>1. /\ Root \in DOMAIN t
      /\ \A x \in DOMAIN t : x \in Nat
      /\ \A x \in DOMAIN t \ {Root} : /\ t[x].parent \in DOMAIN t
                                      /\ x \in Kids(t[t[x].parent])
                                      /\ t[x].parent < x
  BY DEF Linked
<1>2. {Root} \in V[Root]
  BY <1>1 DEF IsLine
<1>3. ASSUME NEW x \in DOMAIN t \ {Root}, NEW S \in V[t[x].parent]
      PROVE  {x} \cup S \in V[x]
  <2> DEFINE p == t[x].parent
             R == {x} \cup S
  <2>1. p \in DOMAIN t /\ x \in Kids(t[p]) /\ p < x
    BY <1>1
  <2>2. S \in SUBSET DOMAIN t /\ IsLine(t, S, p)
    BY <2>1
  <2> HIDE DEF V
  <2>3. R \subseteq DOMAIN t /\ x \in R
    BY <2>2
  <2>4. \A y \in R : y <= x
    BY <1>1, <2>1, <2>2 DEF IsLine
  <2>5. \A y \in R \ {Root} : t[y].parent \in R
    BY <2>2 DEF IsLine
  <2>6. \A y \in R \ {x} : \E k \in R : k \in Kids(t[y])
    BY <2>1, <2>2 DEF IsLine
  <2>7. ASSUME NEW y \in S \ {Root}, t[y].parent = p PROVE FALSE
    <3>1. p < y /\ y <= p /\ p \in Nat /\ y \in Nat
      BY <1>1, <2>1, <2>2, <2>7 DEF IsLine
    <3> QED BY <3>1
  <2>8. \A y, z \in R \ {Root} : t[y].parent = t[z].parent => y = z
    BY <2>2, <2>7 DEF IsLine
  <2>9. IsLine(t, R, x)
    BY <2>3, <2>4, <2>5, <2>6, <2>8 DEF IsLine
  <2> QED BY <2>3, <2>9 DEF V
<1>4. Line(t, v) \in V[v]
  <2> HIDE DEF V
  <2> QED BY <1>2, <1>3, LineIs
<1> QED BY <1>4

\* When what v adds changes by as much as the sizes above it, the sizes add up
\* again.
LEMMA MovedSized ==
  ASSUME NEW t, Linked(t), NEW u, SameLinks(t, u), Sized(u), NEW v \in DOMAIN t \ {Root},
         NEW on \in BOOLEAN, NEW by \in Int, NEW r, Moved(t, u, r, v, on, by),
         \A x \in Line(t, v) \ {v, Root} : u[x].active = TRUE,
         Gain(r[v]) = Gain(u[v]) + by
  PROVE  Sized(r)
<1> DEFINE L == Line(t, v)
<1>1. IsLine(t, L, v)
  BY LineFacts
<1> HIDE DEF L
<1>2. /\ Linked(u) /\ DOMAIN u = DOMAIN t /\ DOMAIN r = DOMAIN t
      /\ \A w \in DOMAIN t : /\ u[w].children = t[w].children
                             /\ r[w].children = t[w].children
                             /\ u[w].size \in Int
  BY SameLinksLinked DEF Moved, SameLinks, IsVbuf
<1>3. \A w \in DOMAIN t :
        /\ r[w].size = u[w].size + IF w \in L \ {v} THEN by ELSE 0
        /\ r[w].buf_type = u[w].buf_type
        /\ r[w].buf = u[w].buf
        /\ r[w].active = IF w = v THEN on ELSE u[w].active
        /\ HasBytes(r[w]) <=> HasBytes(u[w])
        /\ Kids(r[w]) = Kids(u[w]) /\ Kids(u[w]) = Kids(t[w])
  BY <1>2 DEF Moved, L, HasBytes, Kids
<1>4. \A w \in DOMAIN t \ {Root} : Gain(u[w]) \in Int
  BY <1>2, GainIs DEF Sized
<1>5. ASSUME NEW w \in DOMAIN t \ {Root}
      PROVE  Gain(r[w]) = Gain(u[w]) + IF w \in L THEN by ELSE 0
  <2>1. CASE w = v
    BY <1>1, <2>1 DEF IsLine
  <2>2. CASE w # v /\ w \in L
    <3>1. Kids(t[w]) # {} /\ u[w].active = TRUE
      BY <1>1, <2>2 DEF IsLine, L
    <3>2. HasBytes(u[w]) /\ u[w].buf_type \in {"INSERT", "REPLACE", "DELETE"}
          /\ Len(u[w].buf) \in Int
      BY <1>2, <1>3, <3>1 DEF Sized, Typed
    <3>3. r[w].size = u[w].size + by /\ r[w].active = TRUE /\ u[w].size \in Int
          /\ r[w].buf = u[w].buf /\ r[w].buf_type = u[w].buf_type
      BY <1>2, <1>3, <2>2, <3>1
    <3>4. CASE u[w].buf_type = "INSERT"
      <4>1. Gain(u[w]) = u[w].size /\ Gain(r[w]) = r[w].size
        BY <3>1, <3>3, <3>4 DEF Gain
      <4> QED BY <2>2, <3>3, <4>1
    <3>5. CASE u[w].buf_type = "REPLACE"
      <4>1. Gain(u[w]) = u[w].size - Len(u[w].buf) /\ Gain(r[w]) = r[w].size - Len(u[w].buf)
        BY <3>1, <3>3, <3>5 DEF Gain
      <4>2. u[w].size + by - Len(u[w].buf) = u[w].size - Len(u[w].buf) + by
        BY <3>2, <3>3
      <4> QED BY <2>2, <3>3, <4>1, <4>2
    <3> QED BY <3>2, <3>4, <3>5 DEF HasBytes
  <2>3. CASE w \notin L
    <3>1. w # v
      BY <1>1, <2>3 DEF IsLine
    <3>2. r[w].size = u[w].size
      BY <1>2, <1>3, <2>3
    <3>3. Gain(r[w]) = Gain(u[w])
      BY <1>3, <3>1, <3>2, GainSame
    <3> QED BY <1>4, <2>3, <3>3
  <2> QED BY <2>1, <2>2, <2>3
<1>6. Typed(r)
  <2>1. ASSUME NEW w \in DOMAIN r
        PROVE  /\ Len(r[w].buf) \in Nat
               /\ r[w].active \in BOOLEAN
               /\ r[w].buf_type \in IF w = Root THEN {"FILE"} ELSE {"INSERT", "REPLACE", "DELETE"}
               /\ ~HasBytes(r[w]) => Kids(r[w]) = {}
    <3>1. w \in DOMAIN t /\ w \in DOMAIN u
      BY <1>2
    <3> QED BY <1>3, <3>1 DEF Sized, Typed
  <2> QED BY <2>1 DEF Typed
<1>7. ASSUME NEW w \in DOMAIN r, HasBytes(r[w])
      PROVE  r[w].size = SumOver(r, Len(r[w].buf), r[w].children)
  <2> DEFINE kids == t[w].children
             n == Len(kids)
             base == Len(u[w].buf)
  <2>1. w \in DOMAIN t /\ r[w].children = kids /\ u[w].children = kids
        /\ Len(r[w].buf) = base /\ HasBytes(u[w])
    BY <1>2, <1>3, <1>7
  <2>2. base \in Int
    BY <1>2, <2>1 DEF Sized, Typed
  <2>3. /\ n \in Nat /\ DOMAIN kids = 1 .. n
        /\ \A k \in 1 .. n : /\ kids[k] \in DOMAIN t \ {Root} /\ kids[k] \in Kids(t[w])
                             /\ w < kids[k] /\ t[kids[k]].parent = w
        /\ \A i, j \in 1 .. n : kids[i] = kids[j] => i = j
    BY <2>1, RowIs
  <2>4. \A k \in Kids(t[w]) : \E j \in 1 .. n : k = kids[j]
    BY DEF Kids
  <2>5. u[w].size = SumOver(u, base, kids) /\ u[w].size \in Int
    BY <1>2, <2>1 DEF Sized, Balanced
  <2> HIDE DEF kids, n, base
  <2>6. CASE w \in L \ {v}
    <3>1. PICK j \in 1 .. n : kids[j] \in L
      BY <1>1, <2>4, <2>6 DEF IsLine
    <3>2. ASSUME NEW k \in 1 .. n
          PROVE  kids[k] \in L <=> k = j
      BY <1>1, <2>3, <3>1 DEF IsLine
    <3>3. GainMoves(u, r, kids, n, j, by)
      BY <1>4, <1>5, <2>3, <3>2 DEF GainMoves
    <3>4. j \in 0 .. n /\ j # 0
      BY <2>3
    <3>5. SumOver(r, base, kids) = SumOver(u, base, kids) + IF j = 0 THEN 0 ELSE by
      BY <2>2, <2>3, <3>3, <3>4, SumMoves
    <3>6. r[w].size = u[w].size + by
      BY <1>3, <2>1, <2>6
    <3> QED BY <2>1, <2>5, <3>4, <3>5, <3>6
  <2>7. CASE w \notin L \ {v}
    <3>1. ASSUME NEW k \in 1 .. n
          PROVE  kids[k] \notin L
      <4>1. SUFFICES ASSUME kids[k] \in L PROVE FALSE
        OBVIOUS
      <4>2. w \in L /\ kids[k] <= v /\ w < kids[k]
        BY <1>1, <2>3, <4>1 DEF IsLine
      <4>3. w = v /\ kids[k] \in Nat /\ v \in Nat
        BY <2>3, <2>7, <4>2 DEF Linked
      <4> QED BY <4>2, <4>3
    <3>2. SameGains(u, r, kids, n)
      <4>1. ASSUME NEW k \in 1 .. n
            PROVE  Gain(u[kids[k]]) \in Int /\ Gain(r[kids[k]]) = Gain(u[kids[k]])
        <5> DEFINE y == kids[k]
        <5>1. y \in DOMAIN t \ {Root} /\ y \notin L
          BY <2>3, <3>1
        <5> HIDE DEF y
        <5>2. Gain(u[y]) \in Int /\ Gain(r[y]) = Gain(u[y]) + 0
          BY <1>4, <1>5, <5>1
        <5> QED BY <5>2 DEF y
      <4> QED BY <4>1 DEF SameGains
    <3>3. SumOver(r, base, kids) = SumOver(u, base, kids)
      BY <2>2, <2>3, <3>2, SumSame
    <3>4. r[w].size = u[w].size
      BY <1>2, <1>3, <2>1, <2>7
    <3> QED BY <2>1, <2>5, <3>3, <3>4
  <2> QED BY <2>6, <2>7
<1>8. Balanced(r)
  BY <1>7 DEF Balanced
<1> QED BY <1>6, <1>8 DEF Sized

\* The state a vbuf has before it is switched on or off
Other(on) == IF on = TRUE THEN FALSE ELSE TRUE

\* v is to be switched; all above it is in force, all under it undone
Ready(u, v, on) ==
  /\ u[v].active = Other(on)
  /\ \A x \in Line(u, v) \ {v, Root} : u[x].active = TRUE
  /\ \A x \in Kids(u[v]) : u[x].active = FALSE

\* Switching a vbuf, all above it in force and all under it undone, leaves the
\* sizes right.
LEMMA SwitchSized ==
  ASSUME NEW u, Linked(u), Sized(u), NEW v \in DOMAIN u \ {Root}, NEW on \in BOOLEAN,
         Ready(u, v, on)
  PROVE  Sized(Switch(u, v, on))
<1> DEFINE r == Switch(u, v, on)
           by == Change(u[v], on)
<1>1. SameLinks(u, u)
  BY DEF SameLinks, Linked
<1>2. Moved(u, u, r, v, on, by)
  BY <1>1, SwitchMoves
<1> HIDE DEF r
<1>3. /\ u[v].size \in Int /\ Len(u[v].buf) \in Int
      /\ u[v].buf_type \in {"INSERT", "REPLACE", "DELETE"}
  BY DEF Linked, IsVbuf, Sized, Typed
<1>4. by \in Int
  BY <1>3 DEF Change
<1>5. /\ r[v].size = u[v].size /\ r[v].active = on
      /\ r[v].buf_type = u[v].buf_type /\ r[v].buf = u[v].buf
  BY <1>2, <1>3 DEF Moved
<1>6. Gain(r[v]) = Gain(u[v]) + by
  <2>0. (on => u[v].active = FALSE) /\ (~on => u[v].active = TRUE)
    BY DEF Other, Ready
  <2>1. CASE u[v].buf_type = "INSERT"
    <3>1. CASE on
      <4>1. Gain(r[v]) = u[v].size /\ Gain(u[v]) = 0 /\ by = u[v].size
        BY <1>5, <2>0, <2>1, <3>1 DEF Gain, Change
      <4> QED BY <1>3, <4>1
    <3>2. CASE ~on
      <4>1. Gain(r[v]) = 0 /\ Gain(u[v]) = u[v].size /\ by = -u[v].size
        BY <1>5, <2>0, <2>1, <3>2 DEF Gain, Change
      <4> QED BY <1>3, <4>1
    <3> QED BY <3>1, <3>2
  <2>2. CASE u[v].buf_type = "DELETE"
    <3>1. CASE on
      <4>1. Gain(r[v]) = -u[v].size /\ Gain(u[v]) = 0 /\ by = -u[v].size
        BY <1>5, <2>0, <2>2, <3>1 DEF Gain, Change
      <4> QED BY <1>3, <4>1
    <3>2. CASE ~on
      <4>1. Gain(r[v]) = 0 /\ Gain(u[v]) = -u[v].size /\ by = u[v].size
        BY <1>5, <2>0, <2>2, <3>2 DEF Gain, Change
      <4> QED BY <1>3, <4>1
    <3> QED BY <3>1, <3>2
  <2>3. CASE u[v].buf_type = "REPLACE"
    <3> DEFINE kids == u[v].children
               n == Len(kids)
    <3>1. /\ n \in Nat /\ DOMAIN kids = 1 .. n
          /\ \A k \in 1 .. n : kids[k] \in Kids(u[v])
      BY RowIs
    <3>2. u[v].size = SumOver(u, Len(u[v].buf), kids)
      BY <2>3 DEF Sized, Balanced, HasBytes
    <3> HIDE DEF kids, n
    <3>3. \A k \in 1 .. n : Gain(u[kids[k]]) = 0
      BY <3>1 DEF Gain, Ready
    <3>4. u[v].size = Len(u[v].buf)
      BY <1>3, <3>1, <3>2, <3>3, SumOfUndone
    <3>5. by = 0
      BY <2>3 DEF Change
    <3>6. Gain(r[v]) = 0 /\ Gain(u[v]) = 0
      <4>1. u[v].size - Len(u[v].buf) = 0
        BY <1>3, <3>4
      <4>2. CASE on
        BY <1>5, <2>0, <2>3, <4>1, <4>2 DEF Gain
      <4>3. CASE ~on
        BY <1>5, <2>0, <2>3, <4>1, <4>3 DEF Gain
      <4> QED BY <4>2, <4>3
    <3> QED BY <3>5, <3>6
  <2> QED BY <1>3, <2>1, <2>2, <2>3
<1> HIDE DEF by
<1>7. Sized(r)
  <2>1. \A x \in Line(u, v) \ {v, Root} : u[x].active = TRUE
    BY DEF Ready
  <2> QED BY <1>1, <1>2, <1>4, <1>6, <2>1, MovedSized
<1> QED BY <1>7 DEF r

\* What hangs under it belongs to newer ones.
LEMMA KidsNewer ==
  ASSUME NEW t, NEW list, Owned(t, list), NEW e \in 1 .. Len(list),
         NEW v \in Range(list[e].vb_list), NEW x \in Kids(t[v])
  PROVE  \E i \in 1 .. Len(list) : x \in Range(list[i].vb_list) /\ e < i
<1>1. v \in DOMAIN t \ {Root}
  <2>1. PICK n \in Nat : VbList(t, list[e].vb_list, n)
    BY DEF Owned
  <2> QED BY <2>1, NamesAreVbufs
<1>2. x \in DOMAIN t /\ t[x].parent = v /\ v < x /\ x \in Nat /\ v \in Nat
  BY <1>1 DEF Owned, Linked
<1>3. x # Root
  BY <1>2 DEF Root
<1>4. PICK i \in 1 .. Len(list) : x \in Range(list[i].vb_list)
  BY <1>2, <1>3 DEF Owned
<1>5. PICK j \in 1 .. i - 1 : v \in Range(list[j].vb_list)
  BY <1>1, <1>2, <1>4 DEF Owned
<1>6. j \in 1 .. Len(list)
  BY <1>4, <1>5
<1>7. j = e
  BY <1>5, <1>6 DEF Owned
<1> QED BY <1>4, <1>5, <1>7

\* The entries older than the e-th are in force, the newer ones are undone, and
\* the e-th is to be switched
AtTurn(list, u, e, on) ==
  \A i \in 1 .. Len(list) : \A v \in Range(list[i].vb_list) :
    /\ i < e => u[v].active = TRUE
    /\ i = e => u[v].active = Other(on)
    /\ e < i => u[v].active = FALSE

\* One entry is switched when the older ones are in force and the newer ones not.
LEMMA EntrySized ==
  ASSUME NEW t, NEW list, Owned(t, list), NEW u, SameLinks(t, u), Sized(u),
         NEW e \in 1 .. Len(list), NEW on \in BOOLEAN,
         AtTurn(list, u, e, on)
  PROVE  Sized(SwitchList(u, list[e].vb_list, on))
<1> DEFINE vbs == list[e].vb_list
           Done(k) == First(vbs, k)
<1>1. PICK n \in Nat : VbList(t, vbs, n)
  BY DEF Owned
<1>2. Linked(t) /\ Linked(u) /\ VbList(u, vbs, n) /\ DOMAIN u = DOMAIN t
  BY <1>1, SameLinksLinked DEF Owned, SameLinks, VbList
<1>3. PICK s : SwitchRun(on, u, vbs, n, s)
  BY <1>1, SwitchRuns DEF VbList
<1>4. \A k \in 0 .. n : Switched(u, s[k], Done(k), on)
  BY <1>2, <1>3, SwitchRunIs
<1>5. \A k \in 1 .. n : vbs[k] \in Range(vbs)
  BY <1>1, NamesAreVbufs
<1>6. ASSUME NEW i \in 1 .. Len(list), NEW v \in Range(list[i].vb_list), i # e,
             NEW k \in 0 .. n
      PROVE  v \notin Done(k)
  <2>1. SUFFICES ASSUME v \in Done(k) PROVE FALSE
    OBVIOUS
  <2>2. PICK j \in 1 .. k : v = vbs[j]
    BY <2>1 DEF First
  <2>3. v \in Range(vbs)
    BY <1>5, <2>2
  <2> QED BY <1>6, <2>3 DEF Owned
<1> DEFINE S == {k \in 0 .. n : Sized(s[k])}
<1>7. 0 \in S
  BY <1>3 DEF SwitchRun
<1>8. ASSUME NEW k \in 0 .. n - 1, k \in S
      PROVE  k + 1 \in S
  <2> DEFINE v == vbs[k + 1]
             w == s[k]
  <2>1. k + 1 \in 1 .. n /\ k + 1 - 1 = k /\ k \in 0 .. n /\ Sized(w)
    BY <1>8
  <2>2. Switched(u, w, Done(k), on) /\ SameLinks(u, w) /\ Linked(w) /\ DOMAIN w = DOMAIN t
    BY <1>2, <1>4, <2>1, SameLinksLinked DEF Switched, SameLinks
  <2>3. s[k + 1] = Switch(w, v, on)
    BY <1>3, <2>1 DEF SwitchRun
  <2>4. v \in Range(vbs) /\ v \in DOMAIN t \ {Root} /\ v \notin Done(k)
    <3>1. v \notin Done(k)
      BY <1>1, <2>1 DEF VbList, First
    <3> QED BY <1>1, <1>5, <2>1, <3>1 DEF VbList
  <2> HIDE DEF v, w, S, Done
  <2>5. w[v].active = Other(on)
    <3>1. u[v].active = Other(on)
      BY <2>4 DEF AtTurn
    <3> QED BY <1>2, <2>2, <2>4, <3>1 DEF Switched
  <2>6. ASSUME NEW x \in Line(w, v) \ {v, Root}
        PROVE  w[x].active = TRUE
    <3>1. x \in Line(t, v) \ {v, Root} /\ x \in DOMAIN t
      BY <1>2, <2>2, <2>4, LineSame
    <3>2. PICK j \in 1 .. e - 1 : x \in Range(list[j].vb_list)
      BY <2>4, <3>1, LineOlder
    <3>3. j \in 1 .. Len(list) /\ j < e /\ j # e
      BY <3>2
    <3>4. u[x].active = TRUE
      BY <3>2, <3>3 DEF AtTurn
    <3>5. x \notin Done(k)
      BY <1>6, <2>1, <3>2, <3>3
    <3> QED BY <1>2, <2>2, <3>1, <3>4, <3>5 DEF Switched
  <2>7. ASSUME NEW x \in Kids(w[v])
        PROVE  w[x].active = FALSE
    <3>1. x \in Kids(t[v]) /\ x \in DOMAIN t
      <4>1. Kids(w[v]) = Kids(t[v])
        BY <1>2, <2>2, <2>4 DEF SameLinks, Kids
      <4> QED BY <1>2, <2>4, <4>1 DEF Linked
    <3>2. PICK i \in 1 .. Len(list) : x \in Range(list[i].vb_list) /\ e < i
      BY <2>4, <3>1, KidsNewer
    <3>3. i # e /\ ~(i < e)
      BY <3>2
    <3>4. u[x].active = FALSE
      BY <3>2, <3>3 DEF AtTurn
    <3>5. x \notin Done(k)
      BY <1>6, <2>1, <3>2, <3>3
    <3> QED BY <1>2, <2>2, <3>1, <3>4, <3>5 DEF Switched
  <2>8. Sized(s[k + 1])
    <3>1. Ready(w, v, on)
      BY <2>5, <2>6, <2>7 DEF Ready
    <3> QED BY <2>1, <2>2, <2>3, <2>4, <3>1, SwitchSized
  <2> QED BY <2>1, <2>8 DEF S
<1>9. n \in S
  <2> HIDE DEF S
  <2>1. 0 .. n \subseteq S
    BY <1>7, <1>8, UpTo
  <2> QED BY <2>1
<1> QED BY <1>3, <1>9 DEF SwitchRun

\* The k-th entry vf_undo or vf_redo comes to
Turn(on, k) == IF on THEN LastApplied(ul) + k ELSE LastApplied(ul) - k + 1

\* vf_undo and vf_redo leave the sizes right, entry by entry.
LEMMA AllSized ==
  ASSUME TreeInv, Sized(tree), NEW on \in BOOLEAN, NEW m \in Nat,
         NEW entries, DOMAIN entries = 1 .. m,
         \A k \in 1 .. m : Turn(on, k) \in 1 .. Len(ul) /\ entries[k] = ul[Turn(on, k)]
  PROVE  Sized(SwitchAll(tree, entries, on))
<1> DEFINE top == LastApplied(ul)
           Done(k) == {v \in DOMAIN tree : \E i \in 1 .. k : v \in Range(entries[i].vb_list)}
<1>0. Len(ul) \in Nat /\ top \in 0 .. Len(ul)
  BY DEF TreeInv, HistoryInv, UndoListTypeOK
<1>1. /\ Owned(tree, ul)
      /\ \A i \in 1 .. Len(ul) : /\ i <= top => ul[i].applied = TRUE
                                 /\ top < i => ul[i].applied = FALSE
  BY InvIsMarks DEF TreeInv, Marks
<1>2. PICK s : SwitchAllRun(on, tree, entries, m, s)
  BY SwitchAllRuns
<1>3. \A k \in 0 .. m : Switched(tree, s[k], Done(k), on)
  <2>1. \A k \in 1 .. m : \E i \in 1 .. Len(ul) : entries[k] = ul[i]
    OBVIOUS
  <2> QED BY <1>1, <1>2, <2>1, SwitchAllRunIs
<1> DEFINE S == {k \in 0 .. m : Sized(s[k])}
<1>4. 0 \in S
  BY <1>2 DEF SwitchAllRun
<1>5. ASSUME NEW k \in 0 .. m - 1, k \in S
      PROVE  k + 1 \in S
  <2> DEFINE e == Turn(on, k + 1)
             u == s[k]
  <2>1. k + 1 \in 1 .. m /\ k + 1 - 1 = k /\ k \in 0 .. m /\ Sized(u)
    BY <1>5
  <2>2. e \in 1 .. Len(ul) /\ entries[k + 1] = ul[e]
    BY <2>1
  <2>3. Switched(tree, u, Done(k), on) /\ SameLinks(tree, u)
    BY <1>3, <2>1 DEF Switched
  <2> HIDE DEF u, S
  <2>4. ASSUME NEW i \in 1 .. Len(ul), NEW v \in Range(ul[i].vb_list)
        PROVE  /\ i < e => u[v].active = TRUE
               /\ i = e => u[v].active = Other(on)
               /\ e < i => u[v].active = FALSE
    <3>1. v \in DOMAIN tree /\ tree[v].active = ul[i].applied
      <4>1. PICK n \in Nat : VbList(tree, ul[i].vb_list, n)
        BY <1>1 DEF Owned
      <4> QED BY <1>1, <4>1, NamesAreVbufs DEF Owned
    <3>2. v \in Done(k) <=> \E j \in 1 .. k : i = Turn(on, j)
      <4>1. ASSUME NEW j \in 1 .. k
            PROVE  v \in Range(entries[j].vb_list) <=> i = Turn(on, j)
        <5>1. j \in 1 .. m
          BY <2>1
        <5>2. Turn(on, j) \in 1 .. Len(ul) /\ entries[j] = ul[Turn(on, j)]
          BY <5>1
        <5> QED BY <1>1, <5>2 DEF Owned
      <4> QED BY <3>1, <4>1
    <3>3. /\ v \in Done(k) => u[v].active = on
          /\ v \notin Done(k) => u[v].active = ul[i].applied
      BY <2>3, <3>1 DEF Switched
    <3> HIDE DEF Done, top
    <3>4. CASE on = TRUE
      <4>1. e = top + k + 1 /\ \A j \in 1 .. k : Turn(on, j) = top + j
        BY <1>0, <3>4 DEF Turn, top
      <4> HIDE DEF e
      <4>2. v \in Done(k) <=> top < i /\ i < e
        <5>1. top < i /\ i < e => i - top \in 1 .. k /\ i = top + (i - top)
          BY <1>0, <4>1
        <5>2. \A j \in 1 .. k : i = top + j => top < i /\ i < e
          BY <1>0, <4>1
        <5> QED BY <3>2, <4>1, <5>1, <5>2
      <4>4. ASSUME i < e PROVE u[v].active = TRUE
        <5>1. CASE v \in Done(k)
          BY <3>3, <3>4, <5>1
        <5>2. CASE v \notin Done(k)
          <6>1. i <= top
            BY <1>0, <4>1, <4>2, <4>4, <5>2
          <6>2. ul[i].applied = TRUE
            BY <1>1, <6>1
          <6> QED BY <3>3, <5>2, <6>2
        <5> QED BY <5>1, <5>2
      <4>5. ASSUME ~(i < e) PROVE u[v].active = FALSE
        <5>1. top < i /\ v \notin Done(k)
          BY <1>0, <4>1, <4>2, <4>5
        <5> QED BY <1>1, <3>3, <5>1
      <4>6. Other(on) = FALSE
        BY <3>4 DEF Other
      <4>7. (i = e => ~(i < e)) /\ (e < i => ~(i < e))
        BY <1>0, <4>1
      <4> QED BY <4>4, <4>5, <4>6, <4>7
    <3>5. CASE on = FALSE
      <4>1. e = top - k /\ \A j \in 1 .. k : Turn(on, j) = top - j + 1
        BY <1>0, <3>5 DEF Turn, top
      <4> HIDE DEF e
      <4>2. v \in Done(k) <=> e < i /\ i <= top
        <5>1. ASSUME e < i, i <= top
              PROVE  top - i + 1 \in 1 .. k /\ i = top - (top - i + 1) + 1
          <6>1. i \in Int /\ top \in Int /\ k \in Int
            BY <1>0
          <6> QED BY <4>1, <5>1, <6>1
        <5>2. \A j \in 1 .. k : i = top - j + 1 => e < i /\ i <= top
          BY <1>0, <4>1
        <5> QED BY <3>2, <4>1, <5>1, <5>2
      <4>4. ASSUME ~(e < i) PROVE u[v].active = TRUE
        <5>1. i <= top /\ v \notin Done(k)
          BY <1>0, <4>1, <4>2, <4>4
        <5>2. ul[i].applied = TRUE
          BY <1>1, <5>1
        <5> QED BY <3>3, <5>1, <5>2
      <4>5. ASSUME e < i PROVE u[v].active = FALSE
        <5>1. CASE i <= top
          BY <3>3, <3>5, <4>2, <4>5, <5>1
        <5>2. CASE ~(i <= top)
          <6>1. top < i /\ v \notin Done(k)
            BY <1>0, <4>2, <5>2
          <6> QED BY <1>1, <3>3, <6>1
        <5> QED BY <5>1, <5>2
      <4>6. Other(on) = TRUE
        BY <3>5 DEF Other
      <4>7. (i = e => ~(e < i)) /\ (i < e => ~(e < i))
        BY <1>0, <4>1
      <4> QED BY <4>4, <4>5, <4>6, <4>7
    <3> QED BY <3>4, <3>5
  <2>5. s[k + 1] = SwitchList(u, ul[e].vb_list, on)
    <3>1. s[k + 1] = SwitchEntry(u, entries[k + 1], on)
      BY <1>2, <2>1 DEF SwitchAllRun, u
    <3> QED BY <2>2, <3>1 DEF SwitchEntry, SwitchList
  <2> HIDE DEF e
  <2>6. AtTurn(ul, u, e, on)
    BY <2>4 DEF AtTurn
  <2>7. Sized(s[k + 1])
    BY <1>1, <2>1, <2>2, <2>3, <2>5, <2>6, EntrySized
  <2> QED BY <2>1, <2>7 DEF S
<1>6. m \in S
  <2> HIDE DEF S
  <2>1. 0 .. m \subseteq S
    BY <1>4, <1>5, UpTo
  <2> QED BY <2>1
<1> QED BY <1>2, <1>6 DEF SwitchAllRun

(***************************************************************************)
(* The sizes when a vbuf is added.                                         *)
(***************************************************************************)

\* Every vbuf but the root is in force, as after prune
AllActive(t) == \A w \in DOMAIN t \ {Root} : t[w].active = TRUE

\* A new vbuf, as insert_new_vbuf fills it in
NewVbuf(p, start, size, type, buf) ==
  [parent |-> p, children |-> <<>>, start |-> start, size |-> size,
   buf_type |-> type, active |-> TRUE, buf |-> buf]

\* insert_new_vbuf and a resize, for a name given to what they make
LEMMA InsertGives ==
  ASSUME NEW t, Linked(t), NEW p \in DOMAIN t, NEW before,
         before = Null \/ before \in Kids(t[p]),
         NEW start, NEW size, NEW type, NEW buf,
         NEW u, u = InsertNewVbuf(t, p, before, start, size, type, buf)
  PROVE  /\ \E at \in 1 .. Len(t[p].children) + 1 : NewUnder(t, u, NewId(t), p, at)
         /\ u[NewId(t)] = NewVbuf(p, start, size, type, buf)
BY InsertIs DEF NewVbuf

\* A resize changes no type, no bytes and no flag.
LEMMA ResizeGives ==
  ASSUME NEW t, Linked(t), NEW u, SameLinks(t, u), NEW v \in DOMAIN t, NEW by \in Int,
         NEW r, r = Resize(u, v, by)
  PROVE  \A w \in DOMAIN t :
           /\ r[w].size = u[w].size + IF w \in Line(t, v) \ {v} THEN by ELSE 0
           /\ r[w].start = u[w].start + IF w \in Behind(t, v) THEN by ELSE 0
           /\ r[w].buf_type = u[w].buf_type
           /\ r[w].buf = u[w].buf
           /\ r[w].active = u[w].active
BY ResizeMoves

\* A new vbuf that adds nothing.
LEMMA PutSized ==
  ASSUME NEW t, Linked(t), Sized(t), NEW p \in DOMAIN t, HasBytes(t[p]), NEW before,
         before = Null \/ before \in Kids(t[p]),
         NEW start, NEW size \in Nat, NEW buf, Len(buf) = size
  PROVE  Sized(InsertNewVbuf(t, p, before, start, size, "REPLACE", buf))
<1> DEFINE u == InsertNewVbuf(t, p, before, start, size, "REPLACE", buf)
           id == NewId(t)
<1>1. PICK at \in 1 .. Len(t[p].children) + 1 : NewUnder(t, u, id, p, at)
  BY InsertGives
<1>2. u[id] = [parent |-> p, children |-> <<>>, start |-> start, size |-> size,
               buf_type |-> "REPLACE", active |-> TRUE, buf |-> buf]
  <2>1. u[id] = NewVbuf(p, start, size, "REPLACE", buf)
    BY InsertGives
  <2> QED BY <2>1 DEF NewVbuf
<1>3. id \in Nat /\ id \notin DOMAIN t /\ id # Root
  BY NewIdIs DEF Root
<1> HIDE DEF u, id
<1>4. /\ Len(u[id].buf) = size /\ u[id].size = size /\ u[id].active = TRUE
      /\ u[id].buf_type = "REPLACE"
  BY <1>2
<1>5. Gain(u[id]) = 0
  <2>1. size - size = 0
    OBVIOUS
  <2> QED BY <1>4, <2>1 DEF Gain
<1>6. Sized(u)
  BY <1>1, <1>3, <1>4, <1>5, NewSized
<1> QED BY <1>6 DEF u

\* A new vbuf that adds bytes or takes some away, when all above it is in force.
LEMMA AddSized ==
  ASSUME NEW t, Linked(t), Sized(t), AllActive(t), NEW p \in DOMAIN t, HasBytes(t[p]),
         NEW before, before = Null \/ before \in Kids(t[p]),
         NEW start \in Int, NEW size \in Nat, NEW type, NEW buf, NEW by \in Int,
         \/ type = "INSERT" /\ Len(buf) = size /\ by = size
         \/ type = "DELETE" /\ Len(buf) = 0 /\ by = -size
  PROVE  Sized(Resize(InsertNewVbuf(t, p, before, start, size, type, buf), NewId(t), by))
<1> DEFINE i == InsertNewVbuf(t, p, before, start, size, type, buf)
           id == NewId(t)
           off == [parent |-> p, children |-> <<>>, start |-> start, size |-> size,
                   buf_type |-> type, active |-> FALSE, buf |-> buf]
           u == [w \in DOMAIN i |-> IF w = id THEN off ELSE i[w]]
           r == Resize(i, id, by)
<1>1. PICK at \in 1 .. Len(t[p].children) + 1 : NewUnder(t, i, id, p, at)
  BY InsertGives
<1>2. i[id] = [parent |-> p, children |-> <<>>, start |-> start, size |-> size,
               buf_type |-> type, active |-> TRUE, buf |-> buf]
  <2>1. i[id] = NewVbuf(p, start, size, type, buf)
    BY InsertGives
  <2> QED BY <2>1 DEF NewVbuf
<1>3. id \in Nat /\ id \notin DOMAIN t /\ id # Root
  BY NewIdIs DEF Root
<1>4. Linked(i)
  BY InsertLinks
<1> HIDE DEF i, id, r
<1>5. DOMAIN i = DOMAIN t \cup {id} /\ id \in DOMAIN i \ {Root}
  BY <1>1, <1>3 DEF NewUnder
<1>6. u[id] = [parent |-> p, children |-> <<>>, start |-> start, size |-> size,
               buf_type |-> type, active |-> FALSE, buf |-> buf]
  BY <1>5
<1>7. DOMAIN u = DOMAIN i /\ u = [w \in DOMAIN u |-> u[w]]
      /\ \A w \in DOMAIN i : w # id => u[w] = i[w]
  OBVIOUS
<1> HIDE DEF u
<1>8. SameLinks(i, u) /\ SameLinks(i, i)
  <2>1. IsVbuf(u[id])
    BY <1>6 DEF IsVbuf
  <2>2. u[id].parent = i[id].parent /\ u[id].children = i[id].children
    BY <1>2, <1>6
  <2>3. \A w \in DOMAIN i : IsVbuf(i[w])
    BY <1>4 DEF Linked
  <2> QED BY <1>4, <1>7, <2>1, <2>2, <2>3 DEF SameLinks, Linked
<1>9. Sized(u)
  <2>1. NewUnder(t, u, id, p, at)
    <3>1. \A w \in DOMAIN t : w \in DOMAIN i /\ w # id
      BY <1>3, <1>5
    <3> QED BY <1>1, <1>6, <1>7, <3>1 DEF NewUnder
  <2>2. Len(u[id].buf) \in Nat /\ u[id].active = FALSE /\ u[id].buf_type = type
    BY <1>6
  <2>3. Gain(u[id]) = 0
    BY <2>2 DEF Gain
  <2>4. HasBytes(u[id]) => u[id].size = Len(u[id].buf)
    BY <1>6 DEF HasBytes
  <2>5. type \in {"INSERT", "REPLACE", "DELETE"} /\ FALSE \in BOOLEAN
    OBVIOUS
  <2> QED BY <1>3, <2>1, <2>2, <2>3, <2>4, <2>5, NewSized
<1>10. ASSUME NEW w \in DOMAIN i
       PROVE  /\ r[w].size = i[w].size + IF w \in Line(i, id) \ {id} THEN by ELSE 0
              /\ r[w].start = i[w].start + IF w \in Behind(i, id) THEN by ELSE 0
              /\ r[w].buf_type = i[w].buf_type
              /\ r[w].buf = i[w].buf
              /\ r[w].active = i[w].active
  BY <1>4, <1>5, <1>8, ResizeGives DEF r
<1>11. SameLinks(i, r)
  BY <1>4, ResizeLinks DEF r
<1>12. Moved(i, u, r, id, TRUE, by)
  <2>1. ASSUME NEW w \in DOMAIN i
        PROVE  /\ u[w].size = i[w].size /\ u[w].start = i[w].start
               /\ u[w].buf_type = i[w].buf_type /\ u[w].buf = i[w].buf
               /\ w # id => u[w].active = i[w].active
    <3>1. CASE w = id
      BY <1>2, <1>6, <3>1
    <3>2. CASE w # id
      BY <1>7, <3>2
    <3> QED BY <3>1, <3>2
  <2>2. i[id].active = TRUE
    BY <1>2
  <2> QED BY <1>10, <1>11, <2>1, <2>2 DEF Moved
<1>13. ASSUME NEW x \in Line(i, id) \ {id, Root}
       PROVE  u[x].active = TRUE
  <2>1. x \in DOMAIN i
    BY <1>4, <1>5, <1>8, LineSame
  <2>2. x \in DOMAIN t \ {Root}
    BY <1>5, <2>1
  <2>3. i[x].active = t[x].active
    BY <1>1, <2>2 DEF NewUnder
  <2> QED BY <1>7, <2>1, <2>2, <2>3 DEF AllActive
<1>14. Gain(r[id]) = Gain(u[id]) + by
  <2>1. r[id].size = size /\ r[id].buf_type = type /\ r[id].active = TRUE
    <3>1. i[id].size = size /\ i[id].buf_type = type /\ i[id].active = TRUE
      BY <1>2
    <3>2. r[id].size = i[id].size + 0
      BY <1>5, <1>10
    <3> QED BY <1>5, <1>10, <3>1, <3>2
  <2>2. Gain(r[id]) = by
    BY <2>1 DEF Gain
  <2>3. Gain(u[id]) = 0
    BY <1>6 DEF Gain
  <2> QED BY <2>2, <2>3
<1>15. TRUE \in BOOLEAN
  OBVIOUS
<1>16. Sized(r)
  BY <1>4, <1>5, <1>8, <1>9, <1>12, <1>13, <1>14, <1>15, MovedSized
<1> QED BY <1>16 DEF i, id, r

\* u has the types of t
SameTypes(t, u) == \A w \in DOMAIN t : u[w].buf_type = t[w].buf_type

\* insert_new_vbuf and a resize change no type.
LEMMA TypesKept ==
  ASSUME NEW t, NEW u, Linked(u), SameTypes(t, u), DOMAIN t \subseteq DOMAIN u,
         NEW p \in DOMAIN u, NEW before, before = Null \/ before \in Kids(u[p]),
         NEW start \in Int, NEW size \in Int, NEW type, NEW buf, NEW by \in Int,
         NEW i, i = InsertNewVbuf(u, p, before, start, size, type, buf)
  PROVE  SameTypes(t, i) /\ SameTypes(t, Resize(i, NewId(u), by))
<1> DEFINE id == NewId(u)
           r == Resize(i, id, by)
<1>1. PICK at \in 1 .. Len(u[p].children) + 1 : NewUnder(u, i, id, p, at)
  BY InsertGives
<1>2. Linked(i)
  BY InsertLinks
<1> HIDE DEF id
<1>3. \A w \in DOMAIN u : w \in DOMAIN i /\ i[w].buf_type = u[w].buf_type
  BY <1>1 DEF NewUnder
<1>4. id \in DOMAIN i
  BY <1>1 DEF NewUnder
<1>5. SameLinks(i, i)
  BY <1>2 DEF SameLinks, Linked
<1>6. \A w \in DOMAIN i : r[w].buf_type = i[w].buf_type
  BY <1>2, <1>4, <1>5, ResizeGives
<1> HIDE DEF r
<1>7. SameTypes(t, i) /\ SameTypes(t, r)
  BY <1>3, <1>6 DEF SameTypes
<1> QED BY <1>7 DEF id, r

\* A tree grown from one that is all in force is all in force.
LEMMA GrownActive ==
  ASSUME NEW t, AllActive(t), NEW n \in Nat, NEW u, GrownBy(t, u, n)
  PROVE  AllActive(u)
BY DEF AllActive, GrownBy

\* A stretch of bytes has the length asked for, inside the buffer or not.
LEMMA StretchLen ==
  ASSUME NEW s, NEW a \in Int, NEW n \in Nat
  PROVE  Len(SubSeq(s, a + 1, a + n)) = n
<1> DEFINE f == SubSeq(s, a + 1, a + n)
<1>1. f = [i \in 1 .. n |-> s[i + (a + 1) - 1]]
  BY SMT
<1> HIDE DEF f
<1> QED BY <1>1, FcnIsSeq DEF f

\* _insert_before leaves the sizes right.
LEMMA InsertSized ==
  ASSUME NEW t, Linked(t), Sized(t), AllActive(t), NEW buf, Len(buf) \in Nat,
         NEW offset \in Int
  PROVE  Sized(InsertBefore(t, buf, offset))
<1> DEFINE p == InsertPoint(t, offset).parent
           before == InsertPoint(t, offset).before
           len == Len(buf)
<1>1. PlaceOK(t, p, before) /\ HasBytes(t[p])
  <2>1. HasBytes(t[Root])
    BY DEF Sized, Typed, HasBytes, Linked
  <2> QED BY <2>1, InsertPointIs
<1>2. InsertBefore(t, buf, offset)
        = Resize(InsertNewVbuf(t, p, before, offset, len, "INSERT", buf), NewId(t), len)
  BY DEF InsertBefore
<1> HIDE DEF p, before
<1>3. p \in DOMAIN t /\ (before = Null \/ before \in Kids(t[p]))
  BY <1>1 DEF PlaceOK
<1>4. len \in Int
  OBVIOUS
<1>5. Sized(Resize(InsertNewVbuf(t, p, before, offset, len, "INSERT", buf), NewId(t), len))
  BY <1>1, <1>3, <1>4, AddSized
<1> QED BY <1>2, <1>5

\* So does every piece of _replace.
LEMMA ReplaceSized ==
  ASSUME NEW t, Linked(t), Sized(t), NEW buf, NEW offset \in Int,
         NEW n \in Nat, NEW pieces, PiecesOK(t, pieces, n)
  PROVE  Sized(Replace(t, buf, offset, pieces))
<1>1. PICK s : ReplaceRun(buf, offset, t, pieces, n, s)
  BY ReplaceRuns DEF PiecesOK
<1> DEFINE S == {k \in 0 .. n : Sized(s[k]) /\ SameTypes(t, s[k])}
<1>2. 0 \in S
  BY <1>1 DEF ReplaceRun, SameTypes
<1>3. ASSUME NEW k \in 0 .. n - 1, k \in S
      PROVE  k + 1 \in S
  <2> DEFINE u == s[k]
             new == s[k + 1]
             p == pieces[k + 1].parent
             before == pieces[k + 1].before
             from == pieces[k + 1].from
             size == pieces[k + 1].size
             bytes == SubSeq(buf, from - offset + 1, from - offset + size)
  <2>1. k + 1 \in 1 .. n /\ k + 1 - 1 = k /\ k \in 0 .. n /\ k + 1 \in 0 .. n
    BY <1>3
  <2>2. new = InsertNewVbuf(u, p, before, from, size, "REPLACE", bytes)
    BY <1>1, <2>1 DEF ReplaceRun, Put
  <2>3. /\ PlaceOK(t, p, before) /\ from \in Int /\ size \in Nat
        /\ HasBytes(t[Root]) => HasBytes(t[p])
    BY <2>1 DEF PiecesOK
  <2>4. GrownBy(t, u, k)
    BY <1>1, <2>1, ReplaceRunGrows
  <2>5. Sized(u) /\ SameTypes(t, u)
    BY <1>3
  <2> HIDE DEF u, new, p, before, from, size
  <2>6. Len(bytes) = size
    <3>1. from - offset \in Int
      BY <2>3
    <3> QED BY <2>3, <3>1, StretchLen
  <2> HIDE DEF bytes
  <2>7. /\ Linked(u) /\ p \in DOMAIN u /\ (before = Null \/ before \in Kids(u[p]))
        /\ DOMAIN t \subseteq DOMAIN u
    BY <2>3, <2>4 DEF GrownBy, PlaceOK
  <2>8. HasBytes(u[p])
    <3>1. HasBytes(t[Root])
      BY DEF Sized, Typed, HasBytes, Linked
    <3>2. p \in DOMAIN t
      BY <2>3 DEF PlaceOK
    <3> QED BY <2>3, <2>5, <3>1, <3>2 DEF SameTypes, HasBytes
  <2>9. Sized(InsertNewVbuf(u, p, before, from, size, "REPLACE", bytes))
    BY <2>3, <2>5, <2>6, <2>7, <2>8, PutSized
  <2>10. SameTypes(t, new)
    <3>1. size \in Int /\ 0 \in Int
      BY <2>3
    <3> QED BY <2>2, <2>3, <2>5, <2>7, <3>1, TypesKept
  <2> QED BY <2>1, <2>2, <2>9, <2>10 DEF new
<1>4. n \in S
  <2> HIDE DEF S
  <2>1. 0 .. n \subseteq S
    BY <1>2, <1>3, UpTo
  <2> QED BY <2>1
<1> QED BY <1>1, <1>4 DEF ReplaceRun

\* And every piece of _delete.
LEMMA DeleteSized ==
  ASSUME NEW t, Linked(t), Sized(t), AllActive(t), NEW offset \in Int,
         NEW n \in Nat, NEW pieces, PiecesOK(t, pieces, n)
  PROVE  Sized(Delete(t, offset, pieces))
<1>1. PICK s : DeleteRun(offset, t, pieces, n, s)
  BY DeleteRuns DEF PiecesOK
<1> DEFINE S == {k \in 0 .. n : Sized(s[k]) /\ SameTypes(t, s[k])}
<1>2. 0 \in S
  BY <1>1 DEF DeleteRun, SameTypes
<1>3. ASSUME NEW k \in 0 .. n - 1, k \in S
      PROVE  k + 1 \in S
  <2> DEFINE u == s[k]
             new == s[k + 1]
             p == pieces[k + 1].parent
             before == pieces[k + 1].before
             size == pieces[k + 1].size
             i == InsertNewVbuf(u, p, before, offset, size, "DELETE", <<>>)
  <2>1. k + 1 \in 1 .. n /\ k + 1 - 1 = k /\ k \in 0 .. n /\ k + 1 \in 0 .. n
    BY <1>3
  <2>2. new = Resize(i, NewId(u), -size)
    BY <1>1, <2>1 DEF DeleteRun, Cut
  <2>3. /\ PlaceOK(t, p, before) /\ size \in Nat /\ size \in Int /\ -size \in Int
        /\ HasBytes(t[Root]) => HasBytes(t[p])
    BY <2>1 DEF PiecesOK
  <2>4. GrownBy(t, u, k)
    BY <1>1, <2>1, DeleteRunGrows
  <2>5. Sized(u) /\ SameTypes(t, u)
    BY <1>3
  <2> HIDE DEF u, new, p, before, size
  <2>6. Len(<<>>) = 0
    OBVIOUS
  <2>7. /\ Linked(u) /\ p \in DOMAIN u /\ (before = Null \/ before \in Kids(u[p]))
        /\ DOMAIN t \subseteq DOMAIN u
    BY <2>3, <2>4 DEF GrownBy, PlaceOK
  <2>8. HasBytes(u[p])
    <3>1. HasBytes(t[Root])
      BY DEF Sized, Typed, HasBytes, Linked
    <3>2. p \in DOMAIN t
      BY <2>3 DEF PlaceOK
    <3> QED BY <2>3, <2>5, <3>1, <3>2 DEF SameTypes, HasBytes
  <2>9. AllActive(u)
    BY <2>1, <2>4, GrownActive
  <2>10. Sized(Resize(InsertNewVbuf(u, p, before, offset, size, "DELETE", <<>>),
                      NewId(u), -size))
    BY <2>3, <2>5, <2>6, <2>7, <2>8, <2>9, AddSized
  <2>11. SameTypes(t, Resize(i, NewId(u), -size))
    BY <2>3, <2>5, <2>7, TypesKept
  <2> QED BY <2>1, <2>2, <2>10, <2>11 DEF new
<1>4. n \in S
  <2> HIDE DEF S
  <2>1. 0 .. n \subseteq S
    BY <1>2, <1>3, UpTo
  <2> QED BY <2>1
<1> QED BY <1>1, <1>4 DEF DeleteRun

(***************************************************************************)
(* The steps keep the tree.                                                *)
(***************************************************************************)

\* An edit: prune, n new vbufs, their entry.
LEMMA EditOwned ==
  ASSUME TreeInv, NEW n \in Nat, GrownBy(PrunedTree, tree', n),
         ul' = Pushed(PrunedUl, PrunedTree, n)
  PROVE  Owned(tree, ul)'
<1> DEFINE t == PrunedTree
           list == PrunedUl
<1>1. /\ Owned(t, list) /\ Len(list) \in Nat
      /\ list = [i \in 1 .. Len(list) |-> list[i]]
  BY OwnedPruned
<1>2. GrownBy(t, tree', n) /\ ul' = Pushed(list, t, n)
  OBVIOUS
<1> HIDE DEF t, list
<1>3. Owned(tree', Pushed(list, t, n))
  BY <1>1, <1>2, OwnedGrown
<1> QED BY <1>2, <1>3

\* vf_insert_before, inside the file and beyond its end.
LEMMA InsertOwned ==
  ASSUME TreeInv, NEW offset \in Int, NEW len \in Nat, InsertAtOffset(offset, len)
  PROVE  Owned(tree, ul)'
<1> DEFINE t == PrunedTree
           buf == Bytes(t, len)
<1>1. Linked(t)
  BY OwnedPruned DEF Owned
<1>2. Len(buf) \in Nat
  <2>1. buf = [i \in 1 .. len |-> buf[i]]
    BY DEF Bytes
  <2> HIDE DEF buf
  <2> QED BY <2>1, FcnIsSeq
<1>3. CASE offset <= Size
  <2>1. tree' = InsertBefore(t, buf, offset) /\ ul' = Pushed(PrunedUl, t, 1)
    BY <1>3 DEF InsertAtOffset
  <2> HIDE DEF t, buf
  <2>2. GrownBy(t, tree', 1)
    BY <1>1, <1>2, <2>1, InsertPointIs, InsertGrows
  <2> QED BY <2>1, <2>2, EditOwned DEF t
<1>4. CASE ~(offset <= Size)
  <2>1. tree' = t /\ ul' = Pushed(PrunedUl, t, 0)
    BY <1>4 DEF InsertAtOffset
  <2> HIDE DEF t
  <2>2. GrownBy(t, tree', 0)
    BY <1>1, <2>1, GrownByNone
  <2> QED BY <2>1, <2>2, EditOwned DEF t
<1> QED BY <1>3, <1>4

\* vf_replace.
LEMMA ReplaceOwned ==
  ASSUME TreeInv, NEW offset \in Nat, NEW len \in Nat, ReplaceAtOffset(offset, len)
  PROVE  Owned(tree, ul)'
<1> DEFINE t == PrunedTree
           buf == Bytes(t, len)
           pieces == Walk(t, offset, len).pieces
           n == Len(pieces)
<1>1. Linked(t)
  BY OwnedPruned DEF Owned
<1>2. tree' = Replace(t, buf, offset, pieces) /\ ul' = Pushed(PrunedUl, t, n)
  BY DEF ReplaceAtOffset
<1> HIDE DEF t, buf
<1>3. n \in Nat /\ PiecesOK(t, pieces, n)
  BY <1>1, WalkIs
<1> HIDE DEF pieces, n
<1>4. GrownBy(t, tree', n)
  BY <1>1, <1>2, <1>3, ReplaceGrows
<1> QED BY <1>2, <1>3, <1>4, EditOwned DEF t

\* vf_delete.
LEMMA DeleteOwned ==
  ASSUME TreeInv, NEW offset \in Nat, NEW len \in Nat, DeleteAtOffset(offset, len)
  PROVE  Owned(tree, ul)'
<1> DEFINE t == PrunedTree
           pieces == Walk(t, offset, len).pieces
           n == Len(pieces)
<1>1. Linked(t)
  BY OwnedPruned DEF Owned
<1>2. tree' = Delete(t, offset, pieces) /\ ul' = Pushed(PrunedUl, t, n)
  BY DEF DeleteAtOffset
<1> HIDE DEF t
<1>3. n \in Nat /\ PiecesOK(t, pieces, n)
  BY <1>1, WalkIs
<1> HIDE DEF pieces, n
<1>4. GrownBy(t, tree', n)
  BY <1>1, <1>2, <1>3, DeleteGrows
<1> QED BY <1>2, <1>3, <1>4, EditOwned DEF t

\* The n newest changes in force, newest first.
LEMMA NewestFirst ==
  ASSUME Len(ul) \in Nat, ul = [i \in 1 .. Len(ul) |-> ul[i]],
         NEW top \in 0 .. Len(ul), NEW n \in 0 .. top
  PROVE  LET entries == Reverse(SubSeq(ul, top - n + 1, top))
         IN  DOMAIN entries = 1 .. n /\ \A k \in 1 .. n : entries[k] = ul[top - k + 1]
<1> DEFINE from == top - n + 1
           part == SubSeq(ul, from, top)
<1>1. from \in 1 .. Len(ul) + 1 /\ top \in from - 1 .. Len(ul) /\ n = top - from + 1
  OBVIOUS
<1> HIDE DEF from
<1>2. /\ Len(part) = n
      /\ \A k \in 1 .. n : part[k] = ul[from + k - 1]
  BY <1>1, StretchIs, SMTT(30)
<1> HIDE DEF part
<1>3. Reverse(part) = [k \in 1 .. n |-> part[n - k + 1]]
  BY <1>2 DEF Reverse
<1>4. ASSUME NEW k \in 1 .. n
      PROVE  Reverse(part)[k] = ul[top - k + 1]
  <2>1. n - k + 1 \in 1 .. n /\ from + (n - k + 1) - 1 = top - k + 1
    BY DEF from
  <2> QED BY <1>2, <1>3, <2>1
<1>5. DOMAIN Reverse(part) = 1 .. n
  BY <1>3
<1> QED BY <1>4, <1>5 DEF part, from

\* vf_undo, the newest entries first.
LEMMA UndoOwned ==
  ASSUME TreeInv, NEW count \in Nat, Undo(count)
  PROVE  Owned(tree, ul)'
<1> DEFINE top == LastApplied(ul)
           n == IF count < top THEN count ELSE top
           from == top - n + 1
<1>1. /\ Len(ul) \in Nat /\ top \in 0 .. Len(ul)
      /\ ul = [i \in 1 .. Len(ul) |-> ul[i]]
  BY DEF TreeInv, HistoryInv, UndoListTypeOK
<1>2. tree' = SwitchAll(tree, Reverse(SubSeq(ul, from, top)), FALSE)
      /\ ul' = Marked(from, top, FALSE)
  BY DEF Undo, ToUndo
<1> HIDE DEF top
<1>3. n \in 0 .. top
  BY <1>1
<1> HIDE DEF n
<1>4. from \in 1 .. Len(ul) + 1 /\ top \in from - 1 .. Len(ul) /\ n = top - from + 1
      /\ from \in Int /\ top \in Int /\ n \in Nat
  BY <1>1, <1>3
<1> HIDE DEF from
<1> DEFINE entries == Reverse(SubSeq(ul, from, top))
<1>5. DOMAIN entries = 1 .. n /\ \A k \in 1 .. n : entries[k] = ul[top - k + 1]
  BY <1>1, <1>3, NewestFirst DEF from
<1> HIDE DEF entries
<1>6. ASSUME NEW k \in 1 .. n
      PROVE  \E i \in 1 .. Len(ul) : i \in from .. top /\ entries[k] = ul[i]
  <2>1. top - k + 1 \in 1 .. Len(ul) /\ top - k + 1 \in from .. top
    BY <1>1, <1>4
  <2> QED BY <1>5, <2>1
<1>7. ASSUME NEW i \in 1 .. Len(ul), i \in from .. top
      PROVE  \E k \in 1 .. n : entries[k] = ul[i]
  <2>1. top - i + 1 \in 1 .. n /\ top - (top - i + 1) + 1 = i
    BY <1>1, <1>4, <1>7, SMTT(30)
  <2> QED BY <1>5, <2>1
<1>8. Owned(SwitchAll(tree, entries, FALSE), Marked(from, top, FALSE))
  BY <1>4, <1>5, <1>6, <1>7, OwnedMarked
<1> QED BY <1>2, <1>8 DEF entries

\* vf_redo, the oldest entries first.
LEMMA RedoOwned ==
  ASSUME TreeInv, NEW count \in Nat, Redo(count)
  PROVE  Owned(tree, ul)'
<1> DEFINE top == LastApplied(ul)
           n == IF count < Len(ul) - top THEN count ELSE Len(ul) - top
           from == top + 1
           to == top + n
<1>1. /\ Len(ul) \in Nat /\ top \in 0 .. Len(ul)
      /\ ul = [i \in 1 .. Len(ul) |-> ul[i]]
  BY DEF TreeInv, HistoryInv, UndoListTypeOK
<1>2. tree' = SwitchAll(tree, SubSeq(ul, from, to), TRUE)
      /\ ul' = Marked(from, to, TRUE)
  BY DEF Redo, ToRedo
<1> HIDE DEF top
<1>3. n \in 0 .. Len(ul) - top
  BY <1>1
<1> HIDE DEF n
<1>4. from \in 1 .. Len(ul) + 1 /\ to \in from - 1 .. Len(ul) /\ n = to - from + 1
      /\ from \in Int /\ to \in Int /\ n \in Nat
  BY <1>1, <1>3, SMTT(30)
<1> HIDE DEF from, to
<1> DEFINE entries == SubSeq(ul, from, to)
<1>5. DOMAIN entries = 1 .. n /\ \A k \in 1 .. n : entries[k] = ul[from + k - 1]
  BY <1>1, <1>4, StretchIs, SMTT(30)
<1> HIDE DEF entries
<1>6. ASSUME NEW k \in 1 .. n
      PROVE  \E i \in 1 .. Len(ul) : i \in from .. to /\ entries[k] = ul[i]
  <2>1. from + k - 1 \in 1 .. Len(ul) /\ from + k - 1 \in from .. to
    BY <1>1, <1>4
  <2> QED BY <1>5, <2>1
<1>7. ASSUME NEW i \in 1 .. Len(ul), i \in from .. to
      PROVE  \E k \in 1 .. n : entries[k] = ul[i]
  <2>1. i - from + 1 \in 1 .. n /\ from + (i - from + 1) - 1 = i
    BY <1>1, <1>4, <1>7
  <2> QED BY <1>5, <2>1
<1>8. Owned(SwitchAll(tree, entries, TRUE), Marked(from, to, TRUE))
  BY <1>4, <1>5, <1>6, <1>7, OwnedMarked
<1> QED BY <1>2, <1>8 DEF entries

\* The tree of a file just opened is the root alone.
LEMMA InitOwned ==
  ASSUME Init
  PROVE  Owned(tree, ul)
<1>1. /\ DOMAIN tree = {Root} /\ tree = [v \in DOMAIN tree |-> tree[v]]
      /\ tree[Root] = [parent |-> Null, children |-> <<>>, start |-> 0, size |-> FileSize,
                       buf_type |-> "FILE", active |-> TRUE,
                       buf |-> [i \in 1 .. FileSize |-> <<Root, i>>]]
      /\ ul = <<>>
  BY DEF Init
<1>2. tree[Root].children = <<>> /\ IsVbuf(tree[Root])
  BY <1>1, VirtFileAssumption DEF VirtFileAssumption, IsVbuf
<1>3. Kids(tree[Root]) = {} /\ Len(tree[Root].children) = 0
  BY <1>2 DEF Kids
<1>4. DOMAIN tree \subseteq 0 .. 0
  BY <1>1 DEF Root
<1>5. Linked(tree)
  <2> DEFINE t == tree
  <2>1. \A v \in DOMAIN t : /\ v = Root
                            /\ IsVbuf(t[v])
                            /\ Len(t[v].children) = 0
                            /\ Kids(t[v]) = {}
    BY <1>1, <1>2, <1>3
  <2>2. Root \in DOMAIN t /\ t = [v \in DOMAIN t |-> t[v]]
    BY <1>1
  <2>3. \E b \in Nat : DOMAIN t \subseteq 0 .. b
    BY <1>4
  <2> HIDE DEF t
  <2>4. Linked(t)
    BY <2>1, <2>2, <2>3 DEF Linked
  <2> QED BY <2>4 DEF t
<1>6. Len(ul) = 0
  BY <1>1
<1> QED BY <1>1, <1>5, <1>6 DEF Owned

\* Every step leaves the tree owned by the list.
LEMMA StepOwned ==
  ASSUME TreeInv, [Next]_vars
  PROVE  Owned(tree, ul)'
<1>1. \A offset \in 0 .. Size + 1 : offset \in Nat
  <2>1. Size \in Int
    BY DEF Size, TreeInv, Owned, Linked, IsVbuf
  <2> QED BY <2>1
<1>2. \A len \in InsertLen \cup ReplaceLen \cup DeleteLen \cup Count : len \in Nat
  BY VirtFileAssumption DEF VirtFileAssumption
<1>3. ASSUME NEW offset \in 0 .. Size + 1, NEW len \in InsertLen, InsertAtOffset(offset, len)
      PROVE  Owned(tree, ul)'
  <2>1. offset \in Int /\ len \in Nat
    BY <1>1, <1>2
  <2> QED BY <1>3, <2>1, InsertOwned
<1>4. ASSUME NEW offset \in 0 .. Size + 1, NEW len \in ReplaceLen, ReplaceAtOffset(offset, len)
      PROVE  Owned(tree, ul)'
  <2>1. offset \in Nat /\ len \in Nat
    BY <1>1, <1>2
  <2> QED BY <1>4, <2>1, ReplaceOwned
<1>5. ASSUME NEW offset \in 0 .. Size + 1, NEW len \in DeleteLen, DeleteAtOffset(offset, len)
      PROVE  Owned(tree, ul)'
  <2>1. offset \in Nat /\ len \in Nat
    BY <1>1, <1>2
  <2> QED BY <1>5, <2>1, DeleteOwned
<1>6. ASSUME NEW count \in Count, Undo(count) PROVE Owned(tree, ul)'
  <2>1. count \in Nat
    BY <1>2
  <2> QED BY <1>6, <2>1, UndoOwned
<1>7. ASSUME NEW count \in Count, Redo(count) PROVE Owned(tree, ul)'
  <2>1. count \in Nat
    BY <1>2
  <2> QED BY <1>7, <2>1, RedoOwned
<1>8. CASE UNCHANGED vars
  <2>1. tree' = tree /\ ul' = ul /\ Owned(tree, ul)
    BY <1>8 DEF vars, TreeInv
  <2> QED BY <2>1
<1> QED BY <1>3, <1>4, <1>5, <1>6, <1>7, <1>8 DEF Next

(***************************************************************************)
(* The steps leave the sizes right.                                        *)
(***************************************************************************)

\* After prune every vbuf is in force.
LEMMA PrunedActive ==
  ASSUME TreeInv
  PROVE  AllActive(PrunedTree)
<1> DEFINE top == LastApplied(ul)
           t == PrunedTree
           list == PrunedUl
<1>1. /\ Len(ul) \in Nat /\ top \in 0 .. Len(ul)
      /\ ul = [i \in 1 .. Len(ul) |-> ul[i]]
  BY DEF TreeInv, HistoryInv, UndoListTypeOK
<1>2. Len(list) = top /\ list = [i \in 1 .. top |-> ul[i]]
  BY <1>1, PrefixIsFcn DEF PrunedUl
<1>3. \A i \in 1 .. Len(ul) : i <= top => ul[i].applied = TRUE
  BY InvIsMarks DEF TreeInv, Marks
<1>4. Owned(t, list)
  BY OwnedPruned
<1> HIDE DEF t, list, top
<1>5. \A i \in 1 .. Len(list) : list[i].applied = TRUE
  BY <1>1, <1>2, <1>3
<1>6. ASSUME NEW w \in DOMAIN t \ {Root}
      PROVE  t[w].active = TRUE
  <2>1. PICK i \in 1 .. Len(list) : w \in Range(list[i].vb_list)
    BY <1>4 DEF Owned
  <2>2. t[w].active = list[i].applied
    BY <1>4, <2>1 DEF Owned
  <2> QED BY <1>5, <2>2
<1> QED BY <1>6 DEF AllActive, t

\* The inductive invariant of the sizes
SizesInv == TreeInv /\ Sized(tree)

\* vf_insert_before.
LEMMA InsertKeepsSizes ==
  ASSUME SizesInv, NEW offset \in Int, NEW len \in Nat, InsertAtOffset(offset, len)
  PROVE  Sized(tree')
<1> DEFINE t == PrunedTree
           buf == Bytes(t, len)
<1>1. Linked(t) /\ Sized(t) /\ AllActive(t)
  BY UndoneAreFreed, PrunedActive DEF SizesInv
<1>2. Len(buf) \in Nat
  <2>1. buf = [i \in 1 .. len |-> buf[i]]
    BY DEF Bytes
  <2> HIDE DEF buf
  <2> QED BY <2>1, FcnIsSeq
<1>3. tree' = InsertBefore(t, buf, offset) \/ tree' = t
  BY DEF InsertAtOffset
<1> HIDE DEF t, buf
<1> QED BY <1>1, <1>2, <1>3, InsertSized

\* vf_replace.
LEMMA ReplaceKeepsSizes ==
  ASSUME SizesInv, NEW offset \in Nat, NEW len \in Nat, ReplaceAtOffset(offset, len)
  PROVE  Sized(tree')
<1> DEFINE t == PrunedTree
           buf == Bytes(t, len)
           pieces == Walk(t, offset, len).pieces
           n == Len(pieces)
<1>1. Linked(t) /\ Sized(t)
  BY UndoneAreFreed DEF SizesInv
<1>2. tree' = Replace(t, buf, offset, pieces)
  BY DEF ReplaceAtOffset
<1> HIDE DEF t, buf
<1>3. n \in Nat /\ PiecesOK(t, pieces, n)
  BY <1>1, WalkIs
<1> HIDE DEF pieces, n
<1> QED BY <1>1, <1>2, <1>3, ReplaceSized

\* vf_delete.
LEMMA DeleteKeepsSizes ==
  ASSUME SizesInv, NEW offset \in Nat, NEW len \in Nat, DeleteAtOffset(offset, len)
  PROVE  Sized(tree')
<1> DEFINE t == PrunedTree
           pieces == Walk(t, offset, len).pieces
           n == Len(pieces)
<1>1. Linked(t) /\ Sized(t) /\ AllActive(t)
  BY UndoneAreFreed, PrunedActive DEF SizesInv
<1>2. tree' = Delete(t, offset, pieces)
  BY DEF DeleteAtOffset
<1> HIDE DEF t
<1>3. n \in Nat /\ PiecesOK(t, pieces, n)
  BY <1>1, WalkIs
<1> HIDE DEF pieces, n
<1> QED BY <1>1, <1>2, <1>3, DeleteSized

\* vf_undo, the newest entries first.
LEMMA UndoKeepsSizes ==
  ASSUME SizesInv, NEW count \in Nat, Undo(count)
  PROVE  Sized(tree')
<1> DEFINE top == LastApplied(ul)
           n == IF count < top THEN count ELSE top
           from == top - n + 1
           entries == Reverse(SubSeq(ul, from, top))
<1>1. /\ Len(ul) \in Nat /\ top \in 0 .. Len(ul)
      /\ ul = [i \in 1 .. Len(ul) |-> ul[i]]
  BY DEF SizesInv, TreeInv, HistoryInv, UndoListTypeOK
<1>2. tree' = SwitchAll(tree, entries, FALSE)
  BY DEF Undo, ToUndo
<1>3. n \in 0 .. top
  BY <1>1
<1>4. \A k : Turn(FALSE, k) = top - k + 1
  BY DEF Turn
<1> HIDE DEF n, top
<1>5. DOMAIN entries = 1 .. n /\ \A k \in 1 .. n : entries[k] = ul[top - k + 1]
  BY <1>1, <1>3, NewestFirst
<1> HIDE DEF entries
<1>6. ASSUME NEW k \in 1 .. n
      PROVE  Turn(FALSE, k) \in 1 .. Len(ul) /\ entries[k] = ul[Turn(FALSE, k)]
  <2>1. top - k + 1 \in 1 .. Len(ul)
    BY <1>1, <1>3
  <2> QED BY <1>4, <1>5, <2>1
<1>7. n \in Nat /\ FALSE \in BOOLEAN
  BY <1>1, <1>3
<1>8. Sized(SwitchAll(tree, entries, FALSE))
  BY <1>5, <1>6, <1>7, AllSized DEF SizesInv
<1> QED BY <1>2, <1>8

\* vf_redo, the oldest entries first.
LEMMA RedoKeepsSizes ==
  ASSUME SizesInv, NEW count \in Nat, Redo(count)
  PROVE  Sized(tree')
<1> DEFINE top == LastApplied(ul)
           n == IF count < Len(ul) - top THEN count ELSE Len(ul) - top
           from == top + 1
           to == top + n
           entries == SubSeq(ul, from, to)
<1>1. /\ Len(ul) \in Nat /\ top \in 0 .. Len(ul)
      /\ ul = [i \in 1 .. Len(ul) |-> ul[i]]
  BY DEF SizesInv, TreeInv, HistoryInv, UndoListTypeOK
<1>2. tree' = SwitchAll(tree, entries, TRUE)
  BY DEF Redo, ToRedo
<1>3. n \in 0 .. Len(ul) - top
  BY <1>1
<1>4. \A k : Turn(TRUE, k) = top + k
  BY DEF Turn
<1> HIDE DEF n, top
<1>5. DOMAIN entries = 1 .. n /\ \A k \in 1 .. n : entries[k] = ul[top + k]
  <2>1. /\ from \in 1 .. Len(ul) + 1 /\ to \in from - 1 .. Len(ul)
        /\ n = to - from + 1
    BY <1>1, <1>3, SMTT(30)
  <2>2. \A k \in 1 .. n : from + k - 1 = top + k
    BY <1>1, <1>3
  <2> HIDE DEF from, to
  <2>3. DOMAIN entries = 1 .. n /\ \A k \in 1 .. n : entries[k] = ul[from + k - 1]
    BY <1>1, <2>1, StretchIs, SMTT(30)
  <2> HIDE DEF entries
  <2> QED BY <2>2, <2>3
<1> HIDE DEF entries
<1>6. ASSUME NEW k \in 1 .. n
      PROVE  Turn(TRUE, k) \in 1 .. Len(ul) /\ entries[k] = ul[Turn(TRUE, k)]
  <2>1. top + k \in 1 .. Len(ul)
    BY <1>1, <1>3
  <2> QED BY <1>4, <1>5, <2>1
<1>7. n \in Nat /\ TRUE \in BOOLEAN
  BY <1>1, <1>3
<1>8. Sized(SwitchAll(tree, entries, TRUE))
  BY <1>5, <1>6, <1>7, AllSized DEF SizesInv
<1> QED BY <1>2, <1>8

\* The file just opened is its own bytes.
LEMMA InitSized ==
  ASSUME Init
  PROVE  Sized(tree)
<1> DEFINE bytes == [i \in 1 .. FileSize |-> <<Root, i>>]
<1>1. /\ DOMAIN tree = {Root}
      /\ tree[Root] = [parent |-> Null, children |-> <<>>, start |-> 0, size |-> FileSize,
                       buf_type |-> "FILE", active |-> TRUE, buf |-> bytes]
  BY DEF Init
<1>2. FileSize \in Nat
  BY VirtFileAssumption DEF VirtFileAssumption
<1>3. Len(bytes) = FileSize
  <2>1. bytes = [i \in 1 .. FileSize |-> bytes[i]]
    OBVIOUS
  <2> HIDE DEF bytes
  <2> QED BY <1>2, <2>1, FcnIsSeq
<1> HIDE DEF bytes
<1>4. /\ tree[Root].children = <<>> /\ tree[Root].size = FileSize
      /\ tree[Root].buf_type = "FILE" /\ tree[Root].active = TRUE
      /\ Len(tree[Root].buf) = FileSize
  BY <1>1, <1>3
<1>5. SumOver(tree, Len(tree[Root].buf), tree[Root].children) = Len(tree[Root].buf)
  BY <1>4, SumOfNone
<1>6. HasBytes(tree[Root])
  BY <1>4 DEF HasBytes
<1>7. Typed(tree)
  BY <1>1, <1>2, <1>4, <1>6 DEF Typed
<1>8. Balanced(tree)
  BY <1>1, <1>4, <1>5 DEF Balanced
<1> QED BY <1>7, <1>8 DEF Sized

\* Every step leaves the sizes right.
LEMMA StepSized ==
  ASSUME SizesInv, [Next]_vars
  PROVE  Sized(tree')
<1>1. \A offset \in 0 .. Size + 1 : offset \in Nat /\ offset \in Int
  <2>1. Size \in Int
    BY DEF Size, SizesInv, TreeInv, Owned, Linked, IsVbuf
  <2> QED BY <2>1
<1>2. \A len \in InsertLen \cup ReplaceLen \cup DeleteLen \cup Count : len \in Nat
  BY VirtFileAssumption DEF VirtFileAssumption
<1>3. ASSUME NEW offset \in 0 .. Size + 1, NEW len \in InsertLen, InsertAtOffset(offset, len)
      PROVE  Sized(tree')
  <2>1. offset \in Int /\ len \in Nat
    BY <1>1, <1>2
  <2> QED BY <1>3, <2>1, InsertKeepsSizes
<1>4. ASSUME NEW offset \in 0 .. Size + 1, NEW len \in ReplaceLen, ReplaceAtOffset(offset, len)
      PROVE  Sized(tree')
  <2>1. offset \in Nat /\ len \in Nat
    BY <1>1, <1>2
  <2> QED BY <1>4, <2>1, ReplaceKeepsSizes
<1>5. ASSUME NEW offset \in 0 .. Size + 1, NEW len \in DeleteLen, DeleteAtOffset(offset, len)
      PROVE  Sized(tree')
  <2>1. offset \in Nat /\ len \in Nat
    BY <1>1, <1>2
  <2> QED BY <1>5, <2>1, DeleteKeepsSizes
<1>6. ASSUME NEW count \in Count, Undo(count) PROVE Sized(tree')
  <2>1. count \in Nat
    BY <1>2
  <2> QED BY <1>6, <2>1, UndoKeepsSizes
<1>7. ASSUME NEW count \in Count, Redo(count) PROVE Sized(tree')
  <2>1. count \in Nat
    BY <1>2
  <2> QED BY <1>7, <2>1, RedoKeepsSizes
<1>8. CASE UNCHANGED vars
  BY <1>8 DEF vars, SizesInv
<1> QED BY <1>3, <1>4, <1>5, <1>6, <1>7, <1>8 DEF Next

(***************************************************************************)
(* Theorems about the tree.                                                *)
(***************************************************************************)
\* In every reachable state the undo list and the tree fit.
THEOREM TreeInvariant == Spec => []TreeInv
<1>1. Init => Owned(tree, ul)
  BY InitOwned
<1>2. TreeInv /\ [Next]_vars => Owned(tree, ul)'
  BY StepOwned
<1>3. TreeInv <=> HistoryInv /\ Owned(tree, ul)
  BY DEF TreeInv
<1> QED BY <1>1, <1>2, <1>3, HistoryInvariant, PTL DEF Spec

\* prune, which frees vbufs in one pass and entries in another, never leaves an
\* entry that points to a freed vbuf, a vbuf that no entry frees, or one that
\* two entries free.
THEOREM NeverDangling == Spec => []NoDanglingUndo
<1>1. TreeInv => NoDanglingUndo
  <2> SUFFICES ASSUME TreeInv
               PROVE  NoDanglingUndo
    OBVIOUS
  <2>1. Owned(tree, ul)
    BY DEF TreeInv
  <2>2. ASSUME NEW i \in 1 .. Len(ul)
        PROVE  Range(ul[i].vb_list) \subseteq DOMAIN tree \ {Root}
    <3>1. PICK n \in Nat : VbList(tree, ul[i].vb_list, n)
      BY <2>1 DEF Owned
    <3> QED BY <3>1, NamesAreVbufs
  <2> QED BY <2>1, <2>2 DEF Owned, NoDanglingUndo
<1> QED BY <1>1, TreeInvariant, PTL

\* The flag of a vbuf says whether the edit that made it is applied, through
\* any sequence of edits, undo and redo: what is undone is never displayed, and
\* what is in force always is.
THEOREM FlagsFollowHistory == Spec => []ActiveIffApplied
<1>1. TreeInv => ActiveIffApplied
  BY DEF TreeInv, Owned, ActiveIffApplied
<1> QED BY <1>1, TreeInvariant, PTL

\* Whatever the edits, undos and redos before it, the undo of the newest change
\* in force and its redo give back the tree: vf_undo and vf_redo add and subtract
\* in the same order, not in the opposite one, and still nothing drifts.
THEOREM NothingDrifts == Spec => []UndoRedoRoundTrip
<1>1. TreeInv => UndoRedoRoundTrip
  <2> SUFFICES ASSUME TreeInv, LastApplied(ul) > 0
               PROVE  SwitchAll(SwitchAll(tree, ToUndo(1), FALSE), ToUndo(1), TRUE) = tree
    BY DEF UndoRedoRoundTrip
  <2> DEFINE top == LastApplied(ul)
             vbs == ul[top].vb_list
             entries == ToUndo(1)
  <2>1. /\ Len(ul) \in Nat /\ top \in 1 .. Len(ul)
        /\ ul = [i \in 1 .. Len(ul) |-> ul[i]]
        /\ ul[top].applied = TRUE
        /\ Owned(tree, ul)
    BY DEF TreeInv, HistoryInv, UndoListTypeOK
  <2>2. DOMAIN entries = 1 .. 1 /\ entries[1] = ul[top]
    <3> DEFINE part == SubSeq(ul, top - 1 + 1, top)
    <3> HIDE DEF top
    <3>1. Len(part) = 1 /\ part[1] = ul[top]
      <4>1. /\ Len(part) = top - (top - 1 + 1) + 1
            /\ \A k \in 1 .. top - (top - 1 + 1) + 1 : part[k] = ul[(top - 1 + 1) + k - 1]
        BY <2>1, StretchIs, SMTT(30)
      <4>2. top - (top - 1 + 1) + 1 = 1 /\ (top - 1 + 1) + 1 - 1 = top
        BY <2>1
      <4> HIDE DEF part
      <4> QED BY <4>1, <4>2
    <3>2. entries = Reverse(part)
      BY DEF ToUndo, top
    <3> HIDE DEF part
    <3> QED BY <3>1, <3>2 DEF Reverse
  <2> HIDE DEF entries, top
  <2>3. ASSUME NEW t, NEW on PROVE SwitchAll(t, entries, on) = SwitchList(t, vbs, on)
    <3>1. PICK s : SwitchAllRun(on, t, entries, 1, s)
      BY <2>2, SwitchAllRuns
    <3>2. s[1] = SwitchEntry(s[0], entries[1], on) /\ s[0] = t /\ s[1] = SwitchAll(t, entries, on)
      <4>1. 1 \in 1 .. 1 /\ 1 - 1 = 0
        OBVIOUS
      <4> QED BY <3>1, <4>1 DEF SwitchAllRun
    <3>3. SwitchEntry(t, ul[top], on) = SwitchList(t, vbs, on)
      BY DEF SwitchEntry, SwitchList
    <3> QED BY <2>2, <3>2, <3>3
  <2>4. PICK n \in Nat : VbList(tree, vbs, n)
    BY <2>1 DEF Owned
  <2>5. Apart(tree, vbs, n)
    BY <2>1, <2>4, EntryApart
  <2>6. Linked(tree) /\ \A v \in Range(vbs) : tree[v].active = TRUE
    BY <2>1 DEF Owned
  <2> HIDE DEF vbs
  <2>7. SwitchList(SwitchList(tree, vbs, FALSE), vbs, TRUE) = tree
    BY <2>4, <2>5, <2>6, OffAndOn
  <2> QED BY <2>3, <2>7 DEF entries
<1> QED BY <1>1, TreeInvariant, PTL

\* In every reachable state the sizes the code keeps by addition and subtraction
\* are what the vbufs in force add up to: through any sequence of edits, undo and
\* redo mod_parent_size never loses a byte or counts one twice.
THEOREM SizesStayRight == Spec => []SizesAddUp
<1>1. Init => Sized(tree)
  BY InitSized
<1>2. TreeInv /\ Sized(tree) /\ [Next]_vars => Sized(tree)'
  BY StepSized DEF SizesInv
<1>3. Sized(tree) => SizesAddUp
  BY DEF Sized, Balanced, SumOver, SizesAddUp, SumAt
<1> QED BY <1>1, <1>2, <1>3, TreeInvariant, PTL DEF Spec
=============================================================================
