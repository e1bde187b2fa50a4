----------------------------- MODULE VirtFile -----------------------------
(***************************************************************************)
(* One open file of src/virt_file.c: the tree of virtual buffers and the   *)
(* undo list, with one action per call of the editor (vf_insert_before,    *)
(* vf_replace, vf_delete, vf_undo, vf_redo).  The calls come from the main *)
(* thread only, so each is one step.                                       *)
(*                                                                         *)
(* f->ul.last is the newest entry of the undo list and `last` leads to     *)
(* older ones; ul is that list turned around, oldest entry first.          *)
(***************************************************************************)
EXTENDS Vbuf

CONSTANTS
  FileSize,    \* the size of the file when it is opened
  InsertLen,   \* the lengths of the buffers inserted
  ReplaceLen,  \* the lengths of the ranges written over
  DeleteLen,   \* the lengths of the ranges deleted
  Count,       \* the counts given to undo and redo
  MaxEdits,    \* bound: entries of the undo list
  RunOn,       \* whether an edit may run on past a gap into the vbuf behind it
  InReplaced   \* whether bytes may be inserted or deleted under a REPLACE vbuf

ASSUME VirtFileAssumption ==
  /\ FileSize \in Nat /\ MaxEdits \in Nat
  /\ InsertLen \subseteq Nat \ {0}
  /\ ReplaceLen \subseteq Nat \ {0}
  /\ DeleteLen \subseteq Nat \ {0}
  /\ Count \subseteq Nat \ {0}
  /\ RunOn \in BOOLEAN /\ InReplaced \in BOOLEAN

VARIABLES
  tree,  \* f->fm and all that hangs under it
  ul,    \* f->ul: entries [vb_list, applied], oldest first
  call,  \* the last call
  done   \* what it returned: bytes edited, or changes undone or redone

vars == <<tree, ul, call, done>>

Size == tree[Root].size

\* vf_init, with the bytes of the file on disk
Init ==
  /\ tree = [v \in {Root} |->
               [parent |-> Null, children |-> <<>>, start |-> 0, size |-> FileSize,
                buf_type |-> "FILE", active |-> TRUE,
                buf |-> [i \in 1 .. FileSize |-> <<Root, i>>]]]
  /\ ul = <<>>
  /\ call = [op |-> "init", offset |-> 0, buf |-> <<>>, len |-> 0]
  /\ done = 0

Called(op, offset, buf, len, result) ==
  /\ call' = [op |-> op, offset |-> offset, buf |-> buf, len |-> len]
  /\ done' = result

(***************************************************************************)
(* The undo list.                                                          *)
(***************************************************************************)

\* the newest entry still applied, 0 when there is none
LastApplied(list) ==
  IF \E i \in 1 .. Len(list) : list[i].applied
  THEN CHOOSE i \in 1 .. Len(list) :
         list[i].applied /\ \A j \in i + 1 .. Len(list) : ~list[j].applied
  ELSE 0

\* faulty: the undone entries stay in the list
UnprunedUl == ul

\* prune: the undone entries go, newest first, and their vbufs with them
PrunedUl == SubSeq(ul, 1, LastApplied(ul))

FreeEntry(t, entry) == FoldLeft(FreeVbuf, t, entry.vb_list)

PrunedTree ==
  FoldLeft(FreeEntry, tree, Reverse(SubSeq(ul, LastApplied(ul) + 1, Len(ul))))

\* faulty: the entry is put at the old end of the list
PushedLast(list, t, n) ==
  IF n = 0 THEN list ELSE <<[vb_list |-> NewVbufs(t, n), applied |-> TRUE]>> \o list

\* the entry pushed for the n vbufs an edit of t allocates; none for n = 0
Pushed(list, t, n) ==
  IF n = 0 THEN list ELSE Append(list, [vb_list |-> NewVbufs(t, n), applied |-> TRUE])

Room == LastApplied(ul) < MaxEdits

(***************************************************************************)
(* Edits.  Each prunes the undo list before it looks at its arguments.     *)
(***************************************************************************)

\* the bytes the caller passes: told apart by the edit that writes them
Bytes(t, len) == [i \in 1 .. len |-> <<NewId(t), i>>]

\* the walk leaves a gap with bytes still to do and an INSERT or REPLACE vbuf
\* next in the list, the one it will not visit
RunsOn(t, pieces) ==
  \E i \in 1 .. Len(pieces) - 1 :
    pieces[i].before # Null /\ HasBytes(t[pieces[i].before])

\* the vbuf or one above it is a REPLACE
UnderReplace(t, v) == \E u \in Line(t, v) : t[u].buf_type = "REPLACE"

\* vf_insert_before; vf_insert_after is the same at offset + 1
InsertAtOffset(offset, len) ==
  LET t      == PrunedTree
      buf    == Bytes(t, len)
      inside == offset <= Size
  IN  /\ Room
      /\ InReplaced \/ ~UnderReplace(t, InsertPoint(t, offset).parent)
      /\ tree' = IF inside THEN InsertBefore(t, buf, offset) ELSE t
      /\ ul' = Pushed(PrunedUl, t, IF inside THEN 1 ELSE 0)
      /\ Called("insert", offset, buf, len, IF inside THEN len ELSE 0)

\* vf_replace
ReplaceAtOffset(offset, len) ==
  LET t    == PrunedTree
      buf  == Bytes(t, len)
      walk == Walk(t, offset, len)
  IN  /\ Room
      /\ RunOn \/ ~RunsOn(t, walk.pieces)
      /\ tree' = Replace(t, buf, offset, walk.pieces)
      /\ ul' = Pushed(PrunedUl, t, Len(walk.pieces))
      /\ Called("replace", offset, buf, len, walk.done)

\* vf_delete
DeleteAtOffset(offset, len) ==
  LET t    == PrunedTree
      walk == Walk(t, offset, len)
  IN  /\ Room
      /\ RunOn \/ ~RunsOn(t, walk.pieces)
      /\ InReplaced \/ \A p \in Range(walk.pieces) : ~UnderReplace(t, p.parent)
      /\ tree' = Delete(t, offset, walk.pieces)
      /\ ul' = Pushed(PrunedUl, t, Len(walk.pieces))
      /\ Called("delete", offset, <<>>, len, walk.done)

(***************************************************************************)
(* vf_undo and vf_redo walk the list entry by entry.                       *)
(***************************************************************************)

\* one entry switched off or on, vbuf by vbuf; several, one after the other
SwitchEntry(t, entry, on) == FoldLeft(LAMBDA u, v : Switch(u, v, on), t, entry.vb_list)

SwitchAll(t, entries, on) ==
  FoldLeft(LAMBDA u, entry : SwitchEntry(u, entry, on), t, entries)

\* the n newest applied entries, newest first, and the n oldest undone ones,
\* oldest first
ToUndo(n) == Reverse(SubSeq(ul, LastApplied(ul) - n + 1, LastApplied(ul)))
ToRedo(n) == SubSeq(ul, LastApplied(ul) + 1, LastApplied(ul) + n)

\* entries from .. to marked applied or not
Marked(from, to, applied) ==
  [i \in 1 .. Len(ul) |->
     IF i \in from .. to THEN [ul[i] EXCEPT !.applied = applied] ELSE ul[i]]

Undo(count) ==
  LET top == LastApplied(ul)
      n   == IF count < top THEN count ELSE top
  IN  /\ tree' = SwitchAll(tree, ToUndo(n), FALSE)
      /\ ul' = Marked(top - n + 1, top, FALSE)
      /\ Called("undo", 0, <<>>, count, n)

Redo(count) ==
  LET top == LastApplied(ul)
      n   == IF count < Len(ul) - top THEN count ELSE Len(ul) - top
  IN  /\ tree' = SwitchAll(tree, ToRedo(n), TRUE)
      /\ ul' = Marked(top + 1, top + n, TRUE)
      /\ Called("redo", 0, <<>>, count, n)

Next ==
  \/ \E offset \in 0 .. Size + 1 :
       \/ \E len \in InsertLen : InsertAtOffset(offset, len)
       \/ \E len \in ReplaceLen : ReplaceAtOffset(offset, len)
       \/ \E len \in DeleteLen : DeleteAtOffset(offset, len)
  \/ \E count \in Count : Undo(count) \/ Redo(count)

Spec == Init /\ [][Next]_vars

(***************************************************************************)
(* The text, as the two readers of the code deliver it.                    *)
(***************************************************************************)
TextByChar(t) == [i \in 1 .. t[Root].size |-> GetChar(t, i - 1)]
TextByBuf(t)  == GetBuf(t, 0, t[Root].size)

(***************************************************************************)
(* Properties.                                                             *)
(***************************************************************************)

\* Types of the undo list.
UndoListTypeOK ==
  /\ Len(ul) \in Nat
  /\ ul = [i \in 1 .. Len(ul) |-> ul[i]]
  /\ \A i \in 1 .. Len(ul) :
       /\ ul[i] = [vb_list |-> ul[i].vb_list, applied |-> ul[i].applied]
       /\ ul[i].applied \in BOOLEAN

\* Types of the tree: every vbuf is listed by its parent, and only there.
TreeTypeOK ==
  \A v \in DOMAIN tree :
    /\ tree[v].buf_type \in BufType
    /\ tree[v].size \in Nat /\ tree[v].start \in Nat
    /\ tree[v].active \in BOOLEAN
    /\ \A i, j \in DOMAIN tree[v].children :
         tree[v].children[i] = tree[v].children[j] => i = j
    /\ \A kid \in Range(tree[v].children) : tree[kid].parent = v
    /\ v # Root => v \in Range(tree[tree[v].parent].children)

TypeOK == UndoListTypeOK /\ TreeTypeOK

\* The entries that are undone are the newest ones.  vf_undo stops looking at
\* `applied` after the first applied entry, vf_redo and prune look only at the
\* head of the list: all three rely on it.
UndoneAreNewest ==
  \A i, j \in 1 .. Len(ul) : i < j /\ ul[j].applied => ul[i].applied

\* Every vbuf an undo entry points to is still allocated (prune frees vbufs
\* and entries at different times), and every vbuf belongs to one entry: none
\* is leaked, none is freed by two entries.
NoDanglingUndo ==
  LET listed(i) == Range(ul[i].vb_list)
  IN  /\ \A v \in DOMAIN tree \ {Root} :
           \E i \in 1 .. Len(ul) : v \in listed(i)
      /\ \A i \in 1 .. Len(ul) : listed(i) \subseteq DOMAIN tree \ {Root}
      /\ \A i, j \in 1 .. Len(ul) : listed(i) \cap listed(j) # {} => i = j

\* A vbuf is active exactly when the edit that made it is applied.
ActiveIffApplied ==
  \A i \in 1 .. Len(ul) : \A v \in Range(ul[i].vb_list) :
    tree[v].active = ul[i].applied

\* What a vbuf adds to the size of its parent: nothing when it is undone
Gain(vb) ==
  IF ~vb.active THEN 0
  ELSE CASE vb.buf_type = "INSERT"  -> vb.size
         [] vb.buf_type = "DELETE"  -> -vb.size
         [] vb.buf_type = "REPLACE" -> vb.size - Len(vb.buf)

\* Its own bytes, and what its children add
SumAt(t, v) ==
  FoldLeft(LAMBDA acc, kid : acc + Gain(t[kid]), Len(t[v].buf), t[v].children)

\* The sizes mod_parent_size keeps by addition and subtraction, through every
\* order of edits, undo and redo, are those the active vbufs add up to.
SizesAddUp ==
  \A v \in DOMAIN tree : HasBytes(tree[v]) => tree[v].size = SumAt(tree, v)

\* The two readers agree: the status line and the highlighter, which read by
\* _get_char, see the bytes the screen shows, which reads by _get_buf.
ReadersAgree == TextByChar(tree) = TextByBuf(tree)

\* vf_need_save: some entry is applied (no entry is ever marked saved)
NeedSave == LastApplied(ul) > 0

\* Undoing a change and redoing it gives back the same tree, with every start,
\* size and flag: vf_undo and vf_redo shift the offsets in list order both
\* times.  As it holds before and after every undo, it holds of many at once.
UndoRedoRoundTrip ==
  LastApplied(ul) > 0 =>
    SwitchAll(SwitchAll(tree, ToUndo(1), FALSE), ToUndo(1), TRUE) = tree

\* What vf_undo leaves in *undo_addr when it undoes one change: the start, once
\* switched off, of the last vbuf of the entry
UndoAddr ==
  SwitchAll(tree, ToUndo(1), FALSE)[Last(ul[LastApplied(ul)].vb_list)].start

\* "undo_addr is set to the start address of the last change undone"
\* (src/virt_file.c, above vf_undo)
UndoAddrIsStart ==
  call.op \in {"insert", "replace", "delete"} /\ done > 0 => UndoAddr = call.offset

\* The undo list is a linear history: every edit drops what was undone, undo
\* takes away the newest changes in force, redo brings back the oldest of those
\* taken away.
History == INSTANCE LinearHistory WITH
  log <- [i \in 1 .. Len(ul) |-> ul[i].vb_list],
  pos <- LastApplied(ul)

IsLinearHistory == History!Spec
=============================================================================
