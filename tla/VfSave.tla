------------------------------- MODULE VfSave -------------------------------
(***************************************************************************)
(* vf_save of src/virt_file.c, byte by byte: the edits of a file are       *)
(* written into the file itself, from its start to its end.  What an       *)
(* insert pushes away is kept in one of two buffers (move_buf) until its   *)
(* new place is reached.                                                   *)
(*                                                                         *)
(* The walk over the vbufs folds over a record s: the bytes on disk, the   *)
(* two buffers and which of them is selected, the shift (bytes inserted    *)
(* less bytes deleted so far), the offset written up to, and wild, set     *)
(* when the code reads or writes outside a buffer.  Where the buffers were *)
(* not filled they hold Junk: they are static, with bytes of an earlier    *)
(* save.                                                                   *)
(***************************************************************************)
EXTENDS VirtFile

CONSTANTS
  MaxSaveShift,  \* MAX_SAVE_SHIFT, the size of a buffer
  SaveSlips      \* what a save may meet that vf_save has no answer for, see below

\* "pending": behind bytes inserted, a vbuf that does not take as many away;
\* "tight": less room behind bytes inserted than there are of them; "far": more
\* than a buffer between them and the next vbuf; "long": behind bytes deleted, a
\* REPLACE with more than a buffer behind it; "undone": the first vbuf undone;
\* "much": more bytes inserted than a buffer holds, the limit vf_save names.
SaveSlip == {"pending", "tight", "far", "long", "undone", "much"}

ASSUME VfSaveAssumption == MaxSaveShift \in Nat \ {0} /\ SaveSlips \subseteq SaveSlip

VARIABLE disk  \* the bytes of the file on disk

(***************************************************************************)
(* The library calls.                                                      *)
(***************************************************************************)

\* bytes put over those of seq from index at on; a gap is filled with Junk
Over(seq, at, bytes) ==
  [i \in 1 .. Max({Len(seq), at + Len(bytes)}) |->
     IF i \in at + 1 .. at + Len(bytes) THEN bytes[i - at]
     ELSE IF i <= Len(seq) THEN seq[i] ELSE Junk]

\* what fread delivers for n bytes; a negative n is a size_t beyond any file
Fetched(seq, pos, n) ==
  SubSeq(seq, pos + 1, IF n < 0 \/ pos + n > Len(seq) THEN Len(seq) ELSE pos + n)

\* fseeko, fread(move_buf[buf_select] + at, 1, n, fp)
Read(s, at, pos, n) ==
  LET bytes == Fetched(s.disk, pos, n)
  IN  IF at + Len(bytes) > MaxSaveShift THEN [s EXCEPT !.wild = TRUE]
      ELSE [s EXCEPT !.buf[s.sel] = Over(@, at, bytes)]

\* fseeko, fwrite(bytes, 1, Len(bytes), fp)
Write(s, pos, bytes) == [s EXCEPT !.disk = Over(@, pos, bytes)]

\* fseeko, fwrite(move_buf[buf_select], 1, n, fp)
WriteBuf(s, pos, n) ==
  IF n \in 0 .. MaxSaveShift THEN Write(s, pos, SubSeq(s.buf[s.sel], 1, n))
                             ELSE [s EXCEPT !.wild = TRUE]

Toggle(s) == [s EXCEPT !.sel = 1 - @]

\* memcpy(move_buf[buf_select], move_buf[buf_select] + by, n)
Drop(s, by, n) ==
  IF by + n > MaxSaveShift THEN [s EXCEPT !.wild = TRUE]
  ELSE [s EXCEPT !.buf[s.sel] = Over(@, 0, SubSeq(@, by + 1, by + n))]

(***************************************************************************)
(* Moving the unchanged bytes in front of `to`, when the shift is not 0.   *)
(***************************************************************************)

\* while (more) turn, which moves the offset up to at most `to`
While(more(_), turn(_), s0, to) ==
  FoldLeft(LAMBDA s, i : IF more(s) THEN turn(s) ELSE s, s0, [i \in 1 .. to |-> i])

Upto(n, most) == IF n > most THEN most ELSE n

\* After an insert.  The bytes kept go to disk, as many as fit into the other
\* buffer are read before that; as long as more than a buffer is left, one is
\* filled and the other written.  far is where the loop reads, counted from the
\* offset: 0 between two vbufs, MaxSaveShift - shift at the end of the file.
MoveUp(s0, to, far) ==
  LET kept  == SubSeq(s0.buf[1 - s0.sel], 1, s0.shift)
      ahead == Read(Toggle(s0), 0, s0.off, Upto(to - s0.off - s0.shift, MaxSaveShift))
      first == Toggle([Write(ahead, s0.off, kept) EXCEPT !.off = @ + s0.shift])
      more(s) == to - s.off > MaxSaveShift
      turn(s) ==
        LET ready == Toggle(Read(s, 0, s.off + far, Upto(to - s.off - MaxSaveShift, MaxSaveShift)))
        IN  [WriteBuf(ready, s.off, MaxSaveShift) EXCEPT !.off = @ + MaxSaveShift]
      last == Toggle(While(more, turn, first, to))
  IN  IF s0.shift > MaxSaveShift THEN [s0 EXCEPT !.wild = TRUE]
      ELSE [WriteBuf(last, last.off, to - last.off) EXCEPT !.off = to]

\* After a delete: the bytes are read further on and written back.
MoveDown(s0, to) ==
  LET more(s) == to - s.off > MaxSaveShift
      copy(s, n) == [WriteBuf(Read(s, 0, s.off - s.shift, n), s.off, n) EXCEPT !.off = @ + n]
      last == While(more, LAMBDA s : copy(s, MaxSaveShift), s0, to)
  IN  copy(last, to - last.off)

(***************************************************************************)
(* The vbufs, each at the offset s.off = t[v].start.                       *)
(***************************************************************************)

\* the bytes of a vbuf, as vf_get_buf delivers them
BytesOf(t, v) == GetBuf(t, t[v].start, t[v].size)

SaveInsert(s, t, v) ==
  LET size == t[v].size
      room == CASE s.shift >= 0 -> Read(s, s.shift, s.off, size)
                [] s.shift < 0 /\ size + s.shift > 0 -> Read(s, 0, s.off - s.shift, size + s.shift)
                [] OTHER -> s
  IN  [Write(Toggle(room), s.off, BytesOf(t, v)) EXCEPT !.shift = @ + size, !.off = @ + size]

SaveReplace(s, t, v) ==
  LET size == t[v].size
      room == CASE s.shift = 0 -> s
                [] s.shift # 0 /\ s.shift > size ->
                     Toggle(Read(Drop(s, size, s.shift - size), s.shift - size, s.off, size))
                [] OTHER -> Toggle(Read(s, 0, s.off + size - s.shift, s.shift))
  IN  [Write(room, s.off, BytesOf(t, v)) EXCEPT !.off = @ + size]

SaveDelete(s, t, v) ==
  LET size == t[v].size
  IN  [IF s.shift > size THEN Drop(s, size, s.shift - size) ELSE s EXCEPT !.shift = @ - size]

\* one turn of the loop over the list of the root
SaveVbuf(s, t, v) ==
  LET to == t[v].start
      at == [CASE s.shift > 0 -> MoveUp(s, to, 0)
               [] s.shift < 0 -> MoveDown(s, to)
               [] OTHER -> s EXCEPT !.off = to]
  IN  CASE ~t[v].active \/ t[v].size = 0 -> s
        [] t[v].buf_type = "INSERT"  -> SaveInsert(at, t, v)
        [] t[v].buf_type = "REPLACE" -> SaveReplace(at, t, v)
        [] t[v].buf_type = "DELETE"  -> SaveDelete(at, t, v)

\* faulty: the file is not cut
SaveRestUncut(s, size) ==
  CASE s.shift > 0 /\ size > s.off -> MoveUp(s, size, MaxSaveShift - s.shift)
    [] s.shift < 0 -> MoveDown(s, size)
    [] OTHER -> s

\* the rest of the file, behind the last vbuf
SaveRest(s, size) ==
  LET down == MoveDown(s, size)
  IN  CASE s.shift > 0 /\ size > s.off -> MoveUp(s, size, MaxSaveShift - s.shift)
        [] s.shift < 0 -> [down EXCEPT !.disk = SubSeq(@, 1, down.off)]  \* ftruncate
        [] OTHER -> s

(***************************************************************************)
(* The tree t over a file with these bytes, written into it.               *)
(***************************************************************************)
Written(t, bytes) ==
  LET empty == [i \in 1 .. MaxSaveShift |-> Junk]
      start == [disk |-> bytes, buf |-> [b \in {0, 1} |-> empty], sel |-> 0,
                shift |-> 0, off |-> 0, wild |-> FALSE]
  IN  SaveRest(FoldLeft(LAMBDA s, v : SaveVbuf(s, t, v), start, t[Root].children),
               t[Root].size)

(***************************************************************************)
(* The save as a step: vf_save, then cleanup.  The bound is one save: it   *)
(* leaves a file like the one Init opens.                                  *)
(***************************************************************************)

\* The first vbuf is looked up before prune, which may free it.
FirstFreed ==
  tree[Root].children # <<>> /\ Head(tree[Root].children) \notin DOMAIN PrunedTree

\* the vbufs a save writes, and the change of the file size by the first i
Edits(t) == SelectSeq(ActiveChildren(t, Root), LAMBDA v : t[v].size > 0)

ShiftBy(t, i) ==
  FoldLeft(LAMBDA n, v : n + CASE t[v].buf_type = "INSERT"  -> t[v].size
                               [] t[v].buf_type = "DELETE"  -> -t[v].size
                               [] t[v].buf_type = "REPLACE" -> 0,
           0, SubSeq(Edits(t), 1, i))

\* the unchanged bytes behind the i-th of them
GapBehind(t, i) ==
  LET v == Edits(t)[i]
  IN  (IF i = Len(Edits(t)) THEN t[Root].size ELSE t[Edits(t)[i + 1]].start)
        - (IF HasBytes(t[v]) THEN End(t[v]) ELSE t[v].start)

\* the slips there are behind the i-th of them
SlipsBehind(t, i) ==
  LET shift == ShiftBy(t, i)
      gap   == GapBehind(t, i)
      last  == i = Len(Edits(t))
      next  == t[Edits(t)[i + 1]]
  IN  {slip \in SaveSlip :
         CASE slip = "pending" -> shift > 0 /\ ~last /\ (next.buf_type = "INSERT" \/ next.size < shift)
           [] slip = "tight"   -> shift > 0 /\ gap < shift /\ ~(last /\ gap = 0)
           [] slip = "far"     -> shift > 0 /\ ~last /\ gap - shift > MaxSaveShift
           [] slip = "long"    -> /\ shift < 0 /\ ~last /\ next.buf_type = "REPLACE"
                                  /\ Len(disk) - (End(next) - shift) > MaxSaveShift
           [] slip = "much"    -> shift > MaxSaveShift
           [] slip = "undone"  -> FALSE}

SlipsOf(t) ==
  {slip \in {"undone"} : FirstFreed}
    \cup UNION {SlipsBehind(t, i) : i \in DOMAIN Edits(t)}

Spoilt == <<Junk>>

SaveInit == Init /\ disk = tree[Root].buf

Save ==
  LET s == Written(PrunedTree, disk)
  IN  /\ SlipsOf(PrunedTree) \subseteq SaveSlips
      /\ disk' = IF FirstFreed \/ s.wild THEN Spoilt ELSE s.disk
      /\ tree' = [v \in {Root} |-> [tree[Root] EXCEPT !.children = <<>>, !.buf = disk']]
      /\ ul' = <<>>
      /\ Called("save", 0, <<>>, 0, Size)

SaveNext == call.op # "save" /\ (Save \/ (Next /\ UNCHANGED disk))

SaveSpec == SaveInit /\ [][SaveNext]_<<vars, disk>>

\* ":w Save" (src/help.c): what a save leaves on disk is what the screen showed,
\* whatever was inserted, replaced and deleted where, undone and redone, and
\* however the file is cut up by the two buffers of vf_save.
SaveWritesText == [][call'.op = "save" => disk' = TextByBuf(tree)]_<<vars, disk>>
=============================================================================
