--------------------------- MODULE TextHistory ----------------------------
(***************************************************************************)
(* A text of bytes with a linear history, as plain operators: h is a       *)
(* record of versions, the texts of the history with the oldest first, and *)
(* pos, the version that is current.  A call c is a record of op, offset,  *)
(* buf and len.  EditBuffer makes a specification of these, which VirtFile *)
(* implements; Editor is built on them.                                    *)
(***************************************************************************)
LOCAL INSTANCE Integers
LOCAL INSTANCE Sequences

Text(h) == h.versions[h.pos]

(***************************************************************************)
(* Edits: c.len bytes, those of c.buf for an insert or a replace.          *)
(***************************************************************************)
IsEdit(c) == c.op \in {"insert", "replace", "delete"}

\* the bytes of the text the edit takes away
Taken(c) == IF c.op = "insert" THEN 0 ELSE c.len

Inside(h, c) == c.offset + Taken(c) <= Len(Text(h))

Spliced(h, c) ==
  SubSeq(Text(h), 1, c.offset) \o c.buf
    \o SubSeq(Text(h), c.offset + Taken(c) + 1, Len(Text(h)))

\* what was undone is forgotten, even by an edit outside the text
Edited(h, c) ==
  LET kept == SubSeq(h.versions, 1, h.pos)
  IN  IF Inside(h, c) THEN [versions |-> Append(kept, Spliced(h, c)), pos |-> h.pos + 1]
                      ELSE [versions |-> kept, pos |-> h.pos]

(***************************************************************************)
(* Undo and redo: c.len versions back or forth, as far as there are any.   *)
(***************************************************************************)
Steps(h, c) ==
  LET most == IF c.op = "undo" THEN h.pos - 1 ELSE Len(h.versions) - h.pos
  IN  IF c.len < most THEN c.len ELSE most

After(h, c) ==
  IF IsEdit(c) THEN Edited(h, c)
  ELSE [h EXCEPT !.pos = IF c.op = "undo" THEN @ - Steps(h, c) ELSE @ + Steps(h, c)]

\* what the call returns: bytes edited, or versions travelled
Result(h, c) ==
  IF IsEdit(c) THEN (IF Inside(h, c) THEN c.len ELSE 0) ELSE Steps(h, c)
============================================================================
