------------------------------- MODULE Vbuf -------------------------------
(***************************************************************************)
(* The tree of virtual buffers of src/vf_backend.c, as operators on a tree *)
(* value t: a function from the vbufs in use to their fields.  The root is *)
(* the file itself; an INSERT, REPLACE or DELETE vbuf hangs under the vbuf *)
(* whose bytes it changes.  The list first_child/next/prev of a vbuf is    *)
(* the sequence t[v].children.                                             *)
(*                                                                         *)
(* A vbuf is named by a number, larger than that of every vbuf in use when *)
(* it is allocated.  A byte is whatever the caller put in a buffer; Junk   *)
(* is a byte the code never wrote (past the end of a buffer or of the      *)
(* file).                                                                  *)
(***************************************************************************)
EXTENDS Integers, Sequences, SequencesExt

Root == 0      \* &f->fm
Null == -1     \* NULL, where a vbuf is expected
Junk == <<>>   \* an uninitialised or overread byte
Hang == <<0>>  \* _get_buf loops for ever instead of delivering a byte

BufType == {"FILE", "INSERT", "REPLACE", "DELETE"}

HasBytes(vb) == vb.buf_type # "DELETE"
End(vb) == vb.start + vb.size

(***************************************************************************)
(* Shape of the tree.                                                      *)
(***************************************************************************)

\* v with everything above it, up to the root
Line(t, v) ==
  LET up[u \in DOMAIN t] == IF u = Root THEN {Root} ELSE {u} \cup up[t[u].parent]
  IN  up[v]

Siblings(t, v) == t[t[v].parent].children

Place(t, v) == CHOOSE i \in DOMAIN Siblings(t, v) : Siblings(t, v)[i] = v

\* the vbufs reached from v->next: its later siblings
Later(t, v) == {Siblings(t, v)[i] : i \in Place(t, v) + 1 .. Len(Siblings(t, v))}

\* everything behind v in the file: the later siblings of v and of the vbufs
\* above it, with all that hangs under them
Behind(t, v) ==
  LET roots == UNION {Later(t, u) : u \in Line(t, v) \ {Root}}
  IN  {w \in DOMAIN t : Line(t, w) \cap roots # {}}

\* faulty: mod_parent_size alone, nothing behind v moves
ResizeAbove(t, v, by) ==
  [w \in DOMAIN t |->
     IF w \in Line(t, v) \ {v} THEN [t[w] EXCEPT !.size = @ + by] ELSE t[w]]

\* mod_parent_size(v->parent, by) then mod_start_offset(v->next, by): the
\* vbufs above v grow by `by` and all that is behind v moves by as much
Resize(t, v, by) ==
  LET above  == Line(t, v) \ {v}
      behind == Behind(t, v)
  IN  [w \in DOMAIN t |->
         [t[w] EXCEPT !.size  = IF w \in above THEN @ + by ELSE @,
                      !.start = IF w \in behind THEN @ + by ELSE @]]

NewId(t) == 1 + Max(DOMAIN t)

\* insert_new_vbuf: link a new active vbuf into parent's list before `before`,
\* at the end when that is NULL
InsertNewVbuf(t, parent, before, start, size, buf_type, buf) ==
  LET id   == NewId(t)
      kids == t[parent].children
      at   == IF before = Null THEN Len(kids) + 1 ELSE Place(t, before)
      new  == [parent |-> parent, children |-> <<>>, start |-> start, size |-> size,
               buf_type |-> buf_type, active |-> TRUE, buf |-> buf]
  IN  [w \in DOMAIN t \cup {id} |->
         CASE w = id     -> new
           [] w = parent -> [t[w] EXCEPT !.children = InsertAt(kids, at, id)]
           [] OTHER      -> t[w]]

\* faulty: the vbuf is unlinked and never freed; it is never unlinked
LeakVbuf(t, v) ==
  [t EXCEPT ![t[v].parent].children =
              IF t[v].children = <<>> THEN RemoveAt(@, Place(t, v)) ELSE @]
KeepVbuf(t, v) == t

\* the middle of prune: an undone vbuf without children is unlinked and freed
FreeVbuf(t, v) ==
  IF t[v].children = <<>> /\ ~t[v].active
  THEN [w \in DOMAIN t \ {v} |->
          IF w = t[v].parent THEN [t[w] EXCEPT !.children = RemoveAt(@, Place(t, v))]
                             ELSE t[w]]
  ELSE t

(***************************************************************************)
(* _insert_before: descend through the INSERT and REPLACE vbufs that cover *)
(* the offset and stop before the first vbuf that starts behind it.        *)
(***************************************************************************)
\* at v: down is the descent itself, for the vbufs under v
Descend(t, offset, down, v) ==
  LET kids  == t[v].children
      stops == {i \in DOMAIN kids :
                  \/ offset < t[kids[i]].start
                  \/ HasBytes(t[kids[i]]) /\ offset < End(t[kids[i]])}
      kid   == kids[Min(stops)]
  IN  IF stops = {} THEN [parent |-> v, before |-> Null]
      ELSE IF offset < t[kid].start THEN [parent |-> v, before |-> kid]
      ELSE down[kid]

InsertPoint(t, offset) ==
  LET down[v \in DOMAIN t] == Descend(t, offset, down, v) IN down[Root]

InsertBefore(t, buf, offset) ==
  LET at == InsertPoint(t, offset)
      id == NewId(t)
  IN  Resize(InsertNewVbuf(t, at.parent, at.before, offset, Len(buf), "INSERT", buf),
             id, Len(buf))

(***************************************************************************)
(* The walk _replace and _delete share.  It cuts the range into the pieces *)
(* that become REPLACE or DELETE vbufs: one in every gap between the       *)
(* children of a vbuf, and, by recursion, those of the children the range  *)
(* covers.  As in the code, the child behind a gap is NOT visited after    *)
(* the piece for the gap is made, since the loop has moved on to its next. *)
(*                                                                         *)
(* Offsets are those before the edit.  _delete keeps its offset fixed and  *)
(* pulls the starts of what follows towards it, _replace moves its offset  *)
(* and leaves the starts: the comparisons, hence the pieces, are the same. *)
(***************************************************************************)
\* what the walk is asked to do at one vbuf
VbRange(vb, offset, len) == [vb |-> vb, offset |-> offset, len |-> len]
Asked(t) == [vb : DOMAIN t, offset : Nat, len : Nat]

Piece(parent, before, from, size) ==
  [parent |-> parent, before |-> before, from |-> from, size |-> size]

\* one turn of the while loop over the children of v, at kid
Visit(t, walk, v, acc, kid) ==
  IF acc.len = 0 THEN acc
  ELSE IF acc.offset < t[kid].start
  THEN LET n == Min({acc.len, t[kid].start - acc.offset})
       IN  [offset |-> acc.offset + n, len |-> acc.len - n,
            pieces |-> Append(acc.pieces, Piece(v, kid, acc.offset, n))]
  ELSE IF HasBytes(t[kid]) /\ acc.offset < End(t[kid])
  THEN LET sub == walk[VbRange(kid, acc.offset, Min({acc.len, End(t[kid]) - acc.offset}))]
       IN  [offset |-> acc.offset + sub.done, len |-> acc.len - sub.done,
            pieces |-> acc.pieces \o sub.pieces]
  ELSE acc

\* one call, at ask.vb; walk is the walk itself, for the vbufs under it
WalkVbuf(t, walk, ask) ==
  LET v    == ask.vb
      all  == FoldLeft(LAMBDA acc, kid : Visit(t, walk, v, acc, kid),
                       [offset |-> ask.offset, len |-> ask.len, pieces |-> <<>>],
                       t[v].children)
      rest == Min({all.len, End(t[v]) - all.offset})
  IN  IF ask.offset + ask.len > End(t[v]) THEN [done |-> 0, pieces |-> <<>>]
      ELSE IF rest > 0
      THEN [done |-> ask.len - all.len + rest,
            pieces |-> Append(all.pieces, Piece(v, Null, all.offset, rest))]
      ELSE [done |-> ask.len - all.len, pieces |-> all.pieces]

Walk(t, offset, len) ==
  LET walk[ask \in Asked(t)] == WalkVbuf(t, walk, ask)
  IN  walk[VbRange(Root, offset, len)]

\* _replace: every piece takes its part of the new bytes; no size changes
Put(buf, offset, t, p) ==
  InsertNewVbuf(t, p.parent, p.before, p.from, p.size, "REPLACE",
                SubSeq(buf, p.from - offset + 1, p.from - offset + p.size))

Replace(t, buf, offset, pieces) ==
  FoldLeft(LAMBDA u, p : Put(buf, offset, u, p), t, pieces)

\* _delete: every piece starts where the range starts, and closes its gap
Cut(offset, t, p) ==
  Resize(InsertNewVbuf(t, p.parent, p.before, offset, p.size, "DELETE", <<>>),
         NewId(t), -p.size)

Delete(t, offset, pieces) == FoldLeft(LAMBDA u, p : Cut(offset, u, p), t, pieces)

\* the vb_list of an edit: the vbufs it allocates, in order
NewVbufs(t, n) == [i \in 1 .. n |-> NewId(t) + i - 1]

\* faulty: only the flag; only the sizes and starts; both, but one way only
SwitchFlag(t, v, on) == [t EXCEPT ![v].active = on]
SwitchSize(t, v, on) ==
  IF t[v].buf_type = "REPLACE" THEN t
  ELSE Resize(t, v, IF on = (t[v].buf_type = "INSERT") THEN t[v].size ELSE -t[v].size)
SwitchOneWay(t, v, on) ==
  SwitchFlag(IF on THEN t ELSE SwitchSize(t, v, on), v, on)

\* the body of vf_undo (on = FALSE) and of vf_redo (on = TRUE) for one vbuf
Switch(t, v, on) ==
  LET moved == CASE t[v].buf_type = "INSERT" -> Resize(t, v, IF on THEN t[v].size ELSE -t[v].size)
                 [] t[v].buf_type = "DELETE" -> Resize(t, v, IF on THEN -t[v].size ELSE t[v].size)
                 [] OTHER -> t
  IN  [moved EXCEPT ![v].active = on]

(***************************************************************************)
(* Reading.                                                                *)
(***************************************************************************)

\* get_internal_shift: how far a vbuf's own bytes are from their place, at its
\* end.  Inactive children count.
InternalShift(t, v) ==
  LET shift[u \in DOMAIN t] ==
        FoldLeft(LAMBDA acc, kid :
                   acc + CASE t[kid].buf_type = "INSERT"  -> -t[kid].size
                           [] t[kid].buf_type = "REPLACE" -> shift[kid]
                           [] t[kid].buf_type = "DELETE"  -> t[kid].size,
                 0, t[u].children)
  IN  shift[v]

\* vb->buf[i], or byte i of the file
OwnByte(vb, i) == IF i + 1 \in DOMAIN vb.buf THEN vb.buf[i + 1] ELSE Junk

ActiveChildren(t, v) == SelectSeq(t[v].children, LAMBDA kid : t[kid].active)

\* _get_char, for an offset inside the file
GetChar(t, offset) ==
  LET get[v \in DOMAIN t] ==
        LET kids  == ActiveChildren(t, v)
            stops == {i \in DOMAIN kids :
                        \/ offset < t[kids[i]].start
                        \/ HasBytes(t[kids[i]]) /\ offset < End(t[kids[i]])}
            stop  == Min(stops \cup {Len(kids) + 1})
            shift == FoldLeft(LAMBDA acc, kid :
                                acc + CASE t[kid].buf_type = "INSERT"  -> -t[kid].size
                                        [] t[kid].buf_type = "REPLACE" -> InternalShift(t, kid)
                                        [] t[kid].buf_type = "DELETE"  -> t[kid].size,
                              0, SubSeq(kids, 1, stop - 1))
        IN  IF stop \in DOMAIN kids /\ offset >= t[kids[stop]].start
            THEN get[kids[stop]]
            ELSE OwnByte(t[v], offset - t[v].start + shift)
  IN  get[Root]

\* faulty: the offset is taken from the start of the file, not of the vbuf
OwnBytesAt(vb, offset, n) == [i \in 1 .. n |-> OwnByte(vb, offset + i - 1)]

\* n of vb's own bytes from offset on; a file delivers what it has (fread), a
\* buffer is overread (memcpy)
OwnBytes(vb, offset, n) ==
  LET bytes == [i \in 1 .. n |-> OwnByte(vb, offset - vb.start + i - 1)]
  IN  IF vb.buf_type = "FILE" THEN SelectSeq(bytes, LAMBDA b : b # Junk) ELSE bytes

\* _get_buf: the bytes delivered for [offset, offset + len).  A REPLACE child
\* never changes the shift.  A file that ends inside a gap leaves the loop
\* without progress.
GetBuf(t, offset, len) ==
  LET get[v \in DOMAIN t, o \in Nat, l \in Nat] ==
        LET want == Min({l, End(t[v]) - o})
            gap(acc, kid) ==
              IF acc.len = 0 \/ acc.offset >= t[kid].start THEN acc
              ELSE LET n     == Min({acc.len, t[kid].start - acc.offset})
                       bytes == OwnBytes(t[v], acc.offset + acc.shift, n)
                   IN  IF Len(bytes) = n
                       THEN [acc EXCEPT !.offset = @ + n, !.len = @ - n, !.out = @ \o bytes]
                       ELSE [acc EXCEPT !.len = 0, !.out = Append(@ \o bytes, Hang)]
            child(acc, kid) ==
              LET under == IF /\ HasBytes(t[kid])
                              /\ acc.len > 0
                              /\ acc.offset < End(t[kid])
                           THEN get[kid, acc.offset, Min({acc.len, End(t[kid]) - acc.offset})]
                           ELSE <<>>
              IN  [offset |-> acc.offset + Len(under), len |-> acc.len - Len(under),
                   out |-> acc.out \o under,
                   shift |-> acc.shift + CASE t[kid].buf_type = "INSERT" -> -t[kid].size
                                           [] t[kid].buf_type = "DELETE" -> t[kid].size
                                           [] OTHER -> 0]
            all  == FoldLeft(LAMBDA acc, kid : child(gap(acc, kid), kid),
                             [offset |-> o, len |-> want, shift |-> 0, out |-> <<>>],
                             ActiveChildren(t, v))
        IN  IF want < 1 THEN <<>>
            ELSE all.out \o OwnBytes(t[v], all.offset + all.shift,
                                     Min({all.len, End(t[v]) - all.offset}))
  IN  get[Root, offset, len]
=============================================================================
