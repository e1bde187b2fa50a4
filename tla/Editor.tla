------------------------------- MODULE Editor -------------------------------
(***************************************************************************)
(* The keys that move and edit (src/key_handler.c: handle_key, do_insert,  *)
(* do_overwrite, do_replace, do_change, do_delete, do_yank,                *)
(* get_next_motion_addr; src/actions.c: what they call).  Each is one      *)
(* action, from the key to the place_cursor before the next one (main.c).  *)
(* The text is the history of versions that the virtual file layer keeps   *)
(* (TextHistory), the screen is that of module Screen.                     *)
(***************************************************************************)
EXTENDS TextHistory, Typing

CONSTANTS
  Files,      \* the texts there are to begin with
  Typed,      \* bound: what is typed for an insert or an overwrite, [window, keys]
  Counts,     \* bound: the counts typed before a command, 0 for none
  Layouts,    \* bound: LINES, COLS and the preference "max_cols"
  Registers,  \* bound: the yank registers
  MaxLen,     \* bound: the length of the text
  MaxEdited,  \* bound: the versions that are edited, the first ones
  MaxCount,   \* bound: the multiplier of get_next_motion_addr
  Slips       \* what the code has no answer for, see below

\* "emptied": the text vanishes while the page does not begin at 0, and a
\* percent of no bytes is divided by; "again": get_next_motion_addr keeps the
\* count of the motion before; "count": a counted insert of more than one byte
\* puts each copy into the one before; "few": X has fewer bytes before it than
\* it deletes; "past": R types over the end of the file, and none of it is
\* kept; "change": c and s at the end of the text delete, go back to the last byte
\* that is left, and insert before it; "tail": redo puts the cursor nowhere, and
\* the page ends behind the text; "half" and "back": see Typing.
AllSlips == {"emptied", "again", "count", "few", "past", "change", "tail", "half", "back"}

ASSUME EditorAssumption ==
  /\ Files \subseteq Seq(Byte) /\ \A f \in Files : Len(f) <= MaxLen
  /\ Typed \subseteq Inputs
  /\ Counts \subseteq Nat /\ Layouts \subseteq Nat \X Nat \X Nat
  /\ MaxLen \in Nat /\ MaxEdited \in Nat /\ MaxCount \in Nat
  /\ Slips \subseteq AllSlips

VARIABLES
  versions, pos,  \* the text and its history
  d,              \* display_info
  yank,           \* yank_buf
  register,       \* yank_register
  motion,         \* the static multiplier and jump_addr of get_next_motion_addr
  was             \* the last key, with its count, its motion and what was typed

vars == <<versions, pos, d, yank, register, motion, was>>

History == [versions |-> versions, pos |-> pos]

text == Text(History)

\* a call of the layer below, on a history
InsertAt(h, addr, buf) == After(h, [op |-> "insert", offset |-> addr, buf |-> buf, len |-> Len(buf)])
DeleteAt(h, addr, n) == After(h, [op |-> "delete", offset |-> addr, buf |-> <<>>, len |-> n])
ReplaceAt(h, addr, buf) == After(h, [op |-> "replace", offset |-> addr, buf |-> buf, len |-> Len(buf)])

Bytes(h, addr, n) == SubSeq(Text(h), addr + 1, addr + n)

\* a history and a screen
State == [h |-> History, d |-> d]

\* the n-th result of doing a step again and again
Repeated(Step(_), s, n) ==
  LET r[k \in 0 .. n] == IF k = 0 THEN s ELSE Step(r[k - 1]) IN r[n]

Press(key, n) == [key |-> key, n |-> n, typed |-> <<>>, by |-> <<>>]

\* the end of a key, unless the program has: the main loop places the cursor
\* once more
Become(s) ==
  \E t \in {s} :
    /\ ~d.crashed
    /\ Len(Text(t.h)) <= MaxLen
    /\ t.h.versions # versions => pos <= MaxEdited
    /\ versions' = t.h.versions /\ pos' = t.h.pos
    /\ d' = PlaceCursor(t.d, t.d.cursor_addr)

Refused == Become(State)

\* a text that vanishes leaves a page that begins at 0
NotEmptied(h, screen) == "emptied" \in Slips \/ Text(h) # <<>> \/ screen.page_start = 0

VisualSelectOff(screen) == PrintScreen([screen EXCEPT !.select = NoAddr], screen.page_start)

(***************************************************************************)
(* action_delete and action_yank: the selection, or the bytes from the     *)
(* cursor to end inclusive as often as the count says, or the count alone. *)
(***************************************************************************)
First(screen, end) ==
  CASE IsVisualOn(screen) -> VisualAddr(screen)
    [] ~IsVisualOn(screen) /\ end # NoAddr -> Least(end, screen.cursor_addr)
    [] OTHER -> screen.cursor_addr

\* faulty: the byte at the far end is left out
SpanShort(screen, n, end) ==
  CASE IsVisualOn(screen) -> VisualSpan(screen)
    [] ~IsVisualOn(screen) /\ end # NoAddr ->
         Count(n) * (Most(end, screen.cursor_addr) - First(screen, end))
    [] OTHER -> Count(n)

\* bigcount, before it is cut at the end of the file
Span(screen, n, end) ==
  CASE IsVisualOn(screen) -> VisualSpan(screen)
    [] ~IsVisualOn(screen) /\ end # NoAddr ->
         Count(n) * (Most(end, screen.cursor_addr) - First(screen, end) + 1)
    [] OTHER -> Count(n)

Cut(screen, n, end) == Least(Span(screen, n, end), screen.file_size - First(screen, end))

\* faulty: the page is not looked at again
DeletedUnseen(s, n, end) ==
  LET addr == First(s.d, end)
      h == DeleteAt(s.h, addr, Cut(s.d, n, end))
  IN  IF ~AddressValid(s.d, addr) THEN s
      ELSE [h |-> h, d |-> PlaceCursor([s.d EXCEPT !.file_size = Len(Text(h))], addr)]

\* the cursor goes to the first byte behind the deleted ones, or to the last
Deleted(s, n, end) ==
  LET addr == First(s.d, end)
      h == DeleteAt(s.h, addr, Cut(s.d, n, end))
      seen == UpdateDisplayInfo(s.d, Len(Text(h)))
      to == IF AddressValid(seen, addr) THEN addr ELSE Most(seen.file_size - 1, 0)
      placed == PlaceCursor(seen, to)
  IN  IF ~AddressValid(s.d, addr) THEN s
      ELSE [h |-> h, d |-> PrintScreen(placed, placed.page_start)]

\* faulty: as many bytes as the count says, be there a selection or not
YankedCount(s, n, end) ==
  LET addr == First(s.d, end)
  IN  IF ~AddressValid(s.d, addr) THEN yank
      ELSE [yank EXCEPT ![register] = Bytes(s.h, addr, Least(Count(n), s.d.file_size - addr))]

Yanked(s, n, end) ==
  LET addr == First(s.d, end)
  IN  IF ~AddressValid(s.d, addr) THEN yank
      ELSE [yank EXCEPT ![register] = Bytes(s.h, addr, Cut(s.d, n, end))]

(***************************************************************************)
(* get_next_motion_addr.  A key that is no motion, typed first, clears     *)
(* what the last call left in multiplier and jump_addr; digits are added   *)
(* to it.  "seek" stands for the motions that look for a word or a match   *)
(* and may end at any address, "escape" for ESC.                           *)
(***************************************************************************)
Stale == motion.multiplier # 0 \/ motion.jump # NoAddr

\* a motion as it is typed: its count, 0 for none, and where a mark, a word or
\* a match is
Motion ==
  [key : {"up", "down", "left", "right", "file_end"}, n : Counts, to : {NoAddr}]
    \cup [key : {"line_start", "line_end", "page_down", "page_up", "escape"}, n : {0}, to : {NoAddr}]
    \cup [key : {"jump", "seek"}, n : {0}, to : {NoAddr} \cup 0 .. MaxLen]

\* the statics after the digits of a count
Digits(left, n) ==
  IF n = 0 THEN left
  ELSE [multiplier |-> left.multiplier * 10 + n,
        jump |-> IF left.jump = NoAddr THEN n ELSE left.jump * 10 + n]

\* what the motion comes to: a count before G is an address
Meant(m, counted) ==
  CASE m.key = "file_end" /\ counted.jump # NoAddr -> [m EXCEPT !.key = "jump", !.to = counted.jump]
    [] m.key \in {"up", "down", "left", "right"} -> [m EXCEPT !.n = counted.multiplier]
    [] OTHER -> m

\* virtual_cursor_addr, INVALID_ADDR where nothing was found
Reached(m) ==
  CASE m.key = "escape" -> NoAddr
    [] m.key = "seek" -> IF AddressValid(d, m.to) THEN m.to ELSE NoAddr
    [] OTHER -> Virtual(d, m)

\* a motion typed on the statics that were left: the address it ends at, and
\* the statics it leaves
MotionTyped(m, left) ==
  LET counted == Digits(left, m.n)
  IN  [by |-> m, end |-> Reached(Meant(m, counted)),
       statics |-> IF m.key = "jump" THEN [counted EXCEPT !.jump = m.to] ELSE counted]

\* what is typed after d, y, c and g
NextMotionAddr ==
  LET cleared == IF Stale THEN {[multiplier |-> 0, jump |-> NoAddr]} ELSE {}
      kept == IF Stale /\ "again" \notin Slips THEN {} ELSE {motion}
  IN  {r \in {MotionTyped(m, left) : m \in Motion, left \in cleared \cup kept} :
         r.statics.multiplier <= MaxCount}

\* a key with a motion
By(key, n, r) == was' = [Press(key, n) EXCEPT !.by = r.by] /\ motion' = r.statics

\* a key without a motion
Alone(key, n) == was' = Press(key, n) /\ UNCHANGED motion

(***************************************************************************)
(* d, y, x, X and v.                                                       *)
(***************************************************************************)
DeleteTo(n, end) ==
  LET s == Deleted(State, n, end)
  IN  /\ NotEmptied(s.h, d)
      /\ Become([s EXCEPT !.d = VisualSelectOff(@)])

DoDelete(n) ==
  /\ IF IsVisualOn(d) THEN Alone("d", n) /\ DeleteTo(n, NoAddr)
     ELSE \E r \in NextMotionAddr : By("d", n, r) /\ DeleteTo(n, r.end)
  /\ UNCHANGED <<yank, register>>

\* the cursor goes to the first byte yanked
YankTo(n, end) ==
  LET addr == First(d, end)
      placed == IF AddressValid(d, addr) THEN PlaceCursor(d, addr) ELSE d
  IN  /\ yank' = Yanked(State, n, end)
      /\ Become([State EXCEPT !.d = VisualSelectOff(placed)])

DoYank(n) ==
  /\ \/ IsVisualOn(d) /\ Alone("y", n) /\ YankTo(n, NoAddr)
     \/ ~IsVisualOn(d) /\ Alone("Y", n) /\ YankTo(n, d.cursor_addr)
     \/ ~IsVisualOn(d) /\ \E r \in NextMotionAddr : By("y", n, r) /\ YankTo(n, r.end)
  /\ UNCHANGED register

\* x yanks and deletes; X goes to the left before it does
CutAt(screen, n) ==
  LET at == [State EXCEPT !.d = screen]
      s == Deleted(at, n, NoAddr)
  IN  /\ NotEmptied(s.h, screen)
      /\ yank' = Yanked(at, n, NoAddr)
      /\ Become([s EXCEPT !.d = VisualSelectOff(@)])

DoCut(n) ==
  /\ \/ Alone("x", n) /\ CutAt(d, n)
     \/ /\ "few" \in Slips \/ IsVisualOn(d) \/ Count(n) <= d.cursor_addr
        /\ Alone("X", n)
        /\ CutAt(Move(d, [key |-> "left", n |-> n, to |-> NoAddr]), n)
  /\ UNCHANGED register

VisualSelectToggle ==
  /\ Alone("v", 0)
  /\ Become([State EXCEPT !.d =
       CASE IsVisualOn(d) -> VisualSelectOff(d)
         [] d.file_size = 0 -> d
         [] OTHER -> [d EXCEPT !.select = d.cursor_addr]])
  /\ UNCHANGED <<yank, register>>

(***************************************************************************)
(* i and a: what was typed is inserted once for every count.  What is      *)
(* shown while typing has a page of its own, which stays.                  *)
(***************************************************************************)
\* faulty: a inserts where i does
InsertedBefore(s, after, buf) ==
  LET h == InsertAt(s.h, s.d.cursor_addr, buf)
      seen == UpdateDisplayInfo(s.d, Len(Text(h)))
      placed == PlaceCursor(seen, seen.cursor_addr + Len(buf) - 1)
  IN  IF IsVisualOn(s.d) THEN s ELSE [h |-> h, d |-> PrintScreen(placed, placed.page_start)]

\* action_insert_before and action_insert_after; the cursor goes to the last byte
Inserted(s, after, buf) ==
  LET addr == IF after THEN Least(s.d.cursor_addr, s.d.file_size - 1) + 1 ELSE s.d.cursor_addr
      h == InsertAt(s.h, addr, buf)
      seen == UpdateDisplayInfo(s.d, Len(Text(h)))
      placed == PlaceCursor(seen, seen.cursor_addr + Len(buf) - (IF after THEN 0 ELSE 1))
  IN  IF IsVisualOn(s.d) THEN s ELSE [h |-> h, d |-> PrintScreen(placed, placed.page_start)]

\* a types behind the cursor, unless there is nothing
TypedAt(screen, key) == screen.cursor_addr + (IF key = "a" /\ screen.file_size # 0 THEN 1 ELSE 0)

\* do_insert, when ESC has ended the loop
InsertTyped(s, n, key, st) ==
  LET Once(t) == Inserted(t, key = "a" /\ s.d.file_size # 0, st.buf)
      done == Repeated(Once, s, IF st.buf = <<>> THEN 0 ELSE Count(n))
      shown == PrintScreen(PlaceCursor(done.d, st.addr + Len(st.buf)), st.page_start)
  IN  [h |-> done.h, d |-> [shown EXCEPT !.crashed = @ \/ "back" \in st.met]]

DoInsert(n) ==
  \E key \in {"i", "a"}, input \in Typed : \E st \in {Typing(d, TypedAt(d, key), input, 1)} :
    /\ "count" \in Slips \/ Len(st.buf) <= 1 \/ Count(n) = 1
    /\ st.met \subseteq Slips
    /\ was' = [Press(key, n) EXCEPT !.typed = Spelled(input)]
    /\ Become(InsertTyped(State, n, key, st))
    /\ UNCHANGED <<yank, register, motion>>

\* c and s: a delete, then an insert where the cursor is
ChangeTo(n, end, input) ==
  /\ "change" \in Slips \/ First(d, end) + Cut(d, n, end) < d.file_size \/ First(d, end) = 0
  /\ \E s \in {Deleted(State, n, end)} :
     \E st \in {Typing(s.d, s.d.cursor_addr, input, 1)} :
       /\ NotEmptied(s.h, d) /\ st.met \subseteq Slips
       /\ Become(InsertTyped([s EXCEPT !.d = VisualSelectOff(@)], 1, "i", st))

DoChange(n) ==
  /\ \E input \in Typed :
       \/ IsVisualOn(d) /\ Alone("c", n) /\ ChangeTo(1, NoAddr, input)
       \/ ~IsVisualOn(d) /\ Alone("s", n) /\ ChangeTo(n, d.cursor_addr, input)
       \/ ~IsVisualOn(d) /\ \E r \in NextMotionAddr : By("c", n, r) /\ ChangeTo(n, r.end, input)
  /\ UNCHANGED <<yank, register>>

(***************************************************************************)
(* R and r: R writes what was typed once for every count, one copy after   *)
(* the other; r writes one byte over the selection or the count.           *)
(***************************************************************************)
Overwritten(h, addr, n, buf) ==
  LET r[k \in 0 .. n] == IF k = 0 THEN h ELSE ReplaceAt(r[k - 1], addr + (k - 1) * Len(buf), buf)
  IN  r[n]

DoOverwrite(n) ==
  /\ \E input \in Typed : \E st \in {Typing(d, d.cursor_addr, input, 0)} :
       LET copies == IF st.buf = <<>> THEN 0 ELSE Count(n)
       IN  /\ "past" \in Slips \/ IsVisualOn(d) \/ st.addr + copies * Len(st.buf) <= d.file_size
           /\ st.met \subseteq Slips
           /\ was' = [Press("R", n) EXCEPT !.typed = Spelled(input)]
           /\ IF IsVisualOn(d) THEN Refused
              ELSE Become([h |-> Overwritten(History, st.addr, copies, st.buf),
                           d |-> [PrintScreen(PlaceCursor(d, st.addr + Len(st.buf)), st.page_start)
                                    EXCEPT !.crashed = @ \/ "back" \in st.met]])
  /\ UNCHANGED <<yank, register, motion>>

\* do_replace, with the byte or with ESC instead of it
DoReplace(n) ==
  /\ \E buf \in {b \in {Spelled(input) : input \in Typed} : Len(b) <= 1} :
       LET addr == IF IsVisualOn(d) THEN VisualAddr(d) ELSE d.cursor_addr
           span == IF IsVisualOn(d) THEN VisualSpan(d) ELSE Count(n)
           fill == [i \in 1 .. Least(span, d.file_size - addr) |-> buf[1]]
       IN  /\ was' = [Press("r", n) EXCEPT !.typed = buf]
           /\ Become([h |-> IF buf = <<>> \/ ~AddressValid(d, addr) THEN History
                            ELSE ReplaceAt(History, addr, fill),
                      d |-> VisualSelectOff(d)])
  /\ UNCHANGED <<yank, register, motion>>

(***************************************************************************)
(* p and P: the register as often as the count says, at one address.       *)
(***************************************************************************)
\* faulty: P puts the bytes where p does
PastedAfter(s, buf, after, n) ==
  LET Once(h) == InsertAt(h, s.d.cursor_addr + (IF s.d.file_size # 0 THEN 1 ELSE 0), buf)
  IN  [s EXCEPT !.h = Repeated(Once, @, Count(n))]

Pasted(s, buf, after, n) ==
  LET addr == IF after /\ s.d.file_size # 0 THEN s.d.cursor_addr + 1 ELSE s.d.cursor_addr
      Once(h) == InsertAt(h, addr, buf)
      h == IF AddressValid(s.d, s.d.cursor_addr) \/ s.d.file_size = 0
           THEN Repeated(Once, s.h, Count(n)) ELSE s.h
      seen == UpdateDisplayInfo(s.d, Len(Text(h)))
      placed == PlaceCursor(seen, seen.cursor_addr + Len(buf) - (IF after THEN 0 ELSE 1))
  IN  IF IsVisualOn(s.d) THEN s ELSE [h |-> h, d |-> PrintScreen(placed, placed.page_start)]

DoPaste(n) ==
  \E key \in {"p", "P"} :
    /\ Alone(key, n)
    /\ Become(Pasted(State, yank[register], key = "p", n))
    /\ UNCHANGED <<yank, register>>

(***************************************************************************)
(* u and U: the layer below says where the cursor is to go; a redo of      *)
(* nothing leaves that unsaid.                                             *)
(***************************************************************************)
Travel(op, n) == After(History, [op |-> op, offset |-> 0, buf |-> <<>>, len |-> Count(n)])

Undone(n) ==
  LET h == Travel("undo", n)
      seen == UpdateDisplayInfo(d, Len(Text(h)))
  IN  IF IsVisualOn(d) \/ h.pos = pos THEN Refused
      ELSE /\ NotEmptied(h, d)
           /\ \E caddr \in 0 .. MaxLen :
                LET to == IF AddressValid(seen, caddr) THEN caddr ELSE Most(seen.file_size - 1, 0)
                    placed == PlaceCursor(seen, to)
                IN  Become([h |-> h, d |-> PrintScreen(placed, placed.page_start)])

DoUndo(n) == Alone("u", n) /\ Undone(n) /\ UNCHANGED <<yank, register>>

\* the key " names the register, and goes on into u
SetYankRegister(n) ==
  /\ register' \in Registers
  /\ Alone("quote", n)
  /\ Undone(n) /\ UNCHANGED yank

DoRedo(n) ==
  /\ Alone("U", n)
  /\ LET h == Travel("redo", n)
         seen == UpdateDisplayInfo(d, Len(Text(h)))
     IN  IF IsVisualOn(d) THEN Refused
         ELSE /\ NotEmptied(h, d)
              /\ \E caddr \in {NoAddr} \cup 0 .. MaxLen :
                   LET placed == PlaceCursor(seen, caddr)
                   IN  /\ \/ "tail" \in Slips \/ seen.page_end # seen.file_size
                          \/ seen.file_size = 0 \/ AddressValid(seen, caddr)
                       /\ Become([h |-> h, d |-> PrintScreen(placed, placed.page_start)])
  /\ UNCHANGED <<yank, register>>

(***************************************************************************)
(* The motions, g, and what changes the size of the page.                  *)
(***************************************************************************)
DoMove(n) ==
  /\ \E m \in Motion :
       /\ m.key # "escape" /\ m.n = n
       /\ Alone(m.key, n)
       /\ Become([State EXCEPT !.d =
            CASE m.key = "file_end" /\ n # 0 -> PlaceCursor(d, n)
              [] m.key = "seek" -> PlaceCursor(d, m.to)
              [] OTHER -> Move(d, m)])
  /\ UNCHANGED <<yank, register>>

\* g and a motion, gg being the start of the file or the address of the count,
\* which is for no other motion.  Left out: g and a digit, which flashes and leaves
\* the count standing for the next key, and so a count that begins with 0.
Go(n) ==
  /\ LET To(addr) == Become([State EXCEPT !.d = PlaceCursor(d, IF addr = NoAddr THEN 0 ELSE addr)])
     IN  \/ Alone("g", n) /\ To(IF n = 0 THEN NoAddr ELSE n)
         \/ n = 0 /\ \E r \in NextMotionAddr : By("g", n, r) /\ To(r.end)
  /\ UNCHANGED <<yank, register>>

\* action_do_resize, after KEY_RESIZE or :set
Resize ==
  /\ \E t \in Layouts :
       LET seen == UpdateDisplayInfo(Laid(d, t), d.file_size)
       IN  Become([State EXCEPT !.d = PrintScreen(seen, seen.page_start)])
  /\ Alone("resize", 0)
  /\ UNCHANGED <<yank, register>>

Init ==
  /\ pos = 1 /\ versions \in {<<f>> : f \in Files}
  /\ \E t \in Layouts : d = ResetDisplayInfo(Len(versions[1]), t)
  /\ yank = [r \in Registers |-> <<>>] /\ register \in Registers
  /\ motion = [multiplier |-> 0, jump |-> NoAddr]
  /\ was = Press("start", 0)

Key(n) ==
  \/ DoDelete(n) \/ DoYank(n) \/ DoCut(n) \/ DoInsert(n) \/ DoChange(n) \/ DoOverwrite(n)
  \/ DoReplace(n) \/ DoPaste(n) \/ DoUndo(n) \/ SetYankRegister(n) \/ DoRedo(n) \/ DoMove(n) \/ Go(n)

Next == VisualSelectToggle \/ Resize \/ \E n \in Counts : Key(n)

Spec == Init /\ [][Next]_vars

(***************************************************************************)
(* Properties.                                                             *)
(***************************************************************************)
\* Every variable keeps the values it is meant for; the cursor is never -1,
\* which get_addr_from_xy returns for a place off the page.
TypeOK ==
  /\ pos \in 1 .. Len(versions)
  /\ versions \in Seq(Seq(Byte)) /\ \A i \in 1 .. Len(versions) : Len(versions[i]) <= MaxLen
  /\ d.cursor_addr \in 0 .. MaxLen /\ d.select \in {NoAddr} \cup 0 .. MaxLen
  /\ d.page_start \in 0 .. MaxLen /\ d.page_end \in 0 .. MaxLen
  /\ \E t \in Layouts : d = Laid(d, t)
  /\ yank \in [Registers -> Seq(Byte)] /\ \A r \in Registers : Len(yank[r]) <= MaxLen
  /\ register \in Registers
  /\ motion.multiplier \in 0 .. MaxCount /\ motion.jump \in {NoAddr} \cup Nat

\* Before every key the screen is in step with the text: its size is known, the
\* page begins with a line and ends with the text at the latest, and the cursor
\* is on a byte of the page, whatever was deleted, undone or resized.  No key
\* makes it such that update_percent, or a row of no columns, divides by zero.
ScreenInStep ==
  /\ ~d.crashed
  /\ d.file_size = Len(text) /\ d.page_end = PageEnd(d)
  /\ d.page_start % BytesPerLine(d) = 0
  /\ IF text = <<>> THEN d.cursor_addr = 0
     ELSE AddressValid(d, d.cursor_addr) /\ OnPage(d, d.cursor_addr)
  /\ d.select < Most(d.file_size, 1)

\* the bytes of t from address a to b
Between(t, a, b) == SubSeq(t, a + 1, b + 1)
Replaced(t, a, b, buf) == SubSeq(t, 1, a) \o buf \o SubSeq(t, b + 2, Len(t))

\* A key pressed while bytes are highlighted deletes, yanks, changes or replaces
\* the highlighted bytes, all of them and no other.
ActsOnShown ==
  [][IsVisualOn(d) /\ was'.key \in {"d", "x", "y", "c", "r"} =>
       \E a, b \in Highlighted(d) :
         /\ Highlighted(d) = a .. b
         /\ was'.key \in {"d", "x"} => text' = Replaced(text, a, b, <<>>)
         /\ was'.key \in {"x", "y"} => yank'[register] = Between(text, a, b)
         /\ was'.key = "c" => \E input \in Typed : text' = Replaced(text, a, b, Spelled(input))
         /\ (was'.key = "r" /\ was'.typed # <<>>) =>
               text' = Replaced(text, a, b, [i \in 1 .. b - a + 1 |-> was'.typed[1]])]_vars

\* where the cursor goes when the motion is a command of its own
Landing(m) ==
  CASE m.key = "file_end" /\ m.n # 0 -> PlaceCursor(d, m.n).cursor_addr
    [] m.key = "seek" -> PlaceCursor(d, m.to).cursor_addr
    [] m.key = "escape" -> d.cursor_addr
    [] OTHER -> Move(d, m).cursor_addr

\* d, y and c with a motion act on the bytes from the cursor to where the motion,
\* typed as a command, would have put it, both included.
ActsToMotion ==
  [][~IsVisualOn(d) /\ was'.key \in {"d", "y", "c"} /\ Count(was'.n) = 1 /\ text # <<>> =>
       LET to == Landing(was'.by)
           a == Least(d.cursor_addr, to)
           b == Most(d.cursor_addr, to)
       IN  /\ was'.key = "d" => text' = Replaced(text, a, b, <<>>)
           /\ was'.key = "y" => yank'[register] = Between(text, a, b)
           /\ was'.key = "c" => \E input \in Typed : text' = Replaced(text, a, b, Spelled(input))]_vars

\* What x and X take away is in the register, with X the bytes before the cursor,
\* and the cursor is where P puts it back; p does where the end of the text was
\* taken.
CutIsKept ==
  [][was'.key \in {"x", "X"} /\ text # <<>> =>
       LET n == Count(was'.n)
           now == [h |-> [versions |-> versions', pos |-> pos'], d |-> d']
       IN  /\ (was'.key = "X" /\ ~IsVisualOn(d)) =>
                n <= d.cursor_addr /\ yank'[register] = Between(text, d.cursor_addr - n, d.cursor_addr - 1)
           /\ \E after \in BOOLEAN :
             /\ after => d'.cursor_addr + 1 = d'.file_size
             /\ Text(Pasted(now, yank'[register], after, 1).h) = text]_vars

Copies(n, buf) == [i \in 1 .. n * Len(buf) |-> buf[((i - 1) % Len(buf)) + 1]]

\* What is typed after i, a and R is in the text where it was shown, as often as
\* the count says, and the rest of the text is where it was.
TypedShows ==
  [][~IsVisualOn(d) /\ was'.key \in {"i", "a", "R"} /\ was'.typed # <<>> =>
       LET new == Copies(Count(was'.n), was'.typed)
           at == IF was'.key = "a" /\ text # <<>> THEN d.cursor_addr + 1 ELSE d.cursor_addr
       IN  text' = IF was'.key = "R" THEN Replaced(text, at, at + Len(new) - 1, new)
                   ELSE Replaced(text, at, at - 1, new)]_vars
=============================================================================
