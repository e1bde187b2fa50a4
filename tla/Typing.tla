------------------------------- MODULE Typing -------------------------------
(***************************************************************************)
(* The loop of do_insert and do_overwrite (src/key_handler.c): the keys up *)
(* to ESC, what they make of the buffer that is inserted or written in the *)
(* end, and the page that is shown meanwhile.  A byte is the pair of its   *)
(* digits.  A key is a byte, in the window of the characters, or <<digit>>,*)
(* in that of the digits, or Rub; "grouping" is 1.                         *)
(***************************************************************************)
EXTENDS Screen, Sequences

CONSTANT Digit   \* the digits

Byte == Digit \X Digit

Rub == <<>>   \* KEY_BACKSPACE

\* what may be typed, ESC at its end
Inputs ==
  [window : {"ascii"}, keys : Seq({Rub} \cup Byte)]
    \cup [window : {"hex"}, keys : Seq({Rub} \cup Byte \cup {<<x>> : x \in Digit})]

\* Nothing is typed yet.  met: "half", a digit was rubbed out and the other
\* one of its byte is not what is left; "back", what was typed was rubbed out
\* to before the page, and a negative number of bytes is copied to the screen.
Start(d, addr) ==
  [addr |-> addr, buf |-> <<>>, tmp |-> <<>>, page_start |-> d.page_start, met |-> {}]

Shorter(s) == SubSeq(s, 1, Len(s) - 1)

\* a byte comes back as its digits, the wrong way round
RubbedOut(st, window) ==
  IF st.tmp # <<>> THEN [st EXCEPT !.tmp = <<>>]
  ELSE IF st.buf = <<>> THEN st
  ELSE LET byte == st.buf[Len(st.buf)]
           less == [st EXCEPT !.buf = Shorter(@)]
       IN  IF window # "hex" THEN less
           ELSE [less EXCEPT !.tmp = <<byte[2]>>,
                             !.met = IF byte[1] = byte[2] THEN @ ELSE @ \cup {"half"}]

TypedDigit(st, key) ==
  LET digits == st.tmp \o key
  IN  IF Len(digits) < 2 THEN [st EXCEPT !.tmp = digits]
      ELSE [st EXCEPT !.tmp = <<>>, !.buf = Append(@, digits)]

\* a key that is no digit is refused where digits are typed
Took(st, window, key) ==
  CASE key = Rub -> RubbedOut(st, window)
    [] key # Rub /\ window = "hex" -> IF Len(key) = 1 THEN TypedDigit(st, key) ELSE st
    [] OTHER -> [st EXCEPT !.buf = Append(@, key)]

\* the page goes on by a line where it has no room left; it does not go back
Drawn(d, st, room) ==
  LET full == (st.addr - st.page_start) + Len(st.buf) + room > PageSize(d)
      page == IF full THEN st.page_start + BytesPerLine(d) ELSE st.page_start
  IN  [st EXCEPT !.page_start = page,
                 !.met = IF Len(st.buf) < page - st.addr THEN @ \cup {"back"} ELSE @]

\* the keys one by one, each followed by the next turn of the loop
Typing(d, addr, input, room) ==
  LET st[n \in 0 .. Len(input.keys)] ==
        IF n = 0 THEN Start(d, addr)
        ELSE Drawn(d, Took(st[n - 1], input.window, input.keys[n]), room)
  IN  st[Len(input.keys)]

(***************************************************************************)
(* What the keys mean: a row of digits, of which Rub takes the last one, or*)
(* both of a byte where bytes are typed.                                   *)
(***************************************************************************)
Spelled(input) ==
  LET least == IF input.window = "hex" THEN 1 ELSE 2
      keys == input.keys
      digits[n \in 0 .. Len(keys)] ==
        IF n = 0 THEN <<>>
        ELSE CASE keys[n] = Rub -> SubSeq(digits[n - 1], 1, Len(digits[n - 1]) - least)
               [] Len(keys[n]) = least -> digits[n - 1] \o keys[n]
               [] OTHER -> digits[n - 1]
      all == digits[Len(keys)]
  IN  [i \in 1 .. Len(all) \div 2 |-> <<all[2 * i - 1], all[2 * i]>>]
=============================================================================
