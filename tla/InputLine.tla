----------------------------- MODULE InputLine -----------------------------
(***************************************************************************)
(* What a line that is typed promises: text before and behind the cursor,  *)
(* and the lines typed before, which can be walked through.                *)
(***************************************************************************)
EXTENDS Naturals, Sequences

CONSTANTS
  Chars,    \* what can be typed
  Kept,     \* the number of lines that can be walked through
  NoLine    \* the answer when there is no line

VARIABLES
  reading,  \* whether a line is being typed
  before,   \* the text before the cursor
  behind,   \* the text behind it
  lines,    \* the lines typed before, the newest one first
  back,     \* how many lines back the walk is
  answer    \* what the last call returned

vars == <<reading, before, behind, lines, back, answer>>

First(n, s) == SubSeq(s, 1, IF n < Len(s) THEN n ELSE Len(s))

Line(n) == IF n = 0 THEN <<>> ELSE lines[n]

Init ==
  /\ reading = FALSE /\ before = <<>> /\ behind = <<>>
  /\ lines = <<>> /\ back = 0 /\ answer = NoLine

Begin ==
  /\ ~reading /\ reading' = TRUE
  /\ before' = <<>> /\ behind' = <<>> /\ back' = 0
  /\ UNCHANGED <<lines, answer>>

Type ==
  /\ reading /\ \E c \in Chars : before' = Append(before, c)
  /\ UNCHANGED <<reading, behind, lines, back, answer>>

Rub ==
  /\ reading /\ before # <<>>
  /\ before' = First(Len(before) - 1, before)
  /\ UNCHANGED <<reading, behind, lines, back, answer>>

Left ==
  /\ reading /\ before # <<>>
  /\ before' = First(Len(before) - 1, before)
  /\ behind' = <<before[Len(before)]>> \o behind
  /\ UNCHANGED <<reading, lines, back, answer>>

Right ==
  /\ reading /\ behind # <<>>
  /\ before' = Append(before, Head(behind)) /\ behind' = Tail(behind)
  /\ UNCHANGED <<reading, lines, back, answer>>

\* to an older line and back again; what was typed is lost
Walk ==
  /\ reading
  /\ back' \in 0 .. Len(lines) /\ (back' = back + 1 \/ back = back' + 1)
  /\ before' = Line(back') /\ behind' = <<>>
  /\ UNCHANGED <<reading, lines, answer>>

End == reading' = FALSE /\ before' = <<>> /\ behind' = <<>> /\ back' = 0

\* given up: the lines stay what they are
Cancel ==
  /\ reading /\ End /\ answer' = NoLine /\ UNCHANGED lines

Enter ==
  /\ reading /\ End
  /\ LET line == before \o behind IN
     IF line = <<>> THEN answer' = NoLine /\ UNCHANGED lines
     ELSE answer' = line /\ lines' = First(Kept, <<line>> \o lines)

Next == Begin \/ Type \/ Rub \/ Left \/ Right \/ Walk \/ Cancel \/ Enter

Spec == Init /\ [][Next]_vars
=============================================================================
