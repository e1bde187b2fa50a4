----------------------------- MODULE LineEditor -----------------------------
(***************************************************************************)
(* creadline (src/creadline.c): the line that a command, a search or a     *)
(* file name is typed into, one action per key, and the ring of lines that *)
(* each of them has.                                                       *)
(***************************************************************************)
EXTENDS Integers, Sequences

CONSTANTS
  Chars,            \* bound: the keys that are not named; KEY_RESIZE is one
  MAX_CMD_BUF,      \* the characters of a line
  MAX_CMD_HISTORY,  \* the lines of a ring
  NoLine,           \* NULL
  Unterminated,     \* a line without the 0 that ends it
  Slips             \* what the code gets wrong, see below

\* "escape": a line given up while an older one is shown leaves hist_index
\* there, and the next line overwrites what is newer; "full": KEY_DOWN back to
\* where it began shows the line that is about to be overwritten; "long": the
\* last character that fits is shifted with what follows it, into position.
AllSlips == {"escape", "full", "long"}

ASSUME LineEditorAssumption ==
  /\ MAX_CMD_BUF \in Nat \ {0} /\ MAX_CMD_HISTORY \in Nat \ {0}
  /\ NoLine \notin Seq(Chars) /\ Slips \subseteq AllSlips

VARIABLES
  reading,           \* creadline is called
  item,              \* history->item: the text of each line, of count characters
  hist_index,        \* history->hist_index
  entry_hist_index,  \* what it was when creadline was called
  tmp_cmd,           \* the line, and the position of the cursor in it
  answer             \* what creadline returned last

vars == <<reading, item, hist_index, entry_hist_index, tmp_cmd, answer>>

Slots == 0 .. MAX_CMD_HISTORY - 1

NoCmd == [cbuff |-> <<>>, position |-> 0]

count == Len(tmp_cmd.cbuff)

\* new_history
Init ==
  /\ reading = FALSE
  /\ item = [i \in Slots |-> <<>>] /\ hist_index = 0
  /\ entry_hist_index = 0 /\ tmp_cmd = NoCmd /\ answer = NoLine

Call ==
  /\ ~reading /\ reading' = TRUE
  /\ entry_hist_index' = hist_index /\ tmp_cmd' = NoCmd
  /\ UNCHANGED <<item, hist_index, answer>>

\* faulty: the cursor stays where it was
ShowUnder(i) ==
  /\ hist_index' = i
  /\ tmp_cmd' = [tmp_cmd EXCEPT !.cbuff = item[i]]
  /\ UNCHANGED <<reading, item, entry_hist_index, answer>>

\* a line of the ring, with the cursor behind it
Show(i) ==
  /\ hist_index' = i
  /\ tmp_cmd' = [cbuff |-> item[i], position |-> Len(item[i])]
  /\ UNCHANGED <<reading, item, entry_hist_index, answer>>

Older == IF hist_index = 0 THEN MAX_CMD_HISTORY - 1 ELSE hist_index - 1

Newer == (hist_index + 1) % MAX_CMD_HISTORY

\* faulty: the ring is walked to its end
ToTheEnd == item[Older] # <<>>

MayGoUp == Older # entry_hist_index /\ item[Older] # <<>>

Up == reading /\ MayGoUp /\ Show(Older)

Down ==
  /\ reading /\ hist_index # entry_hist_index
  /\ Newer = entry_hist_index /\ item[Newer] # <<>> => "full" \in Slips
  /\ Show(Newer)

Return(line, index) ==
  /\ reading' = FALSE /\ answer' = line /\ hist_index' = index
  /\ tmp_cmd' = NoCmd /\ entry_hist_index' = index

\* ESC, and KEY_BACKSPACE at the beginning: hist_index stays where it is
GiveUp ==
  /\ reading
  /\ hist_index # entry_hist_index => "escape" \in Slips
  /\ Return(NoLine, hist_index) /\ UNCHANGED item

\* KEY_BACKSPACE: what is at the cursor and behind it moves down
Rubbed(cmd) ==
  [cbuff |-> [i \in 1 .. Len(cmd.cbuff) - 1 |->
                IF i < cmd.position THEN cmd.cbuff[i] ELSE cmd.cbuff[i + 1]],
   position |-> cmd.position - 1]

Change(cmd) ==
  tmp_cmd' = cmd /\ UNCHANGED <<reading, item, hist_index, entry_hist_index, answer>>

Backspace == reading /\ tmp_cmd.position > 0 /\ Change(Rubbed(tmp_cmd))

Left == reading /\ tmp_cmd.position > 0 /\ Change([tmp_cmd EXCEPT !.position = @ - 1])

Right == reading /\ tmp_cmd.position < count /\ Change([tmp_cmd EXCEPT !.position = @ + 1])

Typed(cmd, c) ==
  [cbuff |-> [i \in 1 .. Len(cmd.cbuff) + 1 |->
                CASE i <= cmd.position -> cmd.cbuff[i]
                  [] i = cmd.position + 1 -> c
                  [] OTHER -> cmd.cbuff[i - 1]],
   position |-> cmd.position + 1]

\* cbuff[count] is shifted too, when it is the last one into the low byte of
\* position
TypeKey(c) ==
  /\ reading /\ count < MAX_CMD_BUF
  /\ IF count + 1 < MAX_CMD_BUF THEN Change(Typed(tmp_cmd, c))
     ELSE /\ "long" \in Slips
          /\ \E position \in 0 .. MAX_CMD_BUF - 1 :
               Change(Typed([tmp_cmd EXCEPT !.position = position], c))

\* the slot that was current when creadline was called takes the line
Enter ==
  /\ reading
  /\ IF count = 0 THEN Return(NoLine, entry_hist_index) /\ UNCHANGED item
     ELSE /\ item' = [item EXCEPT ![entry_hist_index] = tmp_cmd.cbuff]
          /\ Return(IF count < MAX_CMD_BUF THEN tmp_cmd.cbuff ELSE Unterminated,
                    (entry_hist_index + 1) % MAX_CMD_HISTORY)

Next ==
  \/ Call \/ Up \/ Down \/ GiveUp \/ Backspace \/ Left \/ Right \/ Enter
  \/ \E c \in Chars : TypeKey(c)

Spec == Init /\ [][Next]_vars

-----------------------------------------------------------------------------

\* Types; what is shown is a line of the ring, and the cursor stands in the
\* line or right behind it (creadline).
TypeOK ==
  /\ reading \in BOOLEAN
  /\ item \in [Slots -> Seq(Chars)]
  /\ hist_index \in Slots /\ entry_hist_index \in Slots
  /\ tmp_cmd.cbuff \in Seq(Chars) /\ tmp_cmd.position \in 0 .. count
  /\ answer \in {NoLine, Unterminated} \/ answer \in Seq(Chars)

\* the slot n lines back
SlotBack(n) == (entry_hist_index - n) % MAX_CMD_HISTORY

\* the lines there are behind the current slot, up to one that was never used
Behind ==
  LET used == {n \in 1 .. MAX_CMD_HISTORY - 1 :
                 \A k \in 1 .. n : item[SlotBack(k)] # <<>>}
  IN  [n \in used |-> item[SlotBack(n)]]

Line == INSTANCE InputLine WITH
  Kept <- MAX_CMD_HISTORY - 1,
  before <- SubSeq(tmp_cmd.cbuff, 1, tmp_cmd.position),
  behind <- SubSeq(tmp_cmd.cbuff, tmp_cmd.position + 1, count),
  lines <- Behind,
  back <- (entry_hist_index - hist_index) % MAX_CMD_HISTORY

\* The buffer with its position is a text with a cursor, and the ring with its
\* two indices is the list of the lines entered last, newest first: no key
\* loses a character, and no line disappears or changes its place, whether the
\* ring is full or not and wherever the walk in it ended (creadline).
LineIsTyped == Line!Spec
=============================================================================
