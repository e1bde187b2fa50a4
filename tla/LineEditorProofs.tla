--------------------------- MODULE LineEditorProofs ---------------------------
(***************************************************************************)
(* The line that is typed and the ring of lines, for lines and rings of    *)
(* every size: creadline implements InputLine.  The ring is read back from *)
(* the slot that was current when creadline was called, so its lines are   *)
(* numbered by how far back they are, and hist_index by how far the walk   *)
(* has come.                                                               *)
(***************************************************************************)
EXTENDS LineEditor, DataLemmas, SequencesExt, FiniteSetTheorems, WellFoundedInduction, SequenceTheorems

\* Max, of a set that has one.
LEMMA MaxIs ==
  ASSUME NEW b \in Int, NEW S \in SUBSET Int, S # {}, \A x \in S : x <= b
  PROVE  Max(S) \in S /\ \A y \in S : y <= Max(S)
  BY TopIs DEF Top, Max

\* A user whose line is never the last that fits, who gives no line up in the
\* middle of a walk, and does not walk back onto a line about to be overwritten.
Careful == Slips = {}

\* tmp_cmd has the fields of a cmd
Shape == tmp_cmd = [cbuff |-> tmp_cmd.cbuff, position |-> tmp_cmd.position]

\* how far back the walk is
back == (entry_hist_index - hist_index) % MAX_CMD_HISTORY

\* The inductive invariant: no line fills the buffer, none is shown and no walk
\* goes on while none is typed, and every line walked past has been used.
LineInv ==
  /\ TypeOK /\ Shape
  /\ count < MAX_CMD_BUF /\ \A i \in Slots : Len(item[i]) < MAX_CMD_BUF
  /\ ~reading => tmp_cmd = NoCmd /\ hist_index = entry_hist_index
  /\ \A k \in 1 .. back : item[SlotBack(k)] # <<>>

(***************************************************************************)
(* Types.                                                                  *)
(***************************************************************************)
\* A line with a character more.
LEMMA TypedIsLine ==
  ASSUME NEW s \in Seq(Chars), NEW p \in 0 .. Len(s), NEW c \in Chars
  PROVE  LET cmd == Typed([cbuff |-> s, position |-> p], c)
         IN  /\ cmd.cbuff \in Seq(Chars) /\ Len(cmd.cbuff) = Len(s) + 1
             /\ cmd.position = p + 1
             /\ cmd = [cbuff |-> cmd.cbuff, position |-> cmd.position]
             /\ \A i \in 1 .. Len(s) + 1 :
                  cmd.cbuff[i] = IF i <= p THEN s[i] ELSE IF i = p + 1 THEN c ELSE s[i - 1]
  <1> DEFINE f == [i \in 1 .. Len(s) + 1 |-> CASE i <= p -> s[i] [] i = p + 1 -> c [] OTHER -> s[i - 1]]
  <1>1. Len(s) \in Nat /\ \A i \in 1 .. Len(s) : s[i] \in Chars
    BY LenProperties
  <1>2. ASSUME NEW i \in 1 .. Len(s) + 1
        PROVE  f[i] = (IF i <= p THEN s[i] ELSE IF i = p + 1 THEN c ELSE s[i - 1]) /\ f[i] \in Chars
    <2>1. CASE i <= p
      BY <1>1, <2>1
    <2>2. CASE i = p + 1
      BY <1>1, <2>2
    <2>3. CASE ~(i <= p) /\ i # p + 1
      BY <1>1, <2>3
    <2> QED
      BY <2>1, <2>2, <2>3
  <1>3. f \in [1 .. Len(s) + 1 -> Chars] /\ Len(s) + 1 \in Nat
    BY <1>1, <1>2
  <1>4. f \in Seq(Chars) /\ Len(f) = Len(s) + 1
    <2> HIDE DEF f
    <2> QED
      BY <1>3, FcnIsRow
  <1>5. Typed([cbuff |-> s, position |-> p], c) = [cbuff |-> f, position |-> p + 1]
    BY DEF Typed
  <1> HIDE DEF f
  <1> QED
    BY <1>2, <1>4, <1>5

\* A line with a character less.
LEMMA RubbedIsLine ==
  ASSUME NEW s \in Seq(Chars), NEW p \in 1 .. Len(s)
  PROVE  LET cmd == Rubbed([cbuff |-> s, position |-> p])
         IN  /\ cmd.cbuff \in Seq(Chars) /\ Len(cmd.cbuff) = Len(s) - 1
             /\ cmd.position = p - 1
             /\ cmd = [cbuff |-> cmd.cbuff, position |-> cmd.position]
             /\ \A i \in 1 .. Len(s) - 1 : cmd.cbuff[i] = IF i < p THEN s[i] ELSE s[i + 1]
  <1> DEFINE f == [i \in 1 .. Len(s) - 1 |-> IF i < p THEN s[i] ELSE s[i + 1]]
  <1>1. Len(s) \in Nat /\ \A i \in 1 .. Len(s) : s[i] \in Chars
    BY LenProperties
  <1>2. f \in [1 .. Len(s) - 1 -> Chars] /\ Len(s) - 1 \in Nat
    BY <1>1
  <1>3. f \in Seq(Chars) /\ Len(f) = Len(s) - 1
    <2> HIDE DEF f
    <2> QED
      BY <1>2, FcnIsRow
  <1>4. Rubbed([cbuff |-> s, position |-> p]) = [cbuff |-> f, position |-> p - 1]
    BY DEF Rubbed
  <1>5. \A i \in 1 .. Len(s) - 1 : f[i] = IF i < p THEN s[i] ELSE s[i + 1]
    OBVIOUS
  <1> HIDE DEF f
  <1> QED
    BY <1>3, <1>4, <1>5

\* A slot is one of the ring.
LEMMA SlotIs ==
  ASSUME NEW i \in Slots
  PROVE  /\ Slots = 0 .. MAX_CMD_HISTORY - 1 /\ MAX_CMD_HISTORY \in Nat \ {0}
         /\ (IF i = 0 THEN MAX_CMD_HISTORY - 1 ELSE i - 1) \in Slots
         /\ (i + 1) % MAX_CMD_HISTORY = (IF i + 1 = MAX_CMD_HISTORY THEN 0 ELSE i + 1)
         /\ (i + 1) % MAX_CMD_HISTORY \in Slots
  <1>1. MAX_CMD_HISTORY \in Nat \ {0} /\ i \in 0 .. MAX_CMD_HISTORY - 1
    BY LineEditorAssumption DEF Slots
  <1>2. (i + 1) % MAX_CMD_HISTORY = (IF i + 1 = MAX_CMD_HISTORY THEN 0 ELSE i + 1)
    BY <1>1
  <1> QED
    BY <1>1, <1>2 DEF Slots

\* Counting back from a slot.
LEMMA BackIs ==
  ASSUME NEW e \in Slots, NEW n \in 0 .. MAX_CMD_HISTORY
  PROVE  (e - n) % MAX_CMD_HISTORY = IF e >= n THEN (IF e - n = MAX_CMD_HISTORY THEN 0 ELSE e - n)
                                               ELSE e - n + MAX_CMD_HISTORY
  BY LineEditorAssumption DEF Slots

\* The line there is before a key is pressed.
LEMMA NoCmdIsLine == NoCmd.cbuff \in Seq(Chars) /\ NoCmd.position \in 0 .. Len(NoCmd.cbuff)
                     /\ NoCmd = [cbuff |-> NoCmd.cbuff, position |-> NoCmd.position]
                     /\ NoCmd.cbuff = <<>> /\ Len(NoCmd.cbuff) = 0 /\ NoCmd.position = 0
  BY EmptySeq DEF NoCmd

\* Whatever slips are made: cbuff and position stay a line with a cursor in it,
\* and the indices stay in the ring (creadline).
LEMMA StepTypes ==
  ASSUME TypeOK, Shape, [Next]_vars
  PROVE  TypeOK' /\ Shape'
  <1> USE DEF TypeOK, Shape, count
  <1>1. /\ hist_index \in Slots /\ entry_hist_index \in Slots
        /\ item \in [Slots -> Seq(Chars)]
        /\ tmp_cmd.cbuff \in Seq(Chars) /\ tmp_cmd.position \in 0 .. Len(tmp_cmd.cbuff)
        /\ Len(tmp_cmd.cbuff) \in Nat
    BY LenProperties
  <1>2. CASE Call
    BY <1>1, <1>2, NoCmdIsLine DEF Call
  <1>3. ASSUME NEW i \in Slots, Show(i) PROVE TypeOK' /\ Shape'
    <2>1. item[i] \in Seq(Chars) /\ Len(item[i]) \in Nat
      BY <1>1, LenProperties
    <2> QED
      BY <1>3, <2>1 DEF Show
  <1>4. CASE Up
    BY <1>1, <1>3, <1>4, SlotIs DEF Up, Older
  <1>5. CASE Down
    BY <1>1, <1>3, <1>5, SlotIs DEF Down, Newer
  <1>6. ASSUME NEW line, NEW index \in Slots, Return(line, index),
               line \in {NoLine, Unterminated} \/ line \in Seq(Chars),
               item' \in [Slots -> Seq(Chars)]
        PROVE  TypeOK' /\ Shape'
    BY <1>6, NoCmdIsLine DEF Return
  <1>7. CASE GiveUp
    BY <1>1, <1>6, <1>7 DEF GiveUp
  <1>8. ASSUME NEW cmd, Change(cmd), cmd = [cbuff |-> cmd.cbuff, position |-> cmd.position],
               cmd.cbuff \in Seq(Chars), cmd.position \in 0 .. Len(cmd.cbuff)
        PROVE  TypeOK' /\ Shape'
    BY <1>8 DEF Change
  <1>9. CASE Backspace
    <2>1. tmp_cmd.position \in 1 .. Len(tmp_cmd.cbuff)
      BY <1>1, <1>9 DEF Backspace
    <2> DEFINE cmd == Rubbed([cbuff |-> tmp_cmd.cbuff, position |-> tmp_cmd.position])
    <2>2. /\ cmd.cbuff \in Seq(Chars) /\ Len(cmd.cbuff) = Len(tmp_cmd.cbuff) - 1
          /\ cmd.position = tmp_cmd.position - 1
          /\ cmd = [cbuff |-> cmd.cbuff, position |-> cmd.position]
      BY <1>1, <2>1, RubbedIsLine
    <2>3. Change(cmd)
      BY <1>9 DEF Backspace
    <2> HIDE DEF cmd
    <2>4. cmd.position \in 0 .. Len(cmd.cbuff)
      BY <1>1, <2>1, <2>2
    <2> QED
      BY <1>8, <2>2, <2>3, <2>4
  <1>10. CASE Left
    <2> DEFINE cmd == [tmp_cmd EXCEPT !.position = @ - 1]
    <2>1. cmd = [cbuff |-> tmp_cmd.cbuff, position |-> tmp_cmd.position - 1]
      OBVIOUS
    <2>2. tmp_cmd.position - 1 \in 0 .. Len(tmp_cmd.cbuff)
      BY <1>1, <1>10 DEF Left
    <2> QED
      BY <1>1, <1>8, <1>10, <2>1, <2>2 DEF Left
  <1>11. CASE Right
    <2> DEFINE cmd == [tmp_cmd EXCEPT !.position = @ + 1]
    <2>1. cmd = [cbuff |-> tmp_cmd.cbuff, position |-> tmp_cmd.position + 1]
      OBVIOUS
    <2>2. tmp_cmd.position + 1 \in 0 .. Len(tmp_cmd.cbuff)
      BY <1>1, <1>11 DEF Right
    <2> QED
      BY <1>1, <1>8, <1>11, <2>1, <2>2 DEF Right
  <1>12. CASE \E c \in Chars : TypeKey(c)
    <2>1. PICK c \in Chars, p \in 0 .. Len(tmp_cmd.cbuff) :
            Change(Typed([cbuff |-> tmp_cmd.cbuff, position |-> p], c))
      <3>1. PICK c \in Chars : TypeKey(c)
        BY <1>12
      <3>2. CASE Change(Typed(tmp_cmd, c))
        BY <1>1, <3>2
      <3>3. ASSUME NEW p \in 0 .. MAX_CMD_BUF - 1, ~(count + 1 < MAX_CMD_BUF),
                   Change(Typed([tmp_cmd EXCEPT !.position = p], c))
            PROVE  \E q \in 0 .. Len(tmp_cmd.cbuff) :
                     Change(Typed([cbuff |-> tmp_cmd.cbuff, position |-> q], c))
        <4>1. p \in 0 .. Len(tmp_cmd.cbuff)
          BY <1>1, <3>1, <3>3, LineEditorAssumption DEF TypeKey
        <4>2. [tmp_cmd EXCEPT !.position = p] = [cbuff |-> tmp_cmd.cbuff, position |-> p]
          OBVIOUS
        <4> QED
          BY <3>3, <4>1, <4>2
      <3> QED
        BY <3>1, <3>2, <3>3 DEF TypeKey
    <2> DEFINE cmd == Typed([cbuff |-> tmp_cmd.cbuff, position |-> p], c)
    <2>2. /\ cmd.cbuff \in Seq(Chars) /\ Len(cmd.cbuff) = Len(tmp_cmd.cbuff) + 1
          /\ cmd.position = p + 1 /\ cmd = [cbuff |-> cmd.cbuff, position |-> cmd.position]
      BY <1>1, TypedIsLine
    <2>3. Change(cmd)
      BY <2>1
    <2> HIDE DEF cmd
    <2>4. cmd.position \in 0 .. Len(cmd.cbuff)
      BY <1>1, <2>2
    <2> QED
      BY <1>8, <2>2, <2>3, <2>4
  <1>13. CASE Enter
    <2>1. CASE count = 0
      BY <1>1, <1>6, <1>13, <2>1 DEF Enter
    <2>2. CASE count # 0
      <3>1. item' \in [Slots -> Seq(Chars)] /\ (entry_hist_index + 1) % MAX_CMD_HISTORY \in Slots
        BY <1>1, <1>13, <2>2, SlotIs DEF Enter
      <3> QED
        BY <1>1, <1>6, <1>13, <2>2, <3>1 DEF Enter
    <2> QED
      BY <2>1, <2>2
  <1>14. CASE UNCHANGED vars
    BY <1>14 DEF vars
  <1> QED
    BY <1>2, <1>4, <1>5, <1>7, <1>9, <1>10, <1>11, <1>12, <1>13, <1>14 DEF Next

\* new_history: every line is empty.
LEMMA InitTypes == Init => TypeOK /\ Shape
  <1> SUFFICES ASSUME Init PROVE TypeOK /\ Shape
    OBVIOUS
  <1>1. 0 \in Slots /\ <<>> \in Seq(Chars)
    BY LineEditorAssumption, EmptySeq DEF Slots
  <1>2. item \in [Slots -> Seq(Chars)]
    BY <1>1 DEF Init
  <1> QED
    BY <1>1, <1>2, NoCmdIsLine DEF Init, TypeOK, Shape, count

\* The line and the ring keep their types, and the cursor stays in the line,
\* for every size of both and whatever slips are made (creadline).
THEOREM LineTyped == Spec => []TypeOK
  <1>1. TypeOK /\ Shape /\ [Next]_vars => TypeOK' /\ Shape'
    BY StepTypes
  <1> QED
    BY <1>1, InitTypes, PTL DEF Spec

(***************************************************************************)
(* The line as the text before and behind the cursor.                      *)
(***************************************************************************)
Fore(s, p) == SubSeq(s, 1, p)
Rear(s, p) == SubSeq(s, p + 1, Len(s))

\* What is before the cursor and behind it, character by character.
LEMMA CutIs ==
  ASSUME NEW s \in Seq(Chars), NEW p \in 0 .. Len(s)
  PROVE  /\ Fore(s, p) \in Seq(Chars) /\ Len(Fore(s, p)) = p
         /\ \A i \in 1 .. p : Fore(s, p)[i] = s[i]
         /\ Rear(s, p) \in Seq(Chars) /\ Len(Rear(s, p)) = Len(s) - p
         /\ \A i \in 1 .. Len(s) - p : Rear(s, p)[i] = s[p + i]
  <1>1. Len(s) \in Nat /\ \A i \in 1 .. Len(s) : s[i] \in Chars
    BY LenProperties
  <1>2. /\ Fore(s, p) \in Seq(Chars) /\ Len(Fore(s, p)) = p
        /\ \A i \in 1 .. p : Fore(s, p)[i] = s[i]
    BY <1>1, SubSeqProperties DEF Fore
  <1>3. /\ Rear(s, p) \in Seq(Chars) /\ Len(Rear(s, p)) = Len(s) - p
        /\ \A i \in 1 .. Len(s) - p : Rear(s, p)[i] = s[p + i]
    BY <1>1, SubSeqProperties DEF Rear
  <1> QED
    BY <1>2, <1>3

\* Nothing before the cursor of an empty line, nothing behind that of a line shown.
LEMMA CutAtEnd ==
  ASSUME NEW s \in Seq(Chars)
  PROVE  Fore(s, Len(s)) = s /\ Rear(s, Len(s)) = <<>>
  <1>1. Len(s) \in Nat
    BY LenProperties
  <1>2. Fore(s, Len(s)) = s
    BY SubSeqFull DEF Fore
  <1>3. Rear(s, Len(s)) = <<>>
    BY <1>1, SubSeqEmpty DEF Rear
  <1> QED
    BY <1>2, <1>3

\* The cursor cuts the line in two.
LEMMA CutJoins ==
  ASSUME NEW s \in Seq(Chars), NEW p \in 0 .. Len(s)
  PROVE  Fore(s, p) \o Rear(s, p) = s
  <1>1. Len(s) \in Nat
    BY LenProperties
  <1>2. 1 \in 1 .. Len(s) + 1 /\ p \in 1 - 1 .. Len(s) /\ Len(s) \in p .. Len(s)
    BY <1>1
  <1>3. SubSeq(s, 1, p) \o SubSeq(s, p + 1, Len(s)) = SubSeq(s, 1, Len(s))
    BY <1>2, ConcatAdjacentSubSeq
  <1> QED
    BY <1>3, SubSeqFull DEF Fore, Rear

\* A character typed goes to the end of what is before the cursor.
LEMMA CutTyped ==
  ASSUME NEW s \in Seq(Chars), NEW p \in 0 .. Len(s), NEW c \in Chars,
         NEW t \in Seq(Chars), Len(t) = Len(s) + 1,
         \A i \in 1 .. Len(s) + 1 :
           t[i] = IF i <= p THEN s[i] ELSE IF i = p + 1 THEN c ELSE s[i - 1]
  PROVE  Fore(t, p + 1) = Append(Fore(s, p), c) /\ Rear(t, p + 1) = Rear(s, p)
  <1>1. Len(s) \in Nat /\ p + 1 \in 0 .. Len(t)
    BY LenProperties
  <1>2. /\ Append(Fore(s, p), c) \in Seq(Chars) /\ Len(Append(Fore(s, p), c)) = p + 1
        /\ \A i \in 1 .. p : Append(Fore(s, p), c)[i] = Fore(s, p)[i]
        /\ Append(Fore(s, p), c)[p + 1] = c
    BY CutIs, AppendProperties
  <1>3. Fore(t, p + 1) = Append(Fore(s, p), c)
    <2>1. /\ Fore(t, p + 1) \in Seq(Chars) /\ Len(Fore(t, p + 1)) = p + 1
          /\ \A i \in 1 .. p + 1 : Fore(t, p + 1)[i] = t[i]
      BY <1>1, CutIs
    <2>2. ASSUME NEW i \in 1 .. p + 1 PROVE Fore(t, p + 1)[i] = Append(Fore(s, p), c)[i]
      <3>1. Fore(t, p + 1)[i] = IF i <= p THEN s[i] ELSE c
        BY <1>1, <2>1
      <3>2. i <= p => Fore(s, p)[i] = s[i]
        BY CutIs
      <3> QED
        BY <1>1, <1>2, <3>1, <3>2
    <2> QED
      BY <1>2, <2>1, <2>2, SeqEqual
  <1>4. Rear(t, p + 1) = Rear(s, p)
    <2>1. /\ Rear(t, p + 1) \in Seq(Chars) /\ Len(Rear(t, p + 1)) = Len(s) - p
          /\ \A i \in 1 .. Len(s) - p : Rear(t, p + 1)[i] = t[p + 1 + i]
      <3> DEFINE q == p + 1
      <3>1. q \in 0 .. Len(t) /\ Len(t) - q = Len(s) - p
        BY <1>1
      <3> HIDE DEF q
      <3>2. /\ Rear(t, q) \in Seq(Chars) /\ Len(Rear(t, q)) = Len(s) - p
            /\ \A i \in 1 .. Len(s) - p : Rear(t, q)[i] = t[q + i]
        BY ONLY t \in Seq(Chars), <3>1, CutIs
      <3> QED
        BY <3>2 DEF q
    <2>2. \A i \in 1 .. Len(s) - p : Rear(t, p + 1)[i] = Rear(s, p)[i]
      <3> TAKE i \in 1 .. Len(s) - p
      <3>1. t[p + 1 + i] = s[p + i]
        BY <1>1
      <3> QED
        BY <2>1, <3>1, CutIs
    <2>3. Rear(s, p) \in Seq(Chars) /\ Len(Rear(s, p)) = Len(s) - p
      BY CutIs
    <2> QED
      BY <2>1, <2>2, <2>3, SeqEqual
  <1> QED
    BY <1>3, <1>4

\* The character before the cursor is rubbed out.
LEMMA CutRubbed ==
  ASSUME NEW s \in Seq(Chars), NEW p \in 1 .. Len(s),
         NEW t \in Seq(Chars), Len(t) = Len(s) - 1,
         \A i \in 1 .. Len(s) - 1 : t[i] = IF i < p THEN s[i] ELSE s[i + 1]
  PROVE  Fore(t, p - 1) = SubSeq(Fore(s, p), 1, p - 1) /\ Rear(t, p - 1) = Rear(s, p)
  <1>1. Len(s) \in Nat /\ p - 1 \in 0 .. Len(t) /\ p \in 0 .. Len(s)
    BY LenProperties
  <1>2. SubSeq(Fore(s, p), 1, p - 1) = Fore(Fore(s, p), p - 1)
    BY DEF Fore
  <1>3. Fore(s, p) \in Seq(Chars) /\ Len(Fore(s, p)) = p /\ p - 1 \in 0 .. p
    BY <1>1, CutIs
  <1>4. Fore(t, p - 1) = Fore(Fore(s, p), p - 1)
    <2>1. /\ Fore(t, p - 1) \in Seq(Chars) /\ Len(Fore(t, p - 1)) = p - 1
          /\ \A i \in 1 .. p - 1 : Fore(t, p - 1)[i] = t[i]
      BY <1>1, CutIs
    <2>2. /\ Fore(Fore(s, p), p - 1) \in Seq(Chars) /\ Len(Fore(Fore(s, p), p - 1)) = p - 1
          /\ \A i \in 1 .. p - 1 : Fore(Fore(s, p), p - 1)[i] = Fore(s, p)[i]
      <3> DEFINE f == Fore(s, p)
      <3>1. f \in Seq(Chars) /\ p - 1 \in 0 .. Len(f)
        BY <1>3
      <3> HIDE DEF f
      <3>2. /\ Fore(f, p - 1) \in Seq(Chars) /\ Len(Fore(f, p - 1)) = p - 1
            /\ \A i \in 1 .. p - 1 : Fore(f, p - 1)[i] = f[i]
        BY <3>1, CutIs
      <3> QED
        BY <3>2 DEF f
    <2>3. \A i \in 1 .. p - 1 : t[i] = s[i] /\ Fore(s, p)[i] = s[i]
      <3> TAKE i \in 1 .. p - 1
      <3>1. i \in 1 .. p /\ i \in 1 .. Len(s) - 1 /\ i < p
        BY <1>1
      <3> QED
        BY <1>1, <3>1, CutIs
    <2> QED
      BY <2>1, <2>2, <2>3, SeqEqual
  <1>5. Rear(t, p - 1) = Rear(s, p)
    <2>1. /\ Rear(t, p - 1) \in Seq(Chars) /\ Len(Rear(t, p - 1)) = Len(s) - p
          /\ \A i \in 1 .. Len(s) - p : Rear(t, p - 1)[i] = t[p - 1 + i]
      <3> DEFINE q == p - 1
      <3>1. q \in 0 .. Len(t) /\ Len(t) - q = Len(s) - p
        BY <1>1
      <3> HIDE DEF q
      <3>2. /\ Rear(t, q) \in Seq(Chars) /\ Len(Rear(t, q)) = Len(s) - p
            /\ \A i \in 1 .. Len(s) - p : Rear(t, q)[i] = t[q + i]
        BY ONLY t \in Seq(Chars), <3>1, CutIs
      <3> QED
        BY <3>2 DEF q
    <2>2. \A i \in 1 .. Len(s) - p : Rear(t, p - 1)[i] = Rear(s, p)[i]
      <3> TAKE i \in 1 .. Len(s) - p
      <3>1. t[p - 1 + i] = s[p + i]
        BY <1>1
      <3> QED
        BY <1>1, <2>1, <3>1, CutIs
    <2>3. Rear(s, p) \in Seq(Chars) /\ Len(Rear(s, p)) = Len(s) - p
      BY <1>1, CutIs
    <2> QED
      BY <2>1, <2>2, <2>3, SeqEqual
  <1> QED
    BY <1>2, <1>4, <1>5

\* The cursor goes to the left of a character.
LEMMA CutLeft ==
  ASSUME NEW s \in Seq(Chars), NEW p \in 1 .. Len(s)
  PROVE  /\ Fore(s, p - 1) = SubSeq(Fore(s, p), 1, p - 1)
         /\ Rear(s, p - 1) = <<Fore(s, p)[p]>> \o Rear(s, p)
  <1>1. Len(s) \in Nat /\ p \in 0 .. Len(s) /\ p - 1 \in 0 .. Len(s)
    BY LenProperties
  <1>2. Fore(s, p - 1) = SubSeq(Fore(s, p), 1, p - 1)
    <2>1. Fore(s, p) \in Seq(Chars) /\ Len(Fore(s, p)) = p /\ p - 1 \in 0 .. p
      BY <1>1, CutIs
    <2>2. /\ Fore(Fore(s, p), p - 1) \in Seq(Chars) /\ Len(Fore(Fore(s, p), p - 1)) = p - 1
          /\ \A i \in 1 .. p - 1 : Fore(Fore(s, p), p - 1)[i] = Fore(s, p)[i]
      BY <2>1, CutIs
    <2>3. /\ Fore(s, p - 1) \in Seq(Chars) /\ Len(Fore(s, p - 1)) = p - 1
          /\ \A i \in 1 .. p - 1 : Fore(s, p - 1)[i] = s[i]
      BY <1>1, CutIs
    <2>4. \A i \in 1 .. p - 1 : Fore(s, p)[i] = s[i]
      BY <1>1, CutIs
    <2>5. Fore(s, p - 1) = Fore(Fore(s, p), p - 1)
      BY <2>2, <2>3, <2>4, SeqEqual
    <2> QED
      BY <2>5 DEF Fore
  <1>3. Rear(s, p - 1) = <<s[p]>> \o Rear(s, p)
    BY <1>1, SubSeqRecursiveFirst DEF Rear
  <1>4. Fore(s, p)[p] = s[p]
    BY <1>1, CutIs
  <1> QED
    BY <1>2, <1>3, <1>4

\* The cursor goes to the right of one.
LEMMA CutRight ==
  ASSUME NEW s \in Seq(Chars), NEW p \in 0 .. Len(s) - 1
  PROVE  /\ Fore(s, p + 1) = Append(Fore(s, p), Head(Rear(s, p)))
         /\ Rear(s, p + 1) = Tail(Rear(s, p))
  <1>1. Len(s) \in Nat /\ p + 1 \in 1 .. Len(s) /\ p \in 0 .. Len(s)
    BY LenProperties
  <1>2. Head(Rear(s, p)) = s[p + 1] /\ Tail(Rear(s, p)) = Rear(s, p + 1)
    <2>1. Len(s) \in p + 1 .. Len(s)
      BY <1>1
    <2> QED
      BY <1>1, <2>1, HeadTailOfSubSeq DEF Rear
  <1>3. Fore(s, p + 1) = Fore(s, p) \o <<s[p + 1]>>
    <2>1. p + 1 \in 1 .. p + 1 /\ 1 \in 1 .. Len(s) /\ p + 1 \in 1 .. Len(s) /\ p + 1 - 1 = p
      BY <1>1
    <2> QED
      BY <2>1, SubSeqRecursiveSecond DEF Fore
  <1>4. s[p + 1] \in Chars /\ Fore(s, p) \in Seq(Chars)
    BY <1>1, CutIs, ElementOfSeq
  <1>5. Append(Fore(s, p), s[p + 1]) = Fore(s, p) \o <<s[p + 1]>>
    BY <1>4, AppendIsConcat
  <1> QED
    BY <1>2, <1>3, <1>5

(***************************************************************************)
(* The ring as the list of the lines behind a slot.                        *)
(***************************************************************************)
Back(e, n) == (e - n) % MAX_CMD_HISTORY

Known(it, e) == {n \in 1 .. MAX_CMD_HISTORY - 1 : \A k \in 1 .. n : it[Back(e, k)] # <<>>}

Lines(it, e) == [n \in Known(it, e) |-> it[Back(e, n)]]

\* The slots behind a slot are the others of the ring.
LEMMA BackOther ==
  ASSUME NEW e \in Slots
  PROVE  /\ MAX_CMD_HISTORY \in Nat \ {0}
         /\ Back(e, 0) = e
         /\ \A n \in 0 .. MAX_CMD_HISTORY : Back(e, n) \in Slots
         /\ \A n \in 1 .. MAX_CMD_HISTORY - 1 : Back(e, n) # e
         /\ Back(e, MAX_CMD_HISTORY) = e
  <1>1. MAX_CMD_HISTORY \in Nat \ {0} /\ e \in 0 .. MAX_CMD_HISTORY - 1
    BY LineEditorAssumption DEF Slots
  <1>2. ASSUME NEW n \in 0 .. MAX_CMD_HISTORY
        PROVE  /\ Back(e, n) \in Slots
               /\ n \in 1 .. MAX_CMD_HISTORY - 1 => Back(e, n) # e
               /\ n \in {0, MAX_CMD_HISTORY} => Back(e, n) = e
    <2>1. Back(e, n) = IF e >= n THEN (IF e - n = MAX_CMD_HISTORY THEN 0 ELSE e - n)
                                 ELSE e - n + MAX_CMD_HISTORY
      BY BackIs DEF Back
    <2> QED
      BY <1>1, <2>1 DEF Slots
  <1> QED
    BY <1>1, <1>2

\* The slot one further, from which a slot is one more back.
LEMMA BackNext ==
  ASSUME NEW e \in Slots, NEW n \in 1 .. MAX_CMD_HISTORY
  PROVE  /\ (e + 1) % MAX_CMD_HISTORY \in Slots
         /\ Back((e + 1) % MAX_CMD_HISTORY, n) = Back(e, n - 1)
  <1>1. MAX_CMD_HISTORY \in Nat \ {0} /\ e \in 0 .. MAX_CMD_HISTORY - 1
    BY LineEditorAssumption DEF Slots
  <1> DEFINE f == (e + 1) % MAX_CMD_HISTORY
  <1>2. f = (IF e + 1 = MAX_CMD_HISTORY THEN 0 ELSE e + 1) /\ f \in Slots
    BY SlotIs
  <1>3. Back(e, n - 1) = IF e >= n - 1 THEN (IF e - (n - 1) = MAX_CMD_HISTORY THEN 0 ELSE e - (n - 1))
                                       ELSE e - (n - 1) + MAX_CMD_HISTORY
    <2>1. n - 1 \in 0 .. MAX_CMD_HISTORY
      BY <1>1
    <2> QED
      BY <2>1, BackIs DEF Back
  <1> HIDE DEF f
  <1>4. Back(f, n) = IF f >= n THEN (IF f - n = MAX_CMD_HISTORY THEN 0 ELSE f - n)
                               ELSE f - n + MAX_CMD_HISTORY
    <2>1. f \in Slots /\ n \in 0 .. MAX_CMD_HISTORY
      BY <1>1, <1>2
    <2> QED
      BY ONLY <2>1, BackIs DEF Back
  <1>5. Back(f, n) = Back(e, n - 1)
    BY <1>1, <1>2, <1>3, <1>4
  <1> QED
    BY <1>2, <1>5 DEF f

\* How far back a slot is, and the slots around it.
LEMMA DistanceIs ==
  ASSUME NEW e \in Slots, NEW h \in Slots
  PROVE  LET b == (e - h) % MAX_CMD_HISTORY
             older == IF h = 0 THEN MAX_CMD_HISTORY - 1 ELSE h - 1
             newer == (h + 1) % MAX_CMD_HISTORY
         IN  /\ b \in 0 .. MAX_CMD_HISTORY - 1
             /\ Back(e, b) = h /\ (b = 0 <=> h = e)
             /\ older = Back(e, b + 1)
             /\ older # e => (e - older) % MAX_CMD_HISTORY = b + 1 /\ b + 1 <= MAX_CMD_HISTORY - 1
             /\ h # e => /\ newer = Back(e, b - 1)
                         /\ (e - newer) % MAX_CMD_HISTORY = b - 1 /\ (newer = e <=> b = 1)
  <1>1. /\ MAX_CMD_HISTORY \in Nat \ {0} /\ e \in 0 .. MAX_CMD_HISTORY - 1
        /\ h \in 0 .. MAX_CMD_HISTORY - 1
    BY LineEditorAssumption DEF Slots
  <1> DEFINE b == (e - h) % MAX_CMD_HISTORY
             older == IF h = 0 THEN MAX_CMD_HISTORY - 1 ELSE h - 1
             newer == (h + 1) % MAX_CMD_HISTORY
             far(n) == IF e >= n THEN (IF e - n = MAX_CMD_HISTORY THEN 0 ELSE e - n)
                                 ELSE e - n + MAX_CMD_HISTORY
  <1>2. newer = (IF h + 1 = MAX_CMD_HISTORY THEN 0 ELSE h + 1)
    BY SlotIs
  <1>3. \A n \in 0 .. MAX_CMD_HISTORY : (e - n) % MAX_CMD_HISTORY = far(n) /\ Back(e, n) = far(n)
    BY BackIs DEF Back
  <1>4. older \in 0 .. MAX_CMD_HISTORY /\ newer \in 0 .. MAX_CMD_HISTORY /\ h \in 0 .. MAX_CMD_HISTORY
    BY <1>1, <1>2
  <1>5. b = far(h) /\ (e - older) % MAX_CMD_HISTORY = far(older)
        /\ (e - newer) % MAX_CMD_HISTORY = far(newer)
    BY <1>3, <1>4
  <1> HIDE DEF newer
  <1>6. b \in 0 .. MAX_CMD_HISTORY - 1 /\ (b = 0 <=> h = e)
    BY <1>1, <1>5
  <1>7. Back(e, b) = far(b) /\ Back(e, b + 1) = far(b + 1) /\ (b # 0 => Back(e, b - 1) = far(b - 1))
    <2> HIDE DEF b, far
    <2>1. b \in 0 .. MAX_CMD_HISTORY /\ b + 1 \in 0 .. MAX_CMD_HISTORY
          /\ (b # 0 => b - 1 \in 0 .. MAX_CMD_HISTORY)
      BY <1>1, <1>6
    <2> QED
      BY <1>3, <2>1
  <1> HIDE DEF b
  <1>8. Back(e, b) = h
    BY <1>1, <1>5, <1>6, <1>7
  <1>9. older = Back(e, b + 1)
    BY <1>1, <1>5, <1>6, <1>7
  <1>10. older # e => (e - older) % MAX_CMD_HISTORY = b + 1 /\ b + 1 <= MAX_CMD_HISTORY - 1
    BY <1>1, <1>5, <1>6
  <1>11. h # e => newer = Back(e, b - 1)
    BY <1>1, <1>2, <1>5, <1>6, <1>7
  <1>12. h # e => (e - newer) % MAX_CMD_HISTORY = b - 1 /\ (newer = e <=> b = 1)
    BY <1>1, <1>2, <1>5, <1>6
  <1> QED
    BY <1>6, <1>8, <1>9, <1>10, <1>11, <1>12 DEF b, newer

\* The lines behind a slot end at one that was never used, or at the slot itself.
LEMMA LinesIs ==
  ASSUME NEW it \in [Slots -> Seq(Chars)], NEW e \in Slots
  PROVE  LET s == Lines(it, e)
         IN  /\ s \in Seq(Seq(Chars)) /\ Len(s) \in 0 .. MAX_CMD_HISTORY - 1
             /\ \A n \in 1 .. Len(s) : s[n] = it[Back(e, n)] /\ s[n] # <<>>
             /\ Len(s) = MAX_CMD_HISTORY - 1 \/ it[Back(e, Len(s) + 1)] = <<>>
             /\ \A b \in 0 .. MAX_CMD_HISTORY - 1 :
                  (\A k \in 1 .. b : it[Back(e, k)] # <<>>) => b <= Len(s)
  <1> DEFINE K == Known(it, e)
             M == MAX_CMD_HISTORY - 1
  <1>1. M \in Nat /\ (\A n \in 1 .. M : Back(e, n) \in Slots /\ it[Back(e, n)] \in Seq(Chars))
    <2>1. MAX_CMD_HISTORY \in Nat \ {0} /\ \A n \in 0 .. MAX_CMD_HISTORY : Back(e, n) \in Slots
      BY BackOther
    <2> QED
      BY <2>1
  <1>2. \A n : n \in K <=> n \in 1 .. M /\ \A k \in 1 .. n : it[Back(e, k)] # <<>>
    BY DEF Known
  <1> HIDE DEF K
  <1>3. PICK m \in 0 .. M : K = 1 .. m
    <2>1. CASE K = {}
      BY <1>1, <2>1
    <2>2. CASE K # {}
      <3>1. K \subseteq Nat
        BY <1>1, <1>2
      <3>2. \A x \in K : x <= M
        BY <1>1, <1>2
      <3>3. PICK m \in K : \A x \in K : x <= m
        <4>1. M \in Int /\ K \in SUBSET Int
          BY <1>1, <3>1
        <4> HIDE DEF M
        <4>2. Max(K) \in K /\ \A x \in K : x <= Max(K)
          BY ONLY <2>2, <3>2, <4>1, MaxIs
        <4> QED
          BY ONLY <4>2
      <3>4. m \in 1 .. M /\ \A k \in 1 .. m : it[Back(e, k)] # <<>>
        BY <1>2, <3>3
      <3>5. ASSUME NEW n \in 1 .. m PROVE n \in K
        <4>1. n \in 1 .. M /\ \A k \in 1 .. n : k \in 1 .. m
          BY <1>1, <3>4
        <4> QED
          BY <1>2, <3>4, <4>1
      <3>6. ASSUME NEW n \in K PROVE n \in 1 .. m
        BY <1>1, <1>2, <3>3, <3>4
      <3>7. K = 1 .. m
        BY <3>5, <3>6
      <3> QED
        BY <1>1, <3>4, <3>7
    <2> QED
      BY <2>1, <2>2
  <1> DEFINE f == [n \in 1 .. m |-> it[Back(e, n)]]
  <1>4. Lines(it, e) = f
    BY <1>3 DEF Lines, K
  <1>5. f \in [1 .. m -> Seq(Chars)] /\ \A n \in 1 .. m : f[n] = it[Back(e, n)] /\ f[n] # <<>>
    <2>1. \A n \in 1 .. m : n \in 1 .. M /\ n \in 1 .. n
      BY <1>1
    <2>2. \A n \in 1 .. m : it[Back(e, n)] \in Seq(Chars) /\ it[Back(e, n)] # <<>>
      BY <1>1, <1>2, <1>3, <2>1
    <2> QED
      BY <2>2
  <1> HIDE DEF f
  <1>6. f \in Seq(Seq(Chars)) /\ Len(f) = m
    BY <1>1, <1>5, FcnIsRow
  <1>7. m = M \/ it[Back(e, m + 1)] = <<>>
    <2> SUFFICES ASSUME m # M, it[Back(e, m + 1)] # <<>> PROVE FALSE
      OBVIOUS
    <2>1. m + 1 \in 1 .. M /\ m + 1 \notin 1 .. m
      BY <1>1
    <2>2. ASSUME NEW k \in 1 .. m + 1 PROVE it[Back(e, k)] # <<>>
      <3>1. k = m + 1 \/ k \in 1 .. m
        BY <1>1
      <3> QED
        BY <1>5, <3>1
    <2> QED
      BY <1>2, <1>3, <2>1, <2>2
  <1>8. ASSUME NEW b \in 0 .. M, \A k \in 1 .. b : it[Back(e, k)] # <<>> PROVE b <= m
    <2>1. CASE b = 0
      BY <1>1, <2>1
    <2>2. CASE b # 0
      <3>1. b \in 1 .. M
        BY <1>1, <2>2
      <3>2. b \in 1 .. m
        BY <1>2, <1>3, <1>8, <3>1
      <3> QED
        BY <3>2
    <2> QED
      BY <2>1, <2>2
  <1>9. Len(f) \in 0 .. M
    BY <1>6
  <1> QED
    BY <1>4, <1>5, <1>6, <1>7, <1>8, <1>9

\* What is listed is settled by the slots.
LEMMA LinesAre ==
  ASSUME NEW it \in [Slots -> Seq(Chars)], NEW e \in Slots,
         NEW s \in Seq(Seq(Chars)), Len(s) <= MAX_CMD_HISTORY - 1,
         \A n \in 1 .. Len(s) : s[n] = it[Back(e, n)] /\ s[n] # <<>>,
         Len(s) = MAX_CMD_HISTORY - 1 \/ it[Back(e, Len(s) + 1)] = <<>>
  PROVE  Lines(it, e) = s
  <1> DEFINE t == Lines(it, e)
             M == MAX_CMD_HISTORY - 1
  <1>1. /\ t \in Seq(Seq(Chars)) /\ Len(t) \in 0 .. M
        /\ \A n \in 1 .. Len(t) : t[n] = it[Back(e, n)] /\ t[n] # <<>>
        /\ Len(t) = M \/ it[Back(e, Len(t) + 1)] = <<>>
        /\ \A b \in 0 .. M : (\A k \in 1 .. b : it[Back(e, k)] # <<>>) => b <= Len(t)
    BY LinesIs
  <1>2. Len(s) \in Nat /\ M \in Nat
    BY LenProperties, BackOther
  <1> HIDE DEF t
  <1>3. Len(s) <= Len(t)
    <2>1. Len(s) \in 0 .. M
      BY <1>2
    <2>2. \A k \in 1 .. Len(s) : it[Back(e, k)] # <<>>
      OBVIOUS
    <2> QED
      BY <1>1, <2>1, <2>2
  <1>4. Len(t) <= Len(s)
    <2> SUFFICES ASSUME ~(Len(t) <= Len(s)) PROVE FALSE
      OBVIOUS
    <2>1. Len(s) + 1 \in 1 .. Len(t) /\ Len(s) # M
      BY <1>1, <1>2
    <2>2. it[Back(e, Len(s) + 1)] = <<>> /\ it[Back(e, Len(s) + 1)] # <<>>
      BY <1>1, <2>1
    <2> QED
      BY <2>2
  <1>5. Len(t) = Len(s)
    BY <1>1, <1>2, <1>3, <1>4
  <1>6. \A n \in 1 .. Len(s) : t[n] = s[n]
    BY <1>1, <1>5
  <1>7. t = s
    BY <1>1, <1>5, <1>6, SeqEqual
  <1> QED
    BY <1>7 DEF t

\* A line entered is the newest of the list, and the oldest of a full one is gone.
LEMMA LineEntered ==
  ASSUME NEW it \in [Slots -> Seq(Chars)], NEW e \in Slots,
         NEW line \in Seq(Chars), line # <<>>
  PROVE  Lines([it EXCEPT ![e] = line], (e + 1) % MAX_CMD_HISTORY)
           = Line!First(MAX_CMD_HISTORY - 1, <<line>> \o Lines(it, e))
  <1> DEFINE M == MAX_CMD_HISTORY - 1
             t == Lines(it, e)
             jt == [it EXCEPT ![e] = line]
             f == (e + 1) % MAX_CMD_HISTORY
             w == <<line>> \o t
             n0 == IF M < Len(w) THEN M ELSE Len(w)
             s == SubSeq(w, 1, n0)
  <1>1. /\ t \in Seq(Seq(Chars)) /\ Len(t) \in 0 .. M
        /\ \A n \in 1 .. Len(t) : t[n] = it[Back(e, n)] /\ t[n] # <<>>
        /\ Len(t) = M \/ it[Back(e, Len(t) + 1)] = <<>>
    BY LinesIs
  <1>2. M \in Nat /\ \A n \in 1 .. M : Back(e, n) # e /\ Back(e, n) \in Slots
    <2>1. /\ MAX_CMD_HISTORY \in Nat \ {0}
          /\ \A n \in 0 .. MAX_CMD_HISTORY : Back(e, n) \in Slots
          /\ \A n \in 1 .. MAX_CMD_HISTORY - 1 : Back(e, n) # e
      BY BackOther
    <2> QED
      BY <2>1
  <1>3. jt \in [Slots -> Seq(Chars)] /\ jt[e] = line /\ \A i \in Slots : i # e => jt[i] = it[i]
    OBVIOUS
  <1>4. f \in Slots /\ \A n \in 1 .. M : Back(f, n) = Back(e, n - 1)
    <2>1. 1 \in 1 .. MAX_CMD_HISTORY /\ \A n \in 1 .. M : n \in 1 .. MAX_CMD_HISTORY
      BY <1>2, BackOther
    <2> QED
      BY <2>1, BackNext
  <1>5. Back(e, 0) = e
    BY BackOther
  <1> HIDE DEF t, jt, f
  <1>6. w \in Seq(Seq(Chars)) /\ Len(w) = Len(t) + 1 /\ w[1] = line
        /\ \A n \in 2 .. Len(t) + 1 : w[n] = t[n - 1]
    <2>1. <<line>> \in Seq(Seq(Chars)) /\ Len(<<line>>) = 1 /\ <<line>>[1] = line
      OBVIOUS
    <2> DEFINE one == <<line>>
    <2> HIDE DEF one
    <2>2. one \in Seq(Seq(Chars)) /\ Len(one) = 1 /\ one[1] = line
      BY <2>1 DEF one
    <2>3. one \o t \in Seq(Seq(Chars)) /\ Len(one \o t) = 1 + Len(t)
          /\ \A n \in 1 .. 1 + Len(t) : (one \o t)[n] = IF n <= 1 THEN one[n] ELSE t[n - 1]
      <3>1. t \in Seq(Seq(Chars))
        BY <1>1
      <3>2. one \o t \in Seq(Seq(Chars)) /\ Len(one \o t) = Len(one) + Len(t)
            /\ \A n \in 1 .. Len(one) + Len(t) :
                 (one \o t)[n] = IF n <= Len(one) THEN one[n] ELSE t[n - Len(one)]
        BY ONLY <2>2, <3>1, ConcatProperties
      <3> QED
        BY ONLY <2>2, <3>2
    <2>4. one \o t \in Seq(Seq(Chars)) /\ Len(one \o t) = Len(t) + 1 /\ (one \o t)[1] = line
          /\ \A n \in 2 .. Len(t) + 1 : (one \o t)[n] = t[n - 1]
      BY <1>1, <2>2, <2>3
    <2> QED
      BY <2>4 DEF one
  <1> HIDE DEF w
  <1>7. n0 \in 0 .. M /\ n0 \in 0 .. Len(w) /\ (n0 = M \/ n0 = Len(t) + 1)
    BY <1>1, <1>2, <1>6
  <1> HIDE DEF n0
  <1>8. s \in Seq(Seq(Chars)) /\ Len(s) = n0 /\ \A n \in 1 .. n0 : s[n] = w[n]
    BY <1>2, <1>6, <1>7, SubSeqProperties
  <1> HIDE DEF s
  <1>9. ASSUME NEW n \in 1 .. n0 PROVE s[n] = jt[Back(f, n)] /\ s[n] # <<>>
    <2>1. n \in 1 .. M /\ n \in 1 .. Len(t) + 1 /\ Back(f, n) = Back(e, n - 1) /\ s[n] = w[n]
      <3>1. n \in 1 .. M /\ n \in 1 .. Len(t) + 1
        BY <1>1, <1>2, <1>6, <1>7
      <3> QED
        BY <1>4, <1>8, <3>1
    <2>2. CASE n = 1
      <3>1. Back(f, n) = e
        BY <1>5, <2>1, <2>2
      <3> QED
        BY <1>3, <1>6, <2>1, <2>2, <3>1
    <2>3. CASE n # 1
      <3>1. n - 1 \in 1 .. M /\ n - 1 \in 1 .. Len(t) /\ n \in 2 .. Len(t) + 1
        BY <1>1, <1>2, <2>1, <2>3
      <3>2. Back(e, n - 1) \in Slots /\ Back(e, n - 1) # e
        BY <1>2, <3>1
      <3>3. t[n - 1] = it[Back(e, n - 1)] /\ t[n - 1] # <<>>
        BY <1>1, <3>1
      <3> QED
        <4>1. jt[Back(e, n - 1)] = it[Back(e, n - 1)]
          BY <1>3, <3>2
        <4>2. w[n] = t[n - 1]
          BY <1>6, <3>1
        <4> QED
          BY <2>1, <3>3, <4>1, <4>2
    <2> QED
      BY <2>2, <2>3
  <1>10. n0 = M \/ jt[Back(f, n0 + 1)] = <<>>
    <2> SUFFICES ASSUME n0 # M PROVE jt[Back(f, n0 + 1)] = <<>>
      OBVIOUS
    <2>1. n0 = Len(t) + 1 /\ n0 \in 1 .. M /\ n0 + 1 \in 1 .. M /\ Len(t) # M /\ n0 + 1 - 1 = n0
      BY <1>1, <1>2, <1>7
    <2>2. Back(f, n0 + 1) = Back(e, n0)
      BY <1>4, <2>1
    <2>3. it[Back(e, n0)] = <<>>
      BY <1>1, <2>1
    <2> QED
      BY <1>2, <1>3, <2>1, <2>2, <2>3
  <1>11. Lines(jt, f) = s
    <2>1. Len(s) <= MAX_CMD_HISTORY - 1
      BY <1>2, <1>7, <1>8
    <2> QED
      BY <1>3, <1>4, <1>8, <1>9, <1>10, <2>1, LinesAre
  <1>12. Line!First(MAX_CMD_HISTORY - 1, w) = s
    BY DEF Line!First, s, n0
  <1> QED
    BY <1>11, <1>12 DEF t, jt, f, w

(***************************************************************************)
(* Every key is a step of InputLine.                                       *)
(***************************************************************************)
before == Fore(tmp_cmd.cbuff, tmp_cmd.position)
behind == Rear(tmp_cmd.cbuff, tmp_cmd.position)
lines == Lines(item, entry_hist_index)

\* The state of InputLine, by name.
\* The state of InputLine, by name, in this state and in the next one.
LEMMA LineIs ==
  /\ before = SubSeq(tmp_cmd.cbuff, 1, tmp_cmd.position)
  /\ behind = SubSeq(tmp_cmd.cbuff, tmp_cmd.position + 1, count)
  /\ lines = Behind /\ back = (entry_hist_index - hist_index) % MAX_CMD_HISTORY
  /\ before' = SubSeq(tmp_cmd.cbuff, 1, tmp_cmd.position)'
  /\ behind' = SubSeq(tmp_cmd.cbuff, tmp_cmd.position + 1, count)'
  /\ lines' = Behind' /\ back' = ((entry_hist_index - hist_index) % MAX_CMD_HISTORY)'
  BY DEF before, behind, lines, back, Fore, Rear, count, Behind, Lines, Known, Back, SlotBack

\* no line is entered
Stays == lines' = lines /\ answer' = answer

\* The steps of InputLine, one lemma for each.
LEMMA LineBegins ==
  ASSUME ~reading, reading' = TRUE, before' = <<>>, behind' = <<>>, back' = 0, Stays
  PROVE  Line!Next
  BY LineIs DEF Line!Next, Line!Begin, Stays

LEMMA LineTypes ==
  ASSUME NEW c \in Chars, before' = Append(before, c), behind' = behind,
         reading, reading' = reading, back' = back, Stays
  PROVE  Line!Next
  BY LineIs DEF Line!Next, Line!Type, Stays

LEMMA LineRubs ==
  ASSUME before # <<>>, before' = Line!First(Len(before) - 1, before), behind' = behind,
         reading, reading' = reading, back' = back, Stays
  PROVE  Line!Next
  BY LineIs DEF Line!Next, Line!Rub, Stays

LEMMA LineGoesLeft ==
  ASSUME before # <<>>, before' = Line!First(Len(before) - 1, before),
         behind' = <<before[Len(before)]>> \o behind,
         reading, reading' = reading, back' = back, Stays
  PROVE  Line!Next
  BY LineIs DEF Line!Next, Line!Left, Stays

LEMMA LineGoesRight ==
  ASSUME behind # <<>>, before' = Append(before, Head(behind)), behind' = Tail(behind),
         reading, reading' = reading, back' = back, Stays
  PROVE  Line!Next
  BY LineIs DEF Line!Next, Line!Right, Stays

LEMMA LineWalks ==
  ASSUME back' \in 0 .. Len(lines), back' = back + 1 \/ back = back' + 1,
         before' = IF back' = 0 THEN <<>> ELSE lines[back'], behind' = <<>>,
         reading, reading' = reading, Stays
  PROVE  Line!Next
  BY LineIs DEF Line!Next, Line!Walk, Line!Line, Stays

LEMMA LineEnds ==
  ASSUME reading, reading' = FALSE, before' = <<>>, behind' = <<>>, back' = 0,
         \/ lines' = lines /\ answer' = NoLine
         \/ /\ before \o behind # <<>> /\ answer' = before \o behind
            /\ lines' = Line!First(MAX_CMD_HISTORY - 1, <<before \o behind>> \o lines)
  PROVE  Line!Next
  BY LineIs DEF Line!Next, Line!Cancel, Line!Enter, Line!End

\* A line that is shown, b lines back: all of it is before the cursor.
LEMMA ShowWalks ==
  ASSUME LineInv, reading, NEW i \in Slots, Show(i),
         NEW b \in 0 .. MAX_CMD_HISTORY - 1,
         (entry_hist_index - i) % MAX_CMD_HISTORY = b, i = Back(entry_hist_index, b),
         b = back + 1 \/ back = b + 1,
         \A k \in 1 .. b : item[SlotBack(k)] # <<>>, b = 0 => item[i] = <<>>
  PROVE  LineInv' /\ Line!Next
  <1>1. /\ item \in [Slots -> Seq(Chars)] /\ entry_hist_index \in Slots
        /\ hist_index \in Slots /\ back \in 0 .. MAX_CMD_HISTORY - 1
        /\ TypeOK /\ Shape /\ \A j \in Slots : Len(item[j]) < MAX_CMD_BUF
    BY DistanceIs DEF LineInv, TypeOK, back
  <1>2. item[i] \in Seq(Chars) /\ Len(item[i]) \in Nat
    BY <1>1, LenProperties
  <1>3. /\ hist_index' = i /\ tmp_cmd' = [cbuff |-> item[i], position |-> Len(item[i])]
        /\ reading' = reading /\ item' = item /\ entry_hist_index' = entry_hist_index
        /\ answer' = answer
    BY DEF Show
  <1>4. back' = b /\ lines' = lines /\ Stays
    BY <1>3 DEF back, lines, Stays
  <1>5. TypeOK' /\ Shape'
    BY <1>1, <1>2, <1>3 DEF TypeOK, Shape, count
  <1>6. LineInv'
    <2>1. count' < MAX_CMD_BUF /\ \A j \in Slots : Len(item'[j]) < MAX_CMD_BUF
      BY <1>1, <1>3 DEF count
    <2>2. (\A k \in 1 .. back : item[SlotBack(k)] # <<>>)'
      BY <1>3, <1>4 DEF SlotBack
    <2> QED
      BY <1>3, <1>5, <2>1, <2>2 DEF LineInv
  <1>7. before' = item[i] /\ behind' = <<>>
    BY <1>2, <1>3, CutAtEnd DEF before, behind
  <1>8. b <= Len(lines) /\ Len(lines) \in Nat
        /\ \A n \in 1 .. Len(lines) : lines[n] = item[Back(entry_hist_index, n)]
    <2> DEFINE s == Lines(item, entry_hist_index)
    <2>1. /\ Len(s) \in 0 .. MAX_CMD_HISTORY - 1
          /\ \A n \in 1 .. Len(s) : s[n] = item[Back(entry_hist_index, n)] /\ s[n] # <<>>
          /\ \A m \in 0 .. MAX_CMD_HISTORY - 1 :
               (\A k \in 1 .. m : item[Back(entry_hist_index, k)] # <<>>) => m <= Len(s)
      BY <1>1, LinesIs
    <2>2. \A k \in 1 .. b : item[Back(entry_hist_index, k)] # <<>>
      BY DEF Back, SlotBack
    <2> HIDE DEF s
    <2>3. b <= Len(s) /\ Len(s) \in Nat
          /\ \A n \in 1 .. Len(s) : s[n] = item[Back(entry_hist_index, n)]
      BY <2>1, <2>2
    <2> QED
      BY <2>3 DEF lines, s
  <1>9. back' \in 0 .. Len(lines) /\ (back' = back + 1 \/ back = back' + 1)
    BY <1>4, <1>8
  <1>10. before' = IF back' = 0 THEN <<>> ELSE lines[back']
    <2>1. CASE b = 0
      BY <1>4, <1>7, <2>1
    <2>2. CASE b # 0
      <3>1. b \in 1 .. Len(lines)
        BY <1>8, <2>2
      <3> QED
        BY <1>4, <1>7, <1>8, <2>2, <3>1
    <2> QED
      BY <2>1, <2>2
  <1>11. Line!Next
    BY <1>3, <1>4, <1>7, <1>9, <1>10, LineWalks
  <1> QED
    BY <1>6, <1>11

\* The line is typed or moved in; the ring and the walk stay what they are.
LEMMA ChangeKeeps ==
  ASSUME LineInv, reading, NEW cmd, Change(cmd),
         cmd = [cbuff |-> cmd.cbuff, position |-> cmd.position],
         cmd.cbuff \in Seq(Chars), cmd.position \in 0 .. Len(cmd.cbuff),
         Len(cmd.cbuff) < MAX_CMD_BUF
  PROVE  /\ LineInv' /\ reading' = reading /\ back' = back /\ Stays
         /\ before' = Fore(cmd.cbuff, cmd.position) /\ behind' = Rear(cmd.cbuff, cmd.position)
  <1>1. /\ tmp_cmd' = cmd /\ reading' = reading /\ item' = item
        /\ hist_index' = hist_index /\ entry_hist_index' = entry_hist_index /\ answer' = answer
    BY DEF Change
  <1>2. back' = back /\ lines' = lines /\ Stays
    BY <1>1 DEF back, lines, Stays
  <1>3. before' = Fore(cmd.cbuff, cmd.position) /\ behind' = Rear(cmd.cbuff, cmd.position)
    BY <1>1 DEF before, behind
  <1>4. TypeOK' /\ Shape'
    BY <1>1 DEF LineInv, TypeOK, Shape, count
  <1>5. count' < MAX_CMD_BUF /\ \A j \in Slots : Len(item'[j]) < MAX_CMD_BUF
    BY <1>1 DEF LineInv, count
  <1>6. (\A k \in 1 .. back : item[SlotBack(k)] # <<>>)'
    BY <1>1, <1>2 DEF LineInv, SlotBack
  <1> QED
    BY <1>1, <1>2, <1>3, <1>4, <1>5, <1>6 DEF LineInv

\* creadline returns, or is called: nothing is shown, and no walk goes on.
LEMMA EndsClear ==
  ASSUME TypeOK', Shape', tmp_cmd' = NoCmd, hist_index' = entry_hist_index',
         \A j \in Slots : Len(item'[j]) < MAX_CMD_BUF
  PROVE  LineInv' /\ before' = <<>> /\ behind' = <<>> /\ back' = 0
  <1>1. entry_hist_index' \in Slots
    BY DEF TypeOK
  <1>2. back' = 0
    BY <1>1, DistanceIs DEF back
  <1>3. before' = <<>> /\ behind' = <<>>
    <2>1. <<>> \in Seq(Chars) /\ Len(<<>>) = 0
      BY EmptySeq
    <2>2. Fore(<<>>, 0) = <<>> /\ Rear(<<>>, 0) = <<>>
      BY <2>1, CutAtEnd
    <2> QED
      BY <2>2, NoCmdIsLine DEF before, behind
  <1>4. count' < MAX_CMD_BUF
    BY NoCmdIsLine, LineEditorAssumption DEF count
  <1> QED
    BY <1>2, <1>3, <1>4 DEF LineInv

\* Each key of a careful user keeps the invariant and is a step of InputLine.
LEMMA StepIsLine ==
  ASSUME Careful, LineInv, [Next]_vars
  PROVE  LineInv' /\ [Line!Next]_(Line!vars)
  <1> DEFINE s == tmp_cmd.cbuff
             p == tmp_cmd.position
  <1>1. /\ TypeOK /\ Shape /\ TypeOK' /\ Shape'
        /\ item \in [Slots -> Seq(Chars)] /\ entry_hist_index \in Slots /\ hist_index \in Slots
        /\ s \in Seq(Chars) /\ p \in 0 .. Len(s) /\ Len(s) \in Nat /\ tmp_cmd = [cbuff |-> s, position |-> p]
        /\ Len(s) < MAX_CMD_BUF /\ \A j \in Slots : Len(item[j]) < MAX_CMD_BUF
        /\ \A k \in 1 .. back : item[SlotBack(k)] # <<>>
    BY StepTypes, LenProperties DEF LineInv, TypeOK, Shape, count
  <1>2. before = Fore(s, p) /\ behind = Rear(s, p) /\ count = Len(s)
    BY DEF before, behind, count
  <1>3. /\ before \in Seq(Chars) /\ Len(before) = p
        /\ behind \in Seq(Chars) /\ Len(behind) = Len(s) - p /\ before \o behind = s
    BY <1>1, <1>2, CutIs, CutJoins
  <1>4. /\ back \in 0 .. MAX_CMD_HISTORY - 1 /\ (back = 0 <=> hist_index = entry_hist_index)
        /\ Back(entry_hist_index, back) = hist_index
        /\ Older = Back(entry_hist_index, back + 1)
        /\ Older # entry_hist_index => (entry_hist_index - Older) % MAX_CMD_HISTORY = back + 1
                                       /\ back + 1 <= MAX_CMD_HISTORY - 1
        /\ hist_index # entry_hist_index =>
             /\ Newer = Back(entry_hist_index, back - 1)
             /\ (entry_hist_index - Newer) % MAX_CMD_HISTORY = back - 1
             /\ (Newer = entry_hist_index <=> back = 1)
        /\ Older \in Slots /\ Newer \in Slots
    BY <1>1, DistanceIs, SlotIs DEF back, Older, Newer
  <1>5. CASE Call
    <2>1. reading' = TRUE /\ ~reading /\ Stays
      BY <1>5 DEF Call, Stays, lines, LineInv
    <2>2. LineInv' /\ before' = <<>> /\ behind' = <<>> /\ back' = 0
      BY <1>1, <1>5, EndsClear DEF Call, LineInv
    <2> QED
      BY <2>1, <2>2, LineBegins
  <1>6. CASE Up
    <2> DEFINE b == back + 1
    <2>1. reading /\ Older # entry_hist_index /\ item[Older] # <<>> /\ Show(Older)
      BY <1>6 DEF Up, MayGoUp
    <2>2. b \in 0 .. MAX_CMD_HISTORY - 1 /\ b # 0
      BY <1>4, <2>1
    <2>3. \A k \in 1 .. b : item[SlotBack(k)] # <<>>
      <3>1. SlotBack(b) = Older
        BY <1>4 DEF SlotBack, Back
      <3> HIDE DEF b
      <3>2. \A k \in 1 .. b : k = b \/ k \in 1 .. back
        BY <1>4, <2>2 DEF b
      <3> QED
        BY <1>1, <2>1, <3>1, <3>2
    <2> QED
      BY <1>4, <2>1, <2>2, <2>3, ShowWalks
  <1>7. CASE Down
    <2> DEFINE b == back - 1
    <2>1. /\ reading /\ hist_index # entry_hist_index /\ Show(Newer)
          /\ Newer = entry_hist_index => item[Newer] = <<>>
      BY <1>7 DEF Down, Careful
    <2>2. b \in 0 .. MAX_CMD_HISTORY - 1 /\ back = b + 1
      <3>1. back # 0 /\ back \in 0 .. MAX_CMD_HISTORY - 1 /\ MAX_CMD_HISTORY \in Nat
        BY <1>4, <2>1, LineEditorAssumption
      <3> QED
        BY ONLY <3>1
    <2>3. \A k \in 1 .. b : item[SlotBack(k)] # <<>>
      BY <1>1, <2>2
    <2>4. b = 0 => item[Newer] = <<>>
      BY <1>4, <2>1, <2>2
    <2>5. Newer = Back(entry_hist_index, b) /\ (entry_hist_index - Newer) % MAX_CMD_HISTORY = b
      BY <1>4, <2>1
    <2> HIDE DEF b
    <2> QED
      BY <1>4, <2>1, <2>2, <2>3, <2>4, <2>5, ShowWalks
  <1>8. CASE GiveUp
    <2>1. reading /\ hist_index = entry_hist_index /\ Return(NoLine, hist_index) /\ item' = item
      BY <1>8 DEF GiveUp, Careful
    <2>2. LineInv' /\ before' = <<>> /\ behind' = <<>> /\ back' = 0
      BY <1>1, <2>1, EndsClear DEF Return
    <2>3. lines' = lines /\ answer' = NoLine /\ reading' = FALSE
      BY <2>1 DEF lines, Return
    <2> QED
      BY <2>1, <2>2, <2>3, LineEnds
  <1>9. CASE Backspace
    <2> DEFINE cmd == Rubbed([cbuff |-> s, position |-> p])
    <2>1. reading /\ p \in 1 .. Len(s) /\ Change(cmd)
      BY <1>1, <1>9 DEF Backspace
    <2>2. /\ cmd.cbuff \in Seq(Chars) /\ Len(cmd.cbuff) = Len(s) - 1 /\ cmd.position = p - 1
          /\ cmd = [cbuff |-> cmd.cbuff, position |-> cmd.position]
          /\ \A i \in 1 .. Len(s) - 1 : cmd.cbuff[i] = IF i < p THEN s[i] ELSE s[i + 1]
      BY <1>1, <2>1, RubbedIsLine
    <2> HIDE DEF cmd
    <2>3. cmd.position \in 0 .. Len(cmd.cbuff) /\ Len(cmd.cbuff) < MAX_CMD_BUF
      BY <1>1, <2>1, <2>2, LineEditorAssumption
    <2>4. /\ LineInv' /\ reading' = reading /\ back' = back /\ Stays
          /\ before' = Fore(cmd.cbuff, p - 1) /\ behind' = Rear(cmd.cbuff, p - 1)
      BY <2>1, <2>2, <2>3, ChangeKeeps
    <2> DEFINE t == cmd.cbuff
    <2>5. Fore(t, p - 1) = SubSeq(before, 1, p - 1) /\ Rear(t, p - 1) = behind
      <3> HIDE DEF t
      <3>1. t \in Seq(Chars) /\ Len(t) = Len(s) - 1
            /\ \A i \in 1 .. Len(s) - 1 : t[i] = IF i < p THEN s[i] ELSE s[i + 1]
        BY <2>2 DEF t
      <3> QED
        BY <1>1, <1>2, <2>1, <3>1, CutRubbed
    <2>6. before # <<>> /\ Line!First(Len(before) - 1, before) = SubSeq(before, 1, p - 1)
      BY <1>3, <2>1 DEF Line!First
    <2> QED
      BY <2>1, <2>4, <2>5, <2>6, LineRubs
  <1>10. CASE Left
    <2> DEFINE cmd == [cbuff |-> s, position |-> p - 1]
    <2>1. reading /\ p \in 1 .. Len(s) /\ Change(cmd)
      BY <1>1, <1>10 DEF Left
    <2>2. /\ cmd.cbuff = s /\ cmd.position = p - 1
          /\ cmd = [cbuff |-> cmd.cbuff, position |-> cmd.position]
      OBVIOUS
    <2> HIDE DEF cmd
    <2>3. /\ LineInv' /\ reading' = reading /\ back' = back /\ Stays
          /\ before' = Fore(s, p - 1) /\ behind' = Rear(s, p - 1)
      <3>1. cmd.position \in 0 .. Len(cmd.cbuff)
        BY <1>1, <2>1, <2>2
      <3> QED
        BY <1>1, <2>1, <2>2, <3>1, ChangeKeeps
    <2>4. Fore(s, p - 1) = SubSeq(before, 1, p - 1) /\ Rear(s, p - 1) = <<before[p]>> \o behind
      BY <1>1, <1>2, <2>1, CutLeft
    <2>5. before # <<>> /\ Line!First(Len(before) - 1, before) = SubSeq(before, 1, p - 1)
      BY <1>3, <2>1 DEF Line!First
    <2> QED
      BY <1>3, <2>1, <2>3, <2>4, <2>5, LineGoesLeft
  <1>11. CASE Right
    <2> DEFINE cmd == [cbuff |-> s, position |-> p + 1]
    <2>1. reading /\ p \in 0 .. Len(s) - 1 /\ Change(cmd)
      BY <1>1, <1>11 DEF Right, count
    <2>2. /\ cmd.cbuff = s /\ cmd.position = p + 1
          /\ cmd = [cbuff |-> cmd.cbuff, position |-> cmd.position]
      OBVIOUS
    <2> HIDE DEF cmd
    <2>3. /\ LineInv' /\ reading' = reading /\ back' = back /\ Stays
          /\ before' = Fore(s, p + 1) /\ behind' = Rear(s, p + 1)
      <3>1. cmd.position \in 0 .. Len(cmd.cbuff)
        BY <1>1, <2>1, <2>2
      <3> QED
        BY <1>1, <2>1, <2>2, <3>1, ChangeKeeps
    <2>4. Fore(s, p + 1) = Append(before, Head(behind)) /\ Rear(s, p + 1) = Tail(behind)
      BY <1>1, <1>2, <2>1, CutRight
    <2>5. behind # <<>>
      BY <1>1, <1>3, <2>1
    <2> QED
      BY <2>1, <2>3, <2>4, <2>5, LineGoesRight
  <1>12. CASE \E c \in Chars : TypeKey(c)
    <2>1. PICK c \in Chars : TypeKey(c)
      BY <1>12
    <2> DEFINE cmd == Typed([cbuff |-> s, position |-> p], c)
    <2>2. reading /\ Len(s) + 1 < MAX_CMD_BUF /\ Change(cmd)
      BY <1>1, <1>2, <2>1 DEF TypeKey, Careful
    <2>3. /\ cmd.cbuff \in Seq(Chars) /\ Len(cmd.cbuff) = Len(s) + 1 /\ cmd.position = p + 1
          /\ cmd = [cbuff |-> cmd.cbuff, position |-> cmd.position]
          /\ \A i \in 1 .. Len(s) + 1 :
               cmd.cbuff[i] = IF i <= p THEN s[i] ELSE IF i = p + 1 THEN c ELSE s[i - 1]
      BY <1>1, TypedIsLine
    <2> HIDE DEF cmd
    <2>4. cmd.position \in 0 .. Len(cmd.cbuff) /\ Len(cmd.cbuff) < MAX_CMD_BUF
      BY <1>1, <2>2, <2>3
    <2>5. /\ LineInv' /\ reading' = reading /\ back' = back /\ Stays
          /\ before' = Fore(cmd.cbuff, p + 1) /\ behind' = Rear(cmd.cbuff, p + 1)
      BY <2>2, <2>3, <2>4, ChangeKeeps
    <2> DEFINE t == cmd.cbuff
    <2>6. Fore(t, p + 1) = Append(before, c) /\ Rear(t, p + 1) = behind
      <3> HIDE DEF t
      <3>1. t \in Seq(Chars) /\ Len(t) = Len(s) + 1
            /\ \A i \in 1 .. Len(s) + 1 :
                 t[i] = IF i <= p THEN s[i] ELSE IF i = p + 1 THEN c ELSE s[i - 1]
        BY <2>3 DEF t
      <3> QED
        BY <1>1, <1>2, <3>1, CutTyped
    <2> QED
      BY <2>2, <2>5, <2>6, LineTypes
  <1>13. CASE Enter
    <2>1. reading
      BY <1>13 DEF Enter
    <2>2. CASE Len(s) = 0
      <3>1. Return(NoLine, entry_hist_index) /\ item' = item
        BY <1>2, <1>13, <2>2 DEF Enter
      <3>2. LineInv' /\ before' = <<>> /\ behind' = <<>> /\ back' = 0
        BY <1>1, <3>1, EndsClear DEF Return
      <3>3. lines' = lines /\ answer' = NoLine /\ reading' = FALSE
        BY <3>1 DEF lines, Return
      <3> QED
        BY <2>1, <3>2, <3>3, LineEnds
    <2>3. CASE Len(s) # 0
      <3>1. /\ item' = [item EXCEPT ![entry_hist_index] = s]
            /\ Return(s, (entry_hist_index + 1) % MAX_CMD_HISTORY)
        BY <1>1, <1>2, <1>13, <2>3 DEF Enter
      <3>2. \A j \in Slots : Len(item'[j]) < MAX_CMD_BUF
        BY <1>1, <3>1
      <3>3. LineInv' /\ before' = <<>> /\ behind' = <<>> /\ back' = 0
        BY <1>1, <3>1, <3>2, EndsClear DEF Return
      <3>4. s # <<>>
        BY <2>3
      <3>5. lines' = Line!First(MAX_CMD_HISTORY - 1, <<s>> \o lines)
        BY <1>1, <3>1, <3>4, LineEntered DEF lines, Return
      <3>6. answer' = s /\ reading' = FALSE
        BY <3>1 DEF Return
      <3>7. /\ before \o behind # <<>> /\ answer' = before \o behind
            /\ lines' = Line!First(MAX_CMD_HISTORY - 1, <<before \o behind>> \o lines)
        BY <1>3, <3>4, <3>5, <3>6
      <3> QED
        BY <2>1, <3>3, <3>6, <3>7, LineEnds
    <2> QED
      BY <2>2, <2>3
  <1>14. CASE UNCHANGED vars
    <2>1. LineInv'
      BY <1>1, <1>14 DEF LineInv, vars, count, back, SlotBack
    <2>2. UNCHANGED Line!vars
      BY <1>14 DEF vars, Line!vars, count, Behind, SlotBack
    <2> QED
      BY <2>1, <2>2
  <1> QED
    BY <1>5, <1>6, <1>7, <1>8, <1>9, <1>10, <1>11, <1>12, <1>13, <1>14 DEF Next

\* new_history: an empty line, and no line behind it.
LEMMA InitIsLine == Init => LineInv /\ Line!Init
  <1> SUFFICES ASSUME Init PROVE LineInv /\ Line!Init
    OBVIOUS
  <1>1. TypeOK /\ Shape
    BY InitTypes
  <1>2. /\ item = [i \in Slots |-> <<>>] /\ hist_index = 0 /\ entry_hist_index = 0
        /\ tmp_cmd = NoCmd /\ reading = FALSE /\ answer = NoLine /\ 0 \in Slots
    BY LineEditorAssumption DEF Init, Slots
  <1>3. back = 0
    BY <1>2, DistanceIs DEF back
  <1>4. Len(<<>>) = 0 /\ <<>> \in Seq(Chars) /\ <<>> \in Seq(Seq(Chars)) /\ Len(<<>>) < MAX_CMD_BUF
    BY EmptySeq, LineEditorAssumption
  <1>5. LineInv
    BY <1>1, <1>2, <1>3, <1>4, NoCmdIsLine DEF LineInv, count
  <1>6. before = <<>> /\ behind = <<>>
    BY <1>2, <1>4, NoCmdIsLine, CutAtEnd DEF before, behind
  <1>7. lines = <<>>
    <2>1. /\ item \in [Slots -> Seq(Chars)] /\ MAX_CMD_HISTORY \in Nat \ {0}
          /\ Back(0, 1) \in Slots
      BY <1>1, <1>2, BackOther DEF TypeOK
    <2>2. item[Back(0, Len(<<>>) + 1)] = <<>>
      BY <1>2, <1>4, <2>1
    <2> DEFINE t == <<>>
    <2> HIDE DEF t
    <2>3. /\ t \in Seq(Seq(Chars)) /\ Len(t) <= MAX_CMD_HISTORY - 1
          /\ \A n \in 1 .. Len(t) : t[n] = item[Back(0, n)] /\ t[n] # <<>>
          /\ item[Back(0, Len(t) + 1)] = <<>>
      BY <1>4, <2>1, <2>2 DEF t
    <2>4. Lines(item, 0) = t
      BY <1>2, <2>1, <2>3, LinesAre
    <2> QED
      BY <1>2, <2>4 DEF lines, t
  <1>8. Line!Init
    BY <1>2, <1>3, <1>6, <1>7, LineIs DEF Line!Init
  <1> QED
    BY <1>5, <1>8

\* For lines and rings of every size: what a careful user types is a text with a
\* cursor, and the ring is the list of the lines entered last, newest first; no
\* key loses a character, and no line disappears or changes its place, whether the
\* ring is full or not (creadline).
THEOREM ImplementsInputLine == ASSUME Careful PROVE Spec => LineIsTyped
  <1>1. Careful
    OBVIOUS
  <1>2. LineInv /\ [Next]_vars => LineInv' /\ [Line!Next]_(Line!vars)
    BY <1>1, StepIsLine
  <1> QED
    BY <1>2, InitIsLine, PTL DEF Spec, LineIsTyped, Line!Spec
===============================================================================
