-------------------------------- MODULE Words --------------------------------
(***************************************************************************)
(* The motions by words (src/key_handler.c: word_move, word_move_back).    *)
(* They read the text Chunk bytes at a time and tell apart letters and     *)
(* digits, whitespace with what is not printed, and marks, all the rest.   *)
(***************************************************************************)
EXTENDS Integers, Sequences, FiniteSetsExt

CONSTANTS
  Chunk,    \* the bytes read at a time, 256 in the code
  MaxText,  \* bound: the length of the text
  None,     \* no address
  Slips     \* what the code gets wrong, see below

\* "last": e has no end of a word to find at the end of the text; "first": b
\* does not find a word that begins there; "near": b begins one byte too far
\* left, less than Chunk bytes from there; "lone": the last chunk is one byte,
\* and not looked at; "single": cw at the last letter of a word is about the
\* word that comes next.
AllSlips == {"last", "first", "near", "lone", "single"}

ASSUME WordsAssumption ==
  Chunk \in Nat \ {0, 1} /\ MaxText \in Nat /\ None \notin 0 .. MaxText /\ Slips \subseteq AllSlips

VARIABLES
  text,     \* the classes of the bytes
  cursor,   \* display_info.cursor_addr
  pressed,  \* the last motion, and whether it was one for c, d or y
  reached   \* the address given to place_cursor, None for a flash

vars == <<text, cursor, pressed, reached>>

Class == {"letter", "space", "mark"}
Key == {"w", "W", "e", "E", "b", "B"}

At(a) == text[a + 1]

\* bytes one behind the other are not of one word; "W", "E" and "B" require
\* whitespace in between
Parted(key, c, k) == c # k /\ (c = "space" \/ k = "space" \/ key \in {"w", "e", "b"})

\* a chunk of one byte is not looked at
Looked(n) == IF n % Chunk = 1 THEN n - 1 ELSE n

Forward == [i \in 1 .. Looked(Len(text) - cursor) |-> cursor + i - 1]

\* the first chunk ends with the cursor, unless it begins with the text
Backward ==
  LET top == IF cursor < Chunk - 1 THEN cursor - 1 ELSE cursor
  IN  [i \in 1 .. Looked(top + 1) |-> top + 1 - i]

\* faulty: at the end of a word, e and b stay there
StepInWord(key, st, a, second) ==
  IF st.found # None \/ ~Parted(key, st.char, At(a)) THEN st
  ELSE IF key \in {"w", "W"} /\ At(a) # "space" THEN [st EXCEPT !.found = a]
  ELSE IF key \in {"w", "W"} \/ st.char = "space" THEN [st EXCEPT !.char = At(a)]
  ELSE [st EXCEPT !.found = st.last]

\* One byte on: st is current_char and, once it is found, the address.  e and b
\* are past the word they look for when they see it, and start in another one
\* when the second byte is not of the first one's word.
Step(key, st, a, second) ==
  IF st.found # None \/ ~Parted(key, st.char, At(a)) THEN st
  ELSE IF key \in {"w", "W"} /\ At(a) # "space" THEN [st EXCEPT !.found = a]
  ELSE IF key \in {"w", "W"} \/ st.char = "space" \/ second THEN [st EXCEPT !.char = At(a)]
  ELSE [st EXCEPT !.found = st.last]

Walk(key, addrs) ==
  LET st[n \in DOMAIN addrs] ==
        IF n = 1 THEN [char |-> At(addrs[1]), found |-> None, last |-> addrs[1]]
        ELSE [Step(key, st[n - 1], addrs[n], n = 2) EXCEPT !.last = addrs[n]]
  IN  IF addrs = <<>> THEN None ELSE st[Len(addrs)].found

\* w is e for c, d and y
Effective(key, virtual) ==
  CASE virtual /\ key = "w" -> "e"
    [] virtual /\ key = "W" -> "E"
    [] OTHER -> key

WordMove(key) == Walk(key, IF key \in {"b", "B"} THEN Backward ELSE Forward)

(***************************************************************************)
(* Where the motions should end.                                           *)
(***************************************************************************)
Begins(key, a) == At(a) # "space" /\ (a = 0 \/ Parted(key, At(a - 1), At(a)))

Ends(key, a) == At(a) # "space" /\ (a = Len(text) - 1 \/ Parted(key, At(a), At(a + 1)))

Wanted(key, virtual) ==
  LET from == IF virtual /\ key \in {"w", "W"} /\ At(cursor) # "space" THEN cursor ELSE cursor + 1
      behind == from .. Len(text) - 1
      least(S) == IF S = {} THEN None ELSE Min(S)
      most(S) == IF S = {} THEN None ELSE Max(S)
  IN  CASE key \in {"b", "B"} -> most({a \in 0 .. cursor - 1 : Begins(key, a)})
        [] key \in {"w", "W"} /\ ~virtual -> least({a \in behind : Begins(key, a)})
        [] OTHER -> least({a \in behind : Ends(key, a)})

\* what the code gets wrong with a motion to an address
Met(key, virtual, to) ==
  LET back == key \in {"b", "B"}
      past == CASE back -> to - 1
                [] key \in {"w", "W"} /\ ~virtual -> to
                [] OTHER -> to + 1
      missed == IF back THEN 0 ELSE Len(text) - 1
  IN  {s \in AllSlips :
         CASE s = "last" -> ~back /\ past = Len(text)
           [] s = "first" -> back /\ to = 0
           [] s = "near" -> back /\ cursor < Chunk - 1
           [] s = "lone" -> past = missed /\ (IF back THEN cursor + 1 ELSE Len(text) - cursor) % Chunk = 1
           [] s = "single" -> to = cursor}

Press(key, virtual) ==
  LET want == Wanted(key, virtual)
  IN  /\ want # None => Met(key, virtual, want) \subseteq Slips
      /\ pressed' = [key |-> key, virtual |-> virtual]
      /\ reached' = WordMove(Effective(key, virtual))
      /\ cursor' = IF virtual \/ reached' = None THEN cursor ELSE reached'
      /\ UNCHANGED text

Init ==
  /\ text \in UNION {[1 .. n -> Class] : n \in 1 .. MaxText}
  /\ cursor \in 0 .. Len(text) - 1
  /\ pressed = [key |-> "w", virtual |-> FALSE] /\ reached = None

Next == \E key \in Key, virtual \in BOOLEAN : Press(key, virtual)

Spec == Init /\ [][Next]_vars

-----------------------------------------------------------------------------

\* w goes to where the next word begins, e to where one ends and b to where one
\* begins before the cursor, a word being letters or marks, or both for W, E and
\* B; cw, dw and yw end with the word at the cursor, and not with the whitespace
\* behind it; wherever the chunks end that the text is read in, and there is a
\* flash only where there is no such word (word_move, word_move_back).  But for
\* what the slips cut: e in the last word ("last"), b to the first ("first") or
\* less than Chunk bytes from the start ("near"), any motion that comes to a last
\* chunk of one byte ("lone"), and c, d or y on the last letter of a word
\* ("single").
ReachesWord ==
  [][reached' = Wanted(pressed'.key, pressed'.virtual)]_vars
=============================================================================
