------------------------------ MODULE Pattern ------------------------------
(***************************************************************************)
(* The compiler of search patterns (set_search_term of src/search.c): one  *)
(* pass over the characters typed, which yields a sequence of criteria,    *)
(* each a list of bytes and a wildcard.                                    *)
(*                                                                         *)
(* A character other than the special ones stands for a byte: one letter   *)
(* of an ASCII search, two digits of a hex search.                         *)
(***************************************************************************)
EXTENDS SequencesExt

CONSTANT Bytes  \* the bytes there are, in order; special characters may be among them

ASSUME PatternAssumption == IsInjective(Bytes)

Byte == Range(Bytes)

Escape == "esc"  \* the backslash

\* the characters after which set_search_term continues with the next one
Special == {Escape, ".", "?", "*", "+", "[", "]", "-", "^"}

Wildcard == {"ONE_ONLY", "NONE_OR_ONE", "NONE_OR_MORE", "ONE_OR_MORE"}

\* the locals of set_search_term; open when c is not NULL, which is then the
\* last criterion
NoPattern ==
  [criteria |-> <<>>, open |-> FALSE, escape |-> FALSE, buildset |-> FALSE,
   buildrange |-> FALSE, not |-> FALSE, failed |-> FALSE]

Fail(p) == [p EXCEPT !.failed = TRUE]

NewCriterion(p, range) ==
  [p EXCEPT !.criteria = Append(@, [range |-> range, wildcard |-> "ONE_ONLY"]), !.open = TRUE]

LastRange(p) == Last(p.criteria).range

SetRange(p, range) == [p EXCEPT !.criteria[Len(p.criteria)].range = range]

SetWildcard(p, wildcard) ==
  [p EXCEPT !.criteria[Len(p.criteria)].wildcard = wildcard, !.open = FALSE]

\* the bytes from value to the one before prev, as the two loops add them
RangeTo(prev, value) ==
  LET at(b) == CHOOSE i \in DOMAIN Bytes : Bytes[i] = b
  IN  IF at(value) > at(prev) THEN Reverse(SubSeq(Bytes, at(prev) + 1, at(value)))
                              ELSE SubSeq(Bytes, at(value), at(prev) - 1)

\* faulty: the inverted bytes are added to those there are; a set stays open
Inverted(range) == SelectSeq(Bytes, LAMBDA b : b \notin Range(range))
CloseSetAdding(p) ==
  LET closed == [p EXCEPT !.buildset = FALSE]
  IN  IF p.not THEN SetRange(closed, LastRange(p) \o Inverted(LastRange(p))) ELSE closed

CloseSet(p) ==
  LET closed == [p EXCEPT !.buildset = FALSE]
  IN  IF p.not THEN SetRange(closed, Inverted(LastRange(p))) ELSE closed

\* the switch over the special characters
SpecialChar(p, char) ==
  LET inSet == p.buildset \/ p.buildrange
      wild(w) == IF inSet \/ ~p.open THEN Fail(p) ELSE SetWildcard(p, w)
  IN  CASE char = Escape -> [p EXCEPT !.escape = TRUE]
        [] char = "." -> IF inSet THEN Fail(p) ELSE NewCriterion(p, Bytes)
        [] char = "?" -> wild("NONE_OR_ONE")
        [] char = "+" -> wild("ONE_OR_MORE")
        [] char = "*" -> wild("NONE_OR_MORE")
        [] char = "[" -> IF inSet THEN Fail(p)
                         ELSE NewCriterion([p EXCEPT !.buildset = TRUE], <<>>)
        [] char = "]" -> IF ~p.buildset \/ p.buildrange \/ LastRange(p) = <<>> THEN Fail(p)
                         ELSE CloseSet(p)
        [] char = "-" -> IF ~p.buildset \/ p.buildrange THEN Fail(p)
                         ELSE [p EXCEPT !.buildrange = TRUE]
        [] char = "^" -> IF ~p.buildset \/ p.buildrange THEN Fail(p)
                         ELSE [p EXCEPT !.not = TRUE]

\* a byte: the end of a range, one more of a set, or a criterion of its own
ByteChar(p, value) ==
  CASE p.buildrange /\ LastRange(p) = <<>> -> Fail(p)
    [] p.buildrange /\ LastRange(p) # <<>> ->
         [SetRange(p, LastRange(p) \o RangeTo(Last(LastRange(p)), value))
            EXCEPT !.buildrange = FALSE]
    [] ~p.buildrange /\ p.buildset -> SetRange(p, Append(LastRange(p), value))
    [] ~p.buildrange /\ ~p.buildset -> NewCriterion(p, <<value>>)

\* what is typed behind a backslash is taken for a byte
Char(p, char) ==
  CASE p.failed -> p
    [] ~p.failed /\ ~p.escape /\ char \in Special -> SpecialChar(p, char)
    [] OTHER -> ByteChar(p, char)

Compiled(chars) == FoldLeft(Char, NoPattern, chars)
============================================================================
