------------------------------ MODULE MCSearch ------------------------------
(***************************************************************************)
(* Search on four bytes, one of them a special character.                 *)
(***************************************************************************)
EXTENDS Search

MCBytes == <<".", "a", "b", "c">>

Plain == {Literal("a"), Literal("b"), Literal("c")}
Rich == {Literal("a"), Literal("."), AnyByte, SetOf(<<"c", "a">>), NoneOf(<<"a">>),
         NoneOf(<<"b", "c">>), FromTo(2, 4), FromTo(4, 3)}

Elements(atoms) == [atom : atoms, wildcard : Wildcard]

\* up to two elements of every kind, three of plain letters
MCPatterns ==
  UNION {[1 .. n -> Elements(Rich)] : n \in 1 .. 2} \cup [1 .. 3 -> Elements(Plain)]

\* no patterns: a character where it means nothing; and strings that stop inside a
\* set, inside a range or behind a backslash
MCMistyped ==
  {<<"*">>, <<"a", "*", "+">>, <<"a", "]">>, <<"[", "]">>, <<"[", "a", ".", "]">>,
   <<"[", "-", "a", "]">>, <<"[", "a", "-", "]">>, <<"[", "[", "]">>, <<"^">>, <<"a", "-">>}
    \cup {<<"[">>, <<"[", "a">>, <<"[", "^", "a">>, <<"[", "a", "-">>,
          <<"[", "a", Escape, "]">>, <<Escape>>, <<"a", Escape>>}

MCBufs == [1 .. 4 -> Byte]
=============================================================================
