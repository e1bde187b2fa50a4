------------------------------ MODULE MCEditor ------------------------------
(***************************************************************************)
(* The keys on a text of up to three bytes and pages of one or two lines.  *)
(***************************************************************************)
EXTENDS Editor

\* two bytes, the digits of one being the same
a == <<"0", "1">>
b == <<"1", "1">>

MCFiles == {<<a, b>>, <<a, b, b>>}
\* Both bytes in the window of the characters, one by its digits; keys that are
\* refused, a digit rubbed out and typed again.
MCTyped ==
  {[window |-> "ascii", keys |-> <<Rub, b, a>>],
   [window |-> "hex", keys |-> <<<<"0">>, Rub, a, <<"1">>, <<"1">>, Rub, <<"1">>>>]}

\* with the slips "half", and "back"
MCTypedAmiss ==
  {[window |-> "hex", keys |-> <<<<"0">>, <<"1">>, Rub, <<"1">>>>],
   [window |-> "ascii", keys |-> <<b, a, Rub>>]}

\* a line of 2 bytes, and 2 lines of one, though two would fit
MCLayouts == {<<6, 21, 0>>, <<7, 21, 1>>}

\* The last key decides nothing.  The statics of get_next_motion_addr do only
\* where they are used again: otherwise they are cleared first.
EditorView ==
  <<versions, pos, d, yank, register, IF "again" \in Slips THEN motion ELSE <<>>>>
=============================================================================
