------------------------------- MODULE MCKeys -------------------------------
(***************************************************************************)
(* Two macros: a longer one, and one to play in between.                   *)
(***************************************************************************)
EXTENDS Keys

CONSTANTS Long, Short   \* bounds: the keys of each macro

MCMaxKeys == [w |-> Long, e |-> Short]
=============================================================================
