----------------------------- MODULE MCSession -----------------------------
(***************************************************************************)
(* Session on small sets of files.                                         *)
(***************************************************************************)
EXTENDS Session, TLC

CONSTANTS a, b  \* two names

OneArgv == <<a>>
BadArgv == <<b, a>>
LastArgv == <<b>>

\* Next and the properties treat the elements of the ring alike.
NodeSymmetry == Permutations(Node)
============================================================================
