SPECIFICATION Spec

CONSTANTS
  Bytes <- MCBytes
  MaxMatch = 3
  Patterns <- MCPatterns
  Mistyped <- MCMistyped
  Bufs <- MCBufs
  Slips = {}

INVARIANTS
  TermMeans
  FindsShortest

CHECK_DEADLOCK FALSE
