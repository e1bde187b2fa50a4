SPECIFICATION Spec

CONSTANTS
  a = a
  b = b
  None = None
  NoName = NoName
  Closed = Closed
  Garbled = Garbled
  Node = {n1, n2}
  Name = {a, b}
  EditId = {e1, e2}
  OnDisk = {b}
  Argv <- LastArgv
  ReadOnly = {b}
  Unreadable = {}
  Slips = {}

INVARIANTS
  TypeOK
  InSync
  StaleScreenIsClean
  ShowsDisk
  AllSaved

PROPERTIES
  OthersKeepUnsaved

SYMMETRY NodeSymmetry

CHECK_DEADLOCK FALSE
