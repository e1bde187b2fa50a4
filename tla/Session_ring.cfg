SPECIFICATION Spec

CONSTANTS
  a = a
  b = b
  None = None
  NoName = NoName
  Closed = Closed
  Garbled = Garbled
  Node = {n1, n2, n3}
  Name = {a, b}
  EditId = {}
  OnDisk = {a}
  Argv <- BadArgv
  ReadOnly = {b}
  Unreadable = {b}
  Slips = {"twice"}

INVARIANTS
  RingLinked

PROPERTIES
  IsTabBar

SYMMETRY NodeSymmetry

CHECK_DEADLOCK FALSE
