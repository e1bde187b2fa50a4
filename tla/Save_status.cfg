SPECIFICATION Spec

CONSTANTS
  Sizes = {0, 1, 2}
  Chunks = 2
  EmptyFails = FALSE

INVARIANTS
  TypeOK
  JoinSees100

PROPERTIES
  ControlReturns
