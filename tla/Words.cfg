SPECIFICATION Spec

CONSTANTS
  Chunk = 4
  MaxText = 7
  None = None
  Slips = {}

PROPERTY
  ReachesWord

CHECK_DEADLOCK FALSE
