SPECIFICATION MCSpec

CONSTANTS
  FileSize = 2
  InsertLen = {1, 2}
  ReplaceLen = {2}
  DeleteLen = {1}
  Count = {1, 2}
  MaxEdits = 3
  RunOn = FALSE
  InReplaced = FALSE

INVARIANTS
  TypeOK
  ReadersAgree
  BufferMatches
  UndoneAreNewest
  NoDanglingUndo
  ActiveIffApplied
  SizesAddUp
  UndoRedoRoundTrip

PROPERTIES
  IsEditBuffer
  IsLinearHistory

CHECK_DEADLOCK FALSE
