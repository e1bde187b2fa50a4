SPECIFICATION Spec

CONSTANTS
  Digit = {"0", "1"}
  Files <- MCFiles
  Typed <- MCTyped
  Counts = {0, 2}
  Layouts <- MCLayouts
  Registers = {1}
  MaxLen = 3
  MaxEdited = 1
  MaxCount = 2
  Unit = 1
  Slips = {}

VIEW EditorView

INVARIANTS
  TypeOK
  ScreenInStep

PROPERTIES
  ActsOnShown
  ActsToMotion
  CutIsKept
  TypedShows
