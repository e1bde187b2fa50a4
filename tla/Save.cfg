SPECIFICATION SaveSpec

CONSTANTS
  FileSize = 5
  InsertLen = {1}
  ReplaceLen = {2}
  DeleteLen = {2}
  Count = {1}
  MaxEdits = 3
  RunOn = FALSE
  InReplaced = FALSE
  MaxSaveShift = 2
  SaveSlips = {}

PROPERTIES
  SaveWritesText

CHECK_DEADLOCK FALSE
