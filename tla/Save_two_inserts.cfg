SPECIFICATION SaveSpec

CONSTANTS
  FileSize = 3
  InsertLen = {1}
  ReplaceLen = {}
  DeleteLen = {}
  Count = {1}
  MaxEdits = 2
  RunOn = FALSE
  InReplaced = FALSE
  MaxSaveShift = 9
  SaveSlips = {"pending"}

PROPERTIES
  SaveWritesText

CHECK_DEADLOCK FALSE
