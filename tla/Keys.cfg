SPECIFICATION Spec

CONSTANTS
  Letters = {"w", "e"}
  Digits = {"1"}
  Capacity = 3
  Long = 4
  Short = 2
  MaxKeys <- MCMaxKeys
  NoMacro = "-"
  Slips = {}

INVARIANTS
  TypeOK
  MacroReplays

PROPERTY
  PlaybackEnds
