SPECIFICATION Spec

CONSTANTS
  Sizes = {0, 1, 7}
  Lengths = {1, 2}
  Page = 3
  Margin = 2
  Polls = 2
  Slips = {}

INVARIANTS
  LandsNext
  DataAlive
  PercentInBox

PROPERTY SearchReturns
CHECK_DEADLOCK FALSE
