SPECIFICATION Spec

CONSTANTS
  Chars = {"a", "b"}
  MAX_CMD_BUF = 4
  MAX_CMD_HISTORY = 3
  NoLine = NoLine
  Unterminated = Unterminated
  Slips = {}

VIEW LineView

INVARIANT
  TypeOK

PROPERTY
  LineIsTyped
