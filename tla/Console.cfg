\* A page of nine cells and numbers of up to a line.
CONSTANTS
  VIDEO_ROW_LEN = 3
  VIDEO_COL_LEN = 3
  a = a
  b = b
  Chars = {a, b}
  Blank = Blank
  Numbers <- Digits
SPECIFICATION Spec
INVARIANTS
  TypeOK
PROPERTIES
  ShowsTerminal
