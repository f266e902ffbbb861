\* All calls, interrupted anywhere.
CONSTANTS
  VIDEO_ROW_LEN = 4
  VIDEO_COL_LEN = 3
  Burst = 2
  MaxDigits = 3
  U32 = 88
  U8 = 16
  Calls <- All
SPECIFICATION Spec
INVARIANTS
  RestOnPage
  WritesOnPage
  LineStaysNear
PROPERTIES
  PrintingMends
