\* Words of four hexadecimal digits of base 8; every vector of interest.
CONSTANTS
  HexBase = 8
  WordDigits = 4
  HalfDigits = 2
  ByteBits = 4
  Precision = 3
  DecCount = 2
  UnitBits = 6
  FloatBits = 8
  DoubleBits = 11
  Ascii <- Letters
  Alphabet <- Written
  Texts <- Strings
  Eip = 42
  ErrorCode = 7
  Vectors = {0, 2, 6, 8, 10, 11, 12, 13, 14, 17, 21, 29, 30, 31}
  Calls <- KernelCalls
SPECIFICATION ExcSpec
CHECK_DEADLOCK FALSE
INVARIANTS
  TakesWhatWasPassed
  ShowsWhatWasPassed
  ReportTells
PROPERTIES
  StaysHalted
  EndsHalted
