\* The queue's promise without any restriction on when keys arrive.
CONSTANTS
  KEYQUEUE_SIZE = 3
  Keys = {a, b}
  NUL = NUL
  MaxU32 = 15
SPECIFICATION Spec
PROPERTIES
  FifoDespiteInterrupts
