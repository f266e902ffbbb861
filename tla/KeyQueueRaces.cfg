\* Interrupts at every instruction of the main loop.
CONSTANTS
  KEYQUEUE_SIZE = 3
  Keys = {a, b}
  NUL = NUL
  MaxU32 = 15
SPECIFICATION Spec
INVARIANTS
  TypeOK
  ReadsInBounds
  TestStaysGood
PROPERTIES
  HarmlessPush
  Drains
