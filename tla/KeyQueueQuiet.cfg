\* No interrupt in the three windows of pop_key_queue.
CONSTANTS
  KEYQUEUE_SIZE = 3
  Keys = {a, b}
  NUL = NUL
  MaxU32 = 15
SPECIFICATION QuietSpec
PROPERTIES
  RefinesFifo
