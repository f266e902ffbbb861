\* The clock with a keyboard that may reply.
CONSTANTS
  LapicIds = {0}
  ScanBytes = {s}
  ReplyBytes = {r}
  NoByte = NoByte
  CountMod = 2
SPECIFICATION Spec
PROPERTIES
  ClockNeverStops
