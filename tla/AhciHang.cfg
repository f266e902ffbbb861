\* The same instance: what is left when the link fails.
CONSTANTS
  ScanSlots = 2
  HeaderCount = 3
  SpinLimit = 3
SPECIFICATION Spec
CHECK_DEADLOCK FALSE
PROPERTIES
  ReturnsOnError
