\* Up to two devices of up to two functions on two buses; a disk that reads the
\* sector, reports an error, never gets ready, or loses its link.
CONSTANTS
  ScanSlots = 2
  HeaderCount = 3
  SpinLimit = 3
  BusCount = 2
  DeviceCount = 2
  SlotCount = 4
  FnCount = 2
  MaxDevices = 2
SPECIFICATION DiskSpec
CHECK_DEADLOCK FALSE
INVARIANTS
  FindsController
  HbaReachable
  TrueMeansRead
  NoLateTransfer
PROPERTIES
  MovedWhileStopped
  IssuedToReadyDevice
  DriverFinishes
