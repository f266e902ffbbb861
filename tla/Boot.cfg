\* Kernels smaller than, as large as and larger than what is read; CPU 0 and
\* another; every user: keys during the boot or not, replies or not.
CONSTANTS
  LapicIds = {0, 1}
  ScanBytes = {s}
  ReplyBytes = {r}
  NoByte = NoByte
  CountMod = 2
  KERNEL_SIZE = 2
  KernelSizes = {1, 2, 3}
SPECIFICATION BootSpec
CHECK_DEADLOCK FALSE
INVARIANTS
  ReadyForInterrupts
  EveryServiceEnds
  NoByteMissed
  DeadOnOtherCpu
  LinksWhatWasCompiled
  NoFailureMissed
  BlamedOrSlow
  StopsOnExcessOnly
  IncompleteHasCause
PROPERTIES
  DeafForever
  AbandonedForever
  ServesAll
  BuildEnds
