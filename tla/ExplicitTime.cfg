\* Milliseconds of three limbs of 10, 333 seconds of 3 ms and one left over; 256
\* ticks of which -3 .. 7 s can be told; integers of 49 and of enough. A call
\* whose UUID was read is over, so no deadlock check.
CONSTANTS
  MsPerSec = 3
  MicrosPerMs = 4
  TicksPerMicro = 2
  SubSlots = 5
  Limb = 10
  LowSpan = 16
  MidSpan = 4
  HiSpan = 4
  EpochSecs = 3
  SecGuard = 12
  WordMax = 390
  Base = 3
  IntMaxes = {49, 1100}
  WideIntMax = 1100
  Seconds <- EverySecond
  Millis <- EveryMilli
SPECIFICATION Spec
INVARIANTS
  TypeOK
  RefusedOutOfRange
  ReadsBack
  WordsSuffice
  SortsByTime
CHECK_DEADLOCK FALSE
