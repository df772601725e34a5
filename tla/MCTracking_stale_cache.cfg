\* A reader warms the cache with a state from before the last scan.
CONSTANTS
  pp1 = pp1
  a1 = a1
  TrackingNumbers <- OneNumber
  ScanTypes <- ShortTypes
  MaxTime = 3
  Copies <- Once
  Readers <- OneReader
  Prefetch = 2
  NotifyMax = 1
  Faults <- NoFaults
  MaxFaults = 0
SPECIFICATION Spec
INVARIANTS CacheCatchesUp
CHECK_DEADLOCK FALSE
