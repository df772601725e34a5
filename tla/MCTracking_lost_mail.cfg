\* A reader warms the cache with the delivery before the consumer handles it.
CONSTANTS
  pp1 = pp1
  a1 = a1
  TrackingNumbers <- OneNumber
  ScanTypes <- ShortTypes
  MaxTime = 3
  Copies <- Once
  Readers <- OneReader
  Prefetch = 2
  NotifyMax = 1
  Faults <- NoFaults
  MaxFaults = 0
SPECIFICATION Spec
INVARIANTS DeliveryIsMailed
CHECK_DEADLOCK FALSE
