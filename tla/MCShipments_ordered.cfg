\* Overlapping requests on different shipments, in order on each: EventStream's contract.
CONSTANTS
  pp1 = pp1
  pp2 = pp2
  r1 = r1
  r2 = r2
  TrackingNumbers <- TwoNumbers
  Requests <- TwoThreads
  ScanTypes <- OrderedTypes
  ClientTimes <- ChosenTimes
  MaxTime = 4
  Copies <- NoneOrTwice
SPECIFICATION OrderedSpec
PROPERTIES ImplementsStream
SYMMETRY Interchangeable
CHECK_DEADLOCK FALSE
