\* Two overlapping requests, explicit times, failures and crashes.
CONSTANTS
  pp1 = pp1
  pp2 = pp2
  r1 = r1
  r2 = r2
  TrackingNumbers <- OneNumber
  Requests <- TwoThreads
  ScanTypes <- ShortTypes
  ClientTimes <- BackDated
  MaxTime = 4
  Copies <- NoneOrTwice
SPECIFICATION Spec
INVARIANTS TypeOK RequestsSound StatusExplained EventsTruthful DeliveryIsPrepared
PROPERTIES HistoryOnlyGrows TerminalUnlessStale EtaUnlessStale
SYMMETRY Interchangeable
CHECK_DEADLOCK FALSE
