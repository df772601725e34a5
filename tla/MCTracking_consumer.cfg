\* The queue and the consumer: duplicates, requeues, lost connections, crashes.
CONSTANTS
  pp1 = pp1
  a1 = a1
  TrackingNumbers <- OneNumber
  ScanTypes <- RoadTypes
  MaxTime = 4
  Copies <- OnceOrTwice
  Readers <- NoReader
  Prefetch = 2
  NotifyMax = 1
  Faults <- ConsumerFaults
  MaxFaults = 2
SPECIFICATION FairSpec
INVARIANTS TypeOK ReadModelIsReal TimelineSorted NothingTwice HeadlineIsNewest AckedIsApplied OneTrueMail MailUnlessWarmed
PROPERTIES HeadlineNeverRewinds EventuallyApplied
CHECK_DEADLOCK FALSE
