\* Readers that miss and warm the cache while the consumer writes it.
CONSTANTS
  pp1 = pp1
  a1 = a1
  TrackingNumbers <- OneNumber
  ScanTypes <- ShortTypes
  MaxTime = 3
  Copies <- OnceOrTwice
  Readers <- OneReader
  Prefetch = 2
  NotifyMax = 1
  Faults <- ReaderFaults
  MaxFaults = 1
SPECIFICATION FairSpec
INVARIANTS ReadModelIsReal MailUnlessWarmed FeedIsMailed
PROPERTIES ReadersAnswered
CHECK_DEADLOCK FALSE
