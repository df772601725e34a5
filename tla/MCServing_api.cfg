\* As many requests as threads and connections together, and a database error.
CONSTANTS
  r1 = r1
  r2 = r2
  r3 = r3
  r4 = r4
  NoOne = NoOne
  Requests <- FourRequests
  KindsOf <- OneOfEach
  Threads = 2
  PoolSize = 1
  MaxDbErrors = 1
SPECIFICATION FairSpec
INVARIANTS TypeOK AnswersTruthful CountedAsAnswered
PROPERTIES StarvesOnlyInACrowd EveryRequestAnswered
CHECK_DEADLOCK FALSE
