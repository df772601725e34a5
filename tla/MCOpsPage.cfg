\* Two list requests and two submits in flight, three writes, a failed request.
CONSTANTS
  s1 = s1
  s2 = s2
  p1 = p1
  p2 = p2
  Lists <- TwoLists
  Posts <- TwoPosts
  MaxWrites = 3
  MaxFailures = 1
SPECIFICATION FairSpec
INVARIANTS TypeOK
PROPERTIES PageCatchesUp AnswersKeepUp
CHECK_DEADLOCK FALSE
