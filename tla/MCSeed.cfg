\* Two loaders, each with or without --force, a crash, a visitor.
CONSTANTS
  l1 = l1
  l2 = l2
  v = v
  Loaders <- TwoLoaders
  Visitor <- v
  VisitTypes <- Deliveries
  MaxVisits = 1
  MaxCrashes = 1
SPECIFICATION FairSpec
INVARIANTS TypeOK LoadersComplete HistoriesUnmixed
PROPERTIES EveryLoaderEnds
CHECK_DEADLOCK FALSE
