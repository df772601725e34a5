\* Two calls and one probe, a fault.
CONSTANTS
  c1 = c1
  c2 = c2
  p1 = p1
  Callers <- TwoCallers
  Probes <- OneProbe
  MaxProbes = 1
  MaxFaults = 1
SPECIFICATION FairSpec
INVARIANTS TypeOK HealthyDelivers
PROPERTIES ImplementsContract RetryReconnects EveryoneEnds
CHECK_DEADLOCK FALSE
