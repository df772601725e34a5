\* One call beside one probe, on a broker that never fails.
CONSTANTS
  c1 = c1
  c2 = c2
  p1 = p1
  Callers <- OneCaller
  Probes <- OneProbe
  MaxProbes = 1
  MaxFaults = 0
SPECIFICATION Spec
INVARIANTS CountedIsPublished
CHECK_DEADLOCK FALSE
