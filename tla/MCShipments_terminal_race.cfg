\* Two overlapping scan requests against "DELIVERED: set(),  # terminal".
CONSTANTS
  pp1 = pp1
  pp2 = pp2
  r1 = r1
  r2 = r2
  TrackingNumbers <- OneNumber
  Requests <- TwoThreads
  ScanTypes <- ShortTypes
  ClientTimes <- NoTimes
  MaxTime = 4
  Copies <- AtMostOnce
SPECIFICATION Spec
PROPERTIES TerminalIsFinal
CHECK_DEADLOCK FALSE
