SPECIFICATION FairSpec
CONSTANTS
  exec = exec
  auth = auth
  Order <- Both
  Lossy <- Exec
  MaxSignals = 1
  MaxFaults = 1
INVARIANTS CollectorsToldToStop
PROPERTIES ServiceEnds AlertsCatchUp
CHECK_DEADLOCK FALSE
