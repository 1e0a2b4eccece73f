SPECIFICATION FairSpec
CONSTANTS
  exec = exec
  auth = auth
  Order <- Both
  Lossy <- Exec
  MaxSignals = 1
  MaxFaults = 1
INVARIANTS DegradedIsSeen
PROPERTIES BrokenStaysReported EachAlertIsLogged SignalEnds LossStaysInForce
CHECK_DEADLOCK FALSE
