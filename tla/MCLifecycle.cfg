SPECIFICATION MCSpec
CONSTANTS
  m1 = m1
  m2 = m2
  m3 = m3
  o1 = o1
  o2 = o2
  quiet = quiet
  clean = clean
  noisy = noisy
  Models <- MCModels
  Operators <- MCOperators
  Counts <- MCCounts
  Passing <- MCPassing
  ReadLimit = 4
  MaxRows = 9
INVARIANTS ActiveIsRecorded ActivationIsMeasured
SYMMETRY Interchangeable
CHECK_DEADLOCK FALSE
