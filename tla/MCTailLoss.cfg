SPECIFICATION Spec
CONSTANTS
  Events = {e1}
  OtherRecords = {}
  QueueSize = 1
  BatchSize = 2
  MaxBatches = 1
  HealthWriteMayFail = FALSE
  MaxReads = 1
  MaxFaults = 0
  MaxStops = 0
  MaxStarts = 1
INVARIANT NoSilentLoss
