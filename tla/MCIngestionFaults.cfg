SPECIFICATION Spec
CONSTANTS
  Events = {e1}
  OtherRecords = {}
  QueueSize = 1
  BatchSize = 2
  MaxBatches = 1
  HealthWriteMayFail = TRUE
  MaxReads = 1
  MaxFaults = 1
  MaxStops = 0
  MaxStarts = 1
INVARIANTS QuarantinedOnDisk ConsumerServes
