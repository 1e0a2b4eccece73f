SPECIFICATION FairSpec
CONSTANTS
  Events = {e1}
  OtherRecords = {"unencodable", "garbage", "loss", "noncanonical"}
  QueueSize = 1
  BatchSize = 2
  MaxBatches = 1
  HealthWriteMayFail = TRUE
  MaxReads = 2
  MaxFaults = 1
  MaxStops = 1
  MaxStarts = 1
INVARIANTS Conservation AnalysedStored CountersMatchRows
PROPERTIES RunEnds
