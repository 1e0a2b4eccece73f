SPECIFICATION PatientSpec
CONSTANTS
  Kinds = {"event"}
  PipeSize = 1
  Interval = 0
  Losses = {"vacuum", "rebuild", "atOpen"}
  MaxEntries = 3
  MaxLosses = 1
  MaxFaults = 0
  MaxStops = 1
INVARIANTS NothingSkipped LossReported NoBlackout
PROPERTIES StopEndsCollector
