SPECIFICATION FairSpec
CONSTANTS
  Kinds = {"event", "other", "uncursored"}
  PipeSize = 1
  Interval = 1
  Losses = {"vacuum", "rebuild"}
  MaxEntries = 2
  MaxLosses = 1
  MaxFaults = 1
  MaxStops = 1
INVARIANTS NoSilentGap RereadBounded
PROPERTIES EveryEventRead
