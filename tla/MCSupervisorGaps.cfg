SPECIFICATION FairSpec
CONSTANTS
  Threshold = 3
  Window = 6
  HealthyRuntime = 3
  InitialBackoff = 1
  MaximumBackoff = 3
  MaxConsecutive = 3
  Endings = {"clean", "failed"}
  Silent = TRUE
  MaxRuntime = 3
  MaxStops = 1
INVARIANTS BackoffComesBack
PROPERTIES StopBeforeService
