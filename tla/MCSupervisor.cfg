SPECIFICATION FairSpec
CONSTANTS
  Threshold = 3
  Window = 7
  HealthyRuntime = 3
  InitialBackoff = 1
  MaximumBackoff = 3
  MaxConsecutive = 3
  Endings = {"clean", "failed"}
  Silent = FALSE
  MaxRuntime = 3
  MaxStops = 2
INVARIANTS DegradedExactly StopIsNotAFailure
PROPERTIES StopBeforeService GivenUp
