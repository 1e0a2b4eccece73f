CONSTANTS
  service = service
  timer = timer
  Runners = {service, timer}
  OneShot = {timer}
  Cap = 4
  MaxAge = 1
  Batch = 2
  Schema = 1
  MaxEvents = 6
  MaxEvidence = 0
  MaxFailures = 0
  MaxWal = 0
SPECIFICATION RetentionSpec
PROPERTIES OverlapIsSafe SizeIsTheBackstop
