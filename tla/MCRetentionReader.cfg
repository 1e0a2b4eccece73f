CONSTANTS
  service = service
  timer = timer
  Runners = {service}
  OneShot = {}
  Cap = 8
  MaxAge = 0
  Batch = 2
  Schema = 1
  MaxEvents = 10
  MaxEvidence = 0
  MaxFailures = 0
  MaxWal = 16
SPECIFICATION RetentionSpec
PROPERTIES ReaderOnlyDefers
