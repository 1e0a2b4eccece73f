SPECIFICATION RetentionFairSpec
CONSTANTS
  service = service
  timer = timer
  Runners = {service}
  OneShot = {}
  Cap = 4
  MaxAge = 1
  Batch = 2
  Schema = 1
  MaxEvents = 5
  MaxEvidence = 1
  MaxFailures = 1
  MaxWal = 3
INVARIANTS EveryActionLogged
PROPERTIES KeepsTarget BudgetComesBack
