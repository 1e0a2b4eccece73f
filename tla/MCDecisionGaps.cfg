CONSTANTS
  BehaviorRisks <- Boundary
  Models <- AllModels
  Specs <- OneSpec
  Outputs <- Answers
  Policies <- OnlyDenying
  DryRuns = {FALSE}
SPECIFICATION DecisionSpec
INVARIANTS Reconciles AdviceNeverRelaxes
CHECK_DEADLOCK FALSE
