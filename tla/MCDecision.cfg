CONSTANTS
  BehaviorRisks <- Boundary
  Models <- AllModels
  Specs <- OneSpec
  Outputs <- Answers
  Policies <- OnlyDefault
  DryRuns = {TRUE, FALSE}
SPECIFICATION DecisionSpec
INVARIANTS ReconcilesWithoutModel BoundariesExplain ControlAdviceIsReviewed
CHECK_DEADLOCK FALSE
