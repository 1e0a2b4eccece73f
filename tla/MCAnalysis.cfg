CONSTANTS
  fast = fast
  slow = slow
  Consumers = {fast, slow}
  Batches <- Traffic
  UnitOrder <- OneUnit
  EntityOrder <- Names
  Width = 2
  BreachNeeded = 2
  ClearNeeded = 2
  LoopThreshold = 2
  LoopWindow = 3
  MaxCalls = 3
  MaxRaises = 1
  MaxRestarts = 1
SPECIFICATION Spec
INVARIANTS ActiveExactly InForceIsStored SustainedOnly DispositionComplete
