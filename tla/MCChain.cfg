CONSTANTS
  ingest = ingest
  api = api
  w1 = w1
  w2 = w2
  w3 = w3
  k1 = k1
  k2 = k2
  k3 = k3
  Processes = {ingest, api}
  Writers = {w1, w2, w3}
  ProcessOf <- TwoProcesses
  Keys = {k1, k2, k3}
  Keyed = TRUE
  Legacy <- OldRow
  MaxCalls = 2
  MaxOutages = 1
SPECIFICATION FairSpec
INVARIANTS ChainIntact AnswerIsStored TamperEvident
PROPERTIES ImplementsLog CallReturns
