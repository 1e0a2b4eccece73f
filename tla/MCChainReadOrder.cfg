CONSTANTS
  ingest = ingest
  api = api
  w1 = w1
  w2 = w2
  w3 = w3
  k1 = k1
  k2 = k2
  k3 = k3
  Processes = {ingest}
  Writers = {w1, w2}
  ProcessOf <- OneProcess
  Keys = {k1}
  Keyed = FALSE
  Legacy <- NoRows
  MaxCalls = 2
  MaxOutages = 0
SPECIFICATION Spec
INVARIANTS ReadInChainOrder
