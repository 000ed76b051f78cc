SPECIFICATION HistorySpec
CONSTANTS
  Jobs = {j1, j2}
  Workers = {w1, w2}
  Clients = {c1}
  NoJob = NoJob
  Results = {"SUCCESS", "OFFLINE"}
  Events = {}
  MaxFaults = 0
  MaxRetries = 0
CHECK_DEADLOCK FALSE
SYMMETRY Symmetry
INVARIANT QuiescentBatchFinal
