SPECIFICATION HistorySpec
CONSTANTS
  Jobs = {j1, j2}
  Workers = {w1, w2}
  Clients = {c1, c2}
  NoJob = NoJob
  Results = {"SUCCESS", "OFFLINE"}
  Events = {}
  MaxFaults = 0
  MaxRetries = 2
CHECK_DEADLOCK FALSE
PROPERTY DeliveredStaysDelivered
SYMMETRY Symmetry
