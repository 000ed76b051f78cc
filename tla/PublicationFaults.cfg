SPECIFICATION HistorySpec
CONSTANTS
  Jobs = {j1, j2}
  Workers = {w1, w2}
  Clients = {c1}
  NoJob = NoJob
  Results = {"SUCCESS", "OFFLINE"}
  Events = {"delete_block", "delete_cashier", "redis_down", "mid_loop_failure", "worker_crash", "api_crash", "abandon"}
  MaxFaults = 1
  MaxRetries = 0
CHECK_DEADLOCK FALSE
SYMMETRY Symmetry
INVARIANT TypeOK
INVARIANT TruthfulPhase3
INVARIANT CountersNeverOverstate
INVARIANT NoLostWork
