SPECIFICATION FairHistorySpec
CONSTANTS
  Jobs = {j1, j2}
  Workers = {w1, w2}
  Clients = {c1, c2}
  NoJob = NoJob
  Results = {"SUCCESS", "OFFLINE"}
  Events = {"redis_down"}
  MaxFaults = 0
  MaxRetries = 2
CHECK_DEADLOCK FALSE
INVARIANT SingleDelivery
INVARIANT QuiescentBatchExact
INVARIANT BatchVerdictJustified
INVARIANT NoLostWork
PROPERTY DeliveredNotReprocessed
PROPERTY ImplementsLifecycle
PROPERTY EventuallyFinal
