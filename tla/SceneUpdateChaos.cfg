SPECIFICATION MCSpec
CONSTANTS
  x1 = x1
  x2 = x2
  cA = cA
  cB = cB
  f1 = f1
  NoContent = NoContent
  Executions = {x1, x2}
  Contents = {cA, cB, f1}
  PayloadOf <- MCPayloadOf
  Factory <- MCFactory
  ActiveRow = "bound"
  Twins = TRUE
  Events = {"overlap", "read_error", "resolve_error", "quiet_error", "timeout", "crash", "cancel", "record_error"}
  MaxLate = 1

  Sweeps = {w1, w2}
  Urls = {old, new}
  Target = new
  Gone = Gone
  NoCopy = NoCopy
  MaxSeconds = 2
  MaxCuts = 1

  Visits = {v1, v2}
  NoFile = NoFile
  Blank = Blank
  Torn = Torn
  MaxScenes = 1
  MaxLapses = 1
CHECK_DEADLOCK FALSE
CONSTRAINT Looked
INVARIANT TypeOK
INVARIANT ScenesHaveMedia
INVARIANT DeliveredIsShown
INVARIANT PlainlyShown
INVARIANT FarcardsHold
INVARIANT UpkeepHolds
SYMMETRY Alike
