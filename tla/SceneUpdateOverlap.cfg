SPECIFICATION Spec
CONSTANTS
  x1 = x1
  x2 = x2
  cA = cA
  cB = cB
  f1 = f1
  NoContent = NoContent
  Executions = {x1, x2}
  Contents = {cA, cB, f1}
  PayloadOf <- MCPayloadOf
  Factory <- MCFactory
  ActiveRow = "bound"
  Twins = TRUE
  Events = {"overlap"}
  MaxLate = 1
CHECK_DEADLOCK FALSE
INVARIANT LastPublishedIsShown
