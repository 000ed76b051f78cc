SPECIFICATION Spec
CONSTANTS
  i1 = i1
  i2 = i2
  i3 = i3
  w1 = w1
  w2 = w2
  w3 = w3
  b1 = b1
  b2 = b2
  Executions = {w1, w2, w3}
  InProcess = {}
  Branches = {b1, b2}
  BranchOf <- MCBranchOf
  GlobalMax = 2
  PerBranch = 1
  Events = {}
  MaxCrashes = 0
CHECK_DEADLOCK FALSE
INVARIANT BranchWithinLimit
