SPECIFICATION Spec
CONSTANTS
  m1 = m1  m2 = m2  m3 = m3
  n1 = n1  n2 = n2
  c1 = c1  c2 = c2
  Deployments = {d1, d2}
  Configs = {c1, c2}
  Media = {m1, m2, m3}
  Names = {n1, n2}
  NameOf <- TwoNames
  Playlist <- ThreeVersions
  AtFirst <- FirstOnes
  None = None
  MaxFaults = 1
INVARIANTS
  DeployTypeOK
  ShownFilesExist
  DoneIsShown
  FailureLeavesScenes
  VersionIsShown
SYMMETRY TwoAlike
CONSTRAINT InOrder
CHECK_DEADLOCK FALSE
