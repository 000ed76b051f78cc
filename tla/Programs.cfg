SPECIFICATION Spec
CONSTANTS
  FailThreshold = 3
  RecoveryThreshold = 2
  Handlers = {h1, h2}
  MaxCalls = 3
  MaxMishaps = 2

  Runs = {r1, r2}
  Files = {file}
  k1 = k1
  k3 = k3
  Contents = {k1, k3}
  Sizes = {1, 2}
  SizeOf <- MCSizeOf
  Nothing = Nothing
  MaxErrors = 2
  MaxPuts = 2

  Cashboxes = {c1, c2}
  Groups = {g1, g2}
  Playlists = {p1}
  Sessions = {s1, s2}
  None = None
  MaxVersions = 2
  MaxWrites = 3

  Cashiers = {q1}
  Branches = {n1, n2}
  Regions = {o1, o2}
  f1 = f1
  f2 = f2
  m1 = m1
  m2 = m2
  Blocks = {f1, f2, m1, m2}
  AreaOf <- MCAreaOf
  Jobs = {j1, j2}
  Apis = {api1, api2}
  NoBlock = NoBlock
  MaxTurns = 2

  Templates = {t1, t2}
  Editors = {e1, e2}
  a1 = a1
  a2 = a2
  Assets = {a1, a2}
  Choices <- MCChoices
  MaxEdits = 2

  Ids = {main, u1}
  Chats = {main, u1}
  Main = main
  Doors = {d1}
  MaxUpdates = 2

  Desks = {desk}
  Operators = {w1, w2}
  MaxCommands = 2
CONSTRAINT Looked
INVARIANTS
  FlagTells
  ScriptTells
  DesiredIsAssigned
  RowsHold
  EditsHold
  BotIsTrue
  RestartsRenew
PROPERTIES
  TakesOver
  StandsDown
CHECK_DEADLOCK FALSE
