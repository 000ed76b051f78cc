SPECIFICATION Spec
CONSTANTS
  Assets = {a1, a2}
  Files = {f1, f2}
  Blocks = {b1, b2}
  Requests = {r1, r2}
  None = None
  MaxDispatches = 1
SYMMETRY Exchange
INVARIANTS
  TypeOK
  ActiveFilesKept
  LinkedAreActive
  NothingLeaks
CONSTRAINT FewMishaps
