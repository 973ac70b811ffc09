SPECIFICATION Spec
CONSTANTS
  Requests = {r1, r2, r3}
  Paths = {p, q}
  None = None
  MaxLog = 3
  Limit = 2
  Workloads <- MCWorkloads
SYMMETRY Symmetry
INVARIANTS
  LogFollowed
  OwnWritesNotExternal
  RunChangesSettled
CHECK_DEADLOCK FALSE
