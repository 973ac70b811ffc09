SPECIFICATION MCSpec
CONSTANTS
  Clients = {c1, c2}
  Paths = {p1}
  Texts = {old, new}
  Opaque = {binary}
  Writable = {}
  Excluded = {}
  Absent = Absent
  Git = Git
  None = None
  Original = old
  MaxExternal = 1
  MaxRepeats = 1
  MaxFaults = 1
  MaxEdits = 1
  MaxGit = 1
  MaxRescans = 0
SYMMETRY Symmetry
INVARIANTS
  SnapshotDerived
  MutationsExclusive
PROPERTIES
  IndexChangeBumps
CHECK_DEADLOCK FALSE
