SPECIFICATION MCSpec
CONSTANTS
  Clients = {c1}
  Paths = {p1, p2}
  Texts = {old, new}
  Opaque = {binary, large}
  Writable = {large}
  Excluded = {p2}
  Absent = Absent
  Git = Git
  None = None
  Original = old
  MaxExternal = 1
  MaxRepeats = 0
  MaxFaults = 2
  MaxEdits = 1
  MaxGit = 0
  MaxRescans = 0
SYMMETRY Symmetry
INVARIANTS
  DivergenceTracked
  CompensationRestores
  CommittedIndexed
PROPERTIES
  OverwriteOnlyRaces
CHECK_DEADLOCK FALSE
