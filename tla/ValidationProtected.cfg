SPECIFICATION MCSpec
CONSTANTS
  Clients = {c1, c2}
  Paths = {p1, p2}
  Texts = {old, new}
  Opaque = {binary}
  Writable = {}
  Excluded = {}
  Absent = Absent
  Git = Git
  None = None
  Original = old
  MaxExternal = 0
  MaxRepeats = 0
  MaxFaults = 0
  MaxEdits = 1
  MaxGit = 1
  MaxRescans = 0
SYMMETRY Symmetry
INVARIANTS
  ValidationProtected
CHECK_DEADLOCK FALSE
