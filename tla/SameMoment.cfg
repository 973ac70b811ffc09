SPECIFICATION MCSpec
CONSTANTS
  Clients = {c1}
  Paths = {p1, p2}
  Texts = {old, new}
  Opaque = {}
  Writable = {}
  Excluded = {}
  Absent = Absent
  Git = Git
  None = None
  Original = old
  MaxExternal = 1
  MaxRepeats = 0
  MaxFaults = 0
  MaxEdits = 1
  MaxGit = 0
  MaxRescans = 0
SYMMETRY Symmetry
INVARIANTS
  SameMoment
CHECK_DEADLOCK FALSE
