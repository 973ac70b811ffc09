SPECIFICATION MCFairSpec
CONSTANTS
  Clients = {c1, c2}
  Paths = {p1}
  Texts = {old, new}
  Opaque = {binary}
  Writable = {}
  Excluded = {}
  Absent = Absent
  Git = Git
  None = None
  Original = old
  MaxExternal = 1
  MaxRepeats = 0
  MaxFaults = 1
  MaxEdits = 1
  MaxGit = 0
  MaxRescans = 1
PROPERTIES
  IndexConverges
  EveryRequestReturns
CHECK_DEADLOCK FALSE
