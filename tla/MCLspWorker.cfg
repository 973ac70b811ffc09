SPECIFICATION FairSpec
CONSTANTS
  Callers = {c1, c2}
  Uris = {u1}
  Texts = {a, b}
  None = None
  Capabilities <- MCCapabilities
  QueueCapacity = 1
  MaxFaults = 1
  MaxUnasked = 1
INVARIANTS
  WorkerInv
PROPERTIES
  ImplementsBackend
  NoAbandonedWork
  NeverStuck
CHECK_DEADLOCK FALSE
