SPECIFICATION FairSpec
CONSTANTS
  Runs = {r1, r2}
  None = None
  MaxActive = 2
INVARIANTS
  OneShell NoTreeOutlivesPermit CancelWins FinishedReply
PROPERTIES
  ImplementsLifecycle EveryRunEnds CancelKillsTree
CHECK_DEADLOCK FALSE
