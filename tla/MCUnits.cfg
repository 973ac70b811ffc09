SPECIFICATION Spec
CONSTANTS
  \* RunTable
  Runs = {r1, r2, r3, r4, r5}
  Retain = 2
  MaxActive = 2
  \* RunOutput
  OutputLoads <- MCLoads
  OutputLimit = 2
  PageChars = 1
  NoToken = NoToken
  \* CodeIndex
  Paths <- MCPaths
  Below <- MCBelow
  SourceTexts = {"t1", "t2"}
  Names = {"n", "m"}
  SymbolsOf <- MCSymbolsOf
  Settings = {"s1", "s2"}
  Excluded <- MCExcluded
  GitIgnored = {"d/f", "g"}
  Artifacts <- MCArtifacts
  Nothing = Nothing
  MaxChanges = 3
  \* CodeIntelligence
  Callers = {q1}
  Uris = {u1, u2}
  Texts = {a, b}
  None = None
  MaxWrites = 2
  \* EditPlan
  EditPaths = {"p", "q"}
  EditJobs <- MCEditJobs
  Absent = Absent
  \* Retrieval
  NumPaths = 2
  FileTexts <- MCFileTexts
  NewLine = "NL"
  CharWidth <- MCCharWidth
  Role <- MCRole
  Calls <- MCCalls
  PerFile = 2
  PerWindow = 2
  RefsPerFile = 2
  PageSizes = {2}
  NoRole = "none"
  Nil = Nil
  MaxIndexChanges = 2
  \* LspEdits
  Documents <- MCDocuments
  Units <- MCUnitsOf
  LineEnd = "NL"
  MaxLine = 2
  MaxColumn = 4
  MaxEdits = 2
  Invalid = Invalid
  Pending = Pending
INVARIANTS
  EvictionSound
  ChunksInvisible OutputFaithful
  IndexSound Caught
  SessionInv
  PlanSound NoBlindOverwrite ChangesConfined
  ReadsFaithful SearchFair OneAnswerEach
  PositionsFaithful EditsSimultaneous
CHECK_DEADLOCK FALSE
