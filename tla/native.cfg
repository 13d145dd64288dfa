SPECIFICATION Spec
CONSTANTS
  ApprovalIds = {x1, x2}
  MaxDeclaredIds = 15
  MaxReceipts = 15
  NoApproval = NoApproval
  Families = {x1, x2}
  Sizes = {1, 2, 4}
  EndSize = 2
  MaxRecords = 2
  MaxLineBytes = 3
  MaxTotalBytes = 6
  ReaderRecords = 4
  MaxLines = 3
  MaxDamage = 2
  Limit <- MCLimit
  IntegerMax = 4
  EventNames = {x1, x2}
  Measures = {1, 2}
  MaxCalls = 4
  MaxProbeFlaws = 1
  Assertions = {1, 2}
  Sources = {x1, x2}
  Deployments = {x1, x2}
  SessionIds = {x1, x2}
  Contents <- MCContents
  ResponseBytes = 4
  MaxAnswerPages = 2
  RecordFamilies = {x1, x2}
  Places = {0}
  LogEvents = {x1, x2, e}
  MaxDocumentEdits = 2
  CodeLength = 5
  LastBytes = {"plain", "jump"}
  SectionBytes = 3
  Locks <- MCLocks
  Sourcecodes = {x1, x2}
  ModuleVersions = {x1, x2}
  MaxProjectEdits = 2
  Projects = {x1, x2}
  MaxActivations = 2
  MaxStackFlaws = 2
  Subjects = {x1, x2}
  Cases = {x1, x2}
  MaxEdits = 1
  MaxBuilds = 1
  Tasks = {tk, x1, x2}
  ReleaseTask = tk
  PortfolioProjects = {p1}
  MaxLogLines = 4
  MaxWritten = 5
  MaxWorldChanges = 4
SYMMETRY Twins
CHECK_DEADLOCK FALSE
INVARIANTS ExperimentsAccounted StreamAccounted ProbeVerdictsEarned RecordsOfOneMoment ProbesAsDeclared AcceptedAsPlayed ReleasedWhole StateOfOneBoot
