SPECIFICATION Spec
CONSTANTS
  Builders = {x1, x2}
  BuildSpecs = {s1}
  InputVersions = {s1, s2}
  MaxBuildFaults = 1
  MaxBuilds = 2
  Readers = {x1, x2}
  Archives = {v1, v2}
  MaxCacheFaults = 2
  MaxReads = 3
  Analyses = {x1, x2}
  SourceVersions = {v1, v2}
  MaxSourceEdits = 2
  MaxScratchFaults = 2
  Wrappers = {x1, x2}
  Projects = {j1, j2}
  Operations = {n1, n2}
  MaxExportFaults = 2
  DetailSets <- MCDetailSets
  PageLimits = {4, 5, 6, 8}
  Envelope = 2
  MaxRecordBytes = 3
  MaxArtifactRecords = 4
  MaxArtifactBytes = 7
  MaxPageFaults = 2
  MaxPages = 6
  Candidates = {"parent", "child"}
  Parents <- MCParents
  Labels = {"mod"}
  SnapshotIds = {i1}
  MaxAge = 1
  MaxTime = 2
  EventTypes = {"INSTALL_VALIDATED"}
  MaxEvents = 2
  MaxSnapshots = 2
  NoCandidate = NoCandidate
  ModFiles = {1, 2, 3}
  ModPaks = {2, 3}
  FileLimits = {2, 3, 4}
  ByteLimits = {4, 9}
  EntryLimits = {1, 2}
  MaxFolderEdits = 2
  Documents <- MCDocuments
  NoKey = NoKey
  PartialKeys = {"half"}
  Providers = {x1, x2}
  Layers = {x1, x2}
  Bases = {"active_snapshot", "direct_exact_scan", "hybrid"}
  MaxEvidenceChanges = 2
  Nobody = Nobody
  GraphSources <- MCGraphSources
  RecordKeys = {"a", "b"}
  MaxGraphFlaws = 2
  StateValues = {0, 1}
  MaxMarkers = 6
  MaxDrops = 1
  DefinitionIds = {1, 2}
  Roots = {1, 2}
  MaxCatalogAge = 1
  MaxClock = 2
  MaxSourceChanges = 2
  TextProviders = {x1, x2}
  NoTextProvider = "none"
  MaxWorldMoves = 1
  PresetTables <- MCPresetTables
  Item = 0
  Depths = {1, 2}
  NodeLimits = {3, 6}
  BuildsMade <- MCBuildsMade
  CandidateArtifact = "a"
  MaxWrites = 2
  MaxReceiptEdits = 1
  MaxPlanEdits = 1
  Targets = {g1, g2}
  Refreshed = g1
  Observations = {x1, x2, o3}
  MaxRebuilds = 1
  MemberPaths = {x1, x2}
  MaxDeclared = 2
  MaxMemberEdits = 2
SYMMETRY Twins
CHECK_DEADLOCK FALSE
INVARIANTS BuildsTrue AnalysesTrue CutsRecognised WinnersTrue ClaimsRest InstalledIsReviewed
