CONSTANTS
  Idle = 4
  Lag = 1
  Base = 2
  HandshakeHeader = 2
  RecordHeader = 2
  MaxHandshake = 2
  MaxRecord = 2
  PayloadBytes = {1}
  MaxRecords = 2
  MaxStream = 7
  Commands = {"key1", "key2", "report1", "report2"}
  Earlier = {}
  Paths = {"server.key", "report.json"}
  Evidence = {"report.json"}
  Target <- MCTarget
  MaxEdits = 2
  SampleCounts = {1, 20, 21}
  Durations = {1, 2}
  Elapsed = {0, 9, 10}
  Budget = 0
  MemoryBudget = 1
  MemoryArgs <- MCMemoryArgs
  Total = 5
  Capacity = 1
  Versions = {"v1", "v2"}
  Installed = {"none", "damaged", "v1"}
  MaxInstalls = 3
SPECIFICATION MCSpec
INVARIANTS
  SilentSessionEnds TimeoutAfterSilence
  FramesCoverStream SentIsReadBack
  ReportedIsStored KeysInPrivateDirectory OnlyWholeKeysRead
  ServerDoctorPredicts ClientDoctorPredicts
  LatencyGateMeans95Percent
  NeverStalls
  RollbackAvailable
PROPERTIES NeverOverwritten ReplacedAtomically
CHECK_DEADLOCK FALSE
