SPECIFICATION Spec
CONSTANTS
  project1_log = project1_log
  other_log = other_log
  Paths <- TwoFiles
  log_name = project1_log
  ClientPaths <- TwoFiles
  ReopenPaths <- TwoFiles
  MaxThreads = 2
  MaxRecords = 1
  MaxCommands = 1
  MayFail = TRUE
INVARIANT TypeOK
INVARIANT HandleSound
INVARIANT NoLeak
INVARIANT NothingLost
PROPERTY RecordsKept
PROPERTY DroppedBeforeInit
CONSTRAINT TakingTurns
CHECK_DEADLOCK FALSE
