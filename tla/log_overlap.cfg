SPECIFICATION Spec
CONSTANTS
  project1_log = project1_log
  other_log = other_log
  Paths <- OneFile
  log_name = project1_log
  ClientPaths <- Nobody
  ReopenPaths <- Nobody
  MaxThreads = 2
  MaxRecords = 2
  MaxCommands = 0
  MayFail = FALSE
INVARIANT Graceful
CHECK_DEADLOCK FALSE
