SPECIFICATION Spec
CONSTANTS
  MaxThreads = 2
  Callbacks = {1}
  MaxCommands = 2
  MaxMeasured = 1
  MaxFailures = 1
  Values = {0, 3}
  Cmds <- AllCommands
INVARIANT TypeOK
INVARIANT TimeHonest
INVARIANT SampleWhole
PROPERTY WritesHonest
CHECK_DEADLOCK FALSE
