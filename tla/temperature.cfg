SPECIFICATION Spec
CONSTANTS
  c1 = c1
  c2 = c2
  MaxThreads = 2
  Callbacks = {c1, c2}
  MaxCommands = 2
  MaxMeasured = 2
  MaxTimers = 5
  Cmds <- AllCommands
INVARIANT TypeOK
INVARIANT ReadregHonest
INVARIANT LimitsKept
INVARIANT ChainPerTask
PROPERTY NeverBackwards
SYMMETRY Alike
CHECK_DEADLOCK FALSE
