SPECIFICATION Spec
CONSTANTS
  f = f
  g = g
  p = p
  a = a
  b = b
  Functions <- F
  Parameters <- P
  Checks <- EveryKind
  Queued <- SomeKinds
  Values <- SomeValues
  Counts <- SomeCounts
  Addresses <- A
  Groups <- SomeGroups
  NumGroups = 2
  MaxCalls = 4
SYMMETRY Alike
INVARIANT TypeOK
INVARIANT PassedIsGood
INVARIANT GoodIsPassed
INVARIANT FailureShows
INVARIANT CleanReturn
INVARIANT CallsInOrder
CHECK_DEADLOCK FALSE
