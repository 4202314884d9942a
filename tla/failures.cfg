SPECIFICATION Spec
CONSTANTS
  s1 = s1
  s2 = s2
  Tasks <- LogOnly
  MaxMsgs = 2
  Spare <- Two
  Expiring <- Beat
  ClientCmds <- KillOrExit
  MayFail <- AnyFails
  MaxLaunches = 2
  MaxArmed = 1
  MaxFaults = 2
  Watched <- None
  MaxDying = 1
CHECK_DEADLOCK FALSE
SYMMETRY Workers
INVARIANTS NeverCondemned
