SPECIFICATION FairSpec
CONSTANTS
  s1 = s1
  s2 = s2
  Tasks <- LogOnly
  MaxMsgs = 8
  Spare <- Two
  Expiring <- Beat
  ClientCmds <- None
  MayFail <- None
  MaxLaunches = 1
  MaxArmed = 1
  MaxFaults = 1
  Watched <- None
  MaxDying = 1
CHECK_DEADLOCK FALSE
PROPERTY UnresponsiveIsRestarted
