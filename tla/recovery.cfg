SPECIFICATION FairSpec
CONSTANTS
  s1 = s1
  s2 = s2
  Tasks <- TempOnly
  MaxMsgs = 2
  Spare <- Two
  Expiring <- Beat
  ClientCmds <- None
  MayFail <- NoCreate
  MaxLaunches = 1
  MaxArmed = 1
  MaxFaults = 2
  Watched <- None
  MaxDying = 1
CHECK_DEADLOCK FALSE
PROPERTY SensorRecovers
