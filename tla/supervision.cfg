SPECIFICATION Spec
CONSTANTS
  s1 = s1
  s2 = s2
  Tasks <- LightLog
  MaxMsgs = 1
  Spare <- Two
  Expiring <- EveryTimer
  ClientCmds <- None
  MayFail <- None
  MaxLaunches = 1
  MaxArmed = 1
  MaxFaults = 1
  Watched <- All
  MaxDying = 1
INVARIANT TypeOK
INVARIANT OneMonitor
INVARIANT HeartbeatKept
INVARIANT ConfirmationIsFresh
INVARIANT SensorSampled
INVARIANT OneRound
PROPERTY Supervises
CHECK_DEADLOCK FALSE
SYMMETRY Workers
