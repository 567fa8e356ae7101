SPECIFICATION Spec
CONSTANTS
  Jobs = {j1}
  Runs = {1, 2}
  Nodes = {n1}
  NoNode = NoNode
  MaxRetries = 2
  MaxRestarts = 0
  MaxBackupRestarts = 1
  MaxNodeRestarts = 1
  FailureThreshold = 1
  PrimaryMayCrash = TRUE
  BackupMayCrash = TRUE
  NodesMayCrash = TRUE
  Fallback = TRUE
  MaxFaults = 0
  WarmStart = TRUE
  NodesMayBeFull = FALSE
  CallsMayBreak = TRUE
  RunKinds = {"OUTPUT"}
CHECK_DEADLOCK FALSE
INVARIANTS
  OneAnswerPerRequest
  DeliveredMeansSent
  ReplayedOnce
