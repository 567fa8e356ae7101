SPECIFICATION Spec
CONSTANTS
  Jobs = {j1}
  Runs = {1, 2}
  Nodes = {n1}
  NoNode = NoNode
  MaxRetries = 1
  MaxRestarts = 0
  MaxBackupRestarts = 0
  MaxNodeRestarts = 0
  FailureThreshold = 1
  PrimaryMayCrash = TRUE
  BackupMayCrash = FALSE
  NodesMayCrash = FALSE
  Fallback = FALSE
  MaxFaults = 0
  WarmStart = TRUE
  NodesMayBeFull = FALSE
  CallsMayBreak = FALSE
  RunKinds = {"OUTPUT"}
CHECK_DEADLOCK FALSE
PROPERTIES
  CompletionIsPersisted
