SPECIFICATION LiveSpec
CONSTANTS
  Jobs = {1, 2}
  Runs = {1, 2, 3, 4, 5, 6}
  Nodes = {n1}
  NoNode = NoNode
  MaxRetries = 2
  MaxRestarts = 0
  MaxBackupRestarts = 0
  MaxNodeRestarts = 1
  FailureThreshold = 2
  PrimaryMayCrash = FALSE
  BackupMayCrash = FALSE
  NodesMayCrash = TRUE
  Fallback = TRUE
  MaxFaults = 0
  WarmStart = FALSE
  NodesMayBeFull = TRUE
  CallsMayBreak = FALSE
  RunKinds = {"ERROR"}
CHECK_DEADLOCK FALSE
PROPERTIES
  RequestsEnd
  PendingIsSettled
