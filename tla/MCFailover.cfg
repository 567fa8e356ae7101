SPECIFICATION MonitoredSpec
CONSTANTS
  Jobs = {j1}
  Runs = {1, 2}
  Nodes = {n1}
  NoNode = NoNode
  MaxRetries = 1
  MaxRestarts = 1
  MaxBackupRestarts = 0
  MaxNodeRestarts = 0
  FailureThreshold = 3
  PrimaryMayCrash = TRUE
  BackupMayCrash = FALSE
  NodesMayCrash = FALSE
  Fallback = TRUE
  MaxFaults = 3
  WarmStart = FALSE
  NodesMayBeFull = TRUE
  CallsMayBreak = FALSE
  RunKinds = {"OUTPUT"}
CHECK_DEADLOCK FALSE
INVARIANTS
  DeliveriesBounded
  PromotionHasCause
PROPERTIES
  PromotionFollows
  PrimaryRefined
  BackupRefined
