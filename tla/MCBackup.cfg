SPECIFICATION Spec
CONSTANTS
  Jobs = {j1, j2}
  Runs = {1}
  RunKinds = {"OUTPUT"}
  Nodes = {n1}
  NoNode = NoNode
  MaxRetries = 1
  FailureThreshold = 2
  PrimaryConfigured = {TRUE, FALSE}
  MaxBackupRestarts = 1
  ReplicaSids = {1001}
  ReplicaReceipts = {2001}
  CallbackLengths = {0, 1}
SYMMETRY Symmetry
CHECK_DEADLOCK FALSE
INVARIANTS
  TypeOK
  StandbyIsPassive
  SubmissionsUnique
PROPERTIES
  OutcomesArePermanent
