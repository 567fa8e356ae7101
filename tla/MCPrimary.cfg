SPECIFICATION Spec
CONSTANTS
  Jobs = {j1, j2}
  Runs = {1}
  RunKinds = {"OUTPUT", "ERROR"}
  Nodes = {n1}
  NoNode = NoNode
  MaxRetries = 1
  MaxRestarts = 1
  ForeignSids = {1001}
  DatabaseMayFail = TRUE
SYMMETRY Symmetry
CHECK_DEADLOCK FALSE
INVARIANTS
  TypeOK
  SubmissionsUnique
  WriteAhead
  AnsweredIsRecorded
  ReplicationFollowsLog
PROPERTIES
  RowsArePermanent
