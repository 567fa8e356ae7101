SPECIFICATION MCSpec
CONSTANTS
  Jobs = {1, 2}
  Nodes = {1}
  NoNode = NoNode
  Masters = {"primary", "backup"}
  Needs <- SomeNeeds
  Configs <- SomeConfigs
  JobCost = 20
  MaxRetries = 1
  MaxBeats = 1
  MaxFailures = 1
CHECK_DEADLOCK FALSE
INVARIANTS
  TypeOK
  ScoreHasCause
  FreeHasCause
  IdleNodeIsWhole
PROPERTIES
  ReservationsReturn
