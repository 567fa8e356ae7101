SPECIFICATION MCSpec
CONSTANTS
  Names <- SomeNames
  HeaderLength = 4
  Base = 4
  Bytes = {0, 77, 255}
  MaxLength = 6
CHECK_DEADLOCK FALSE
INVARIANTS
  NodeGetsJob
  ReplicaIsRow
  DecodesPrefix
  AlignedRoundTrip
PROPERTIES
  ChannelImplemented
  ExchangeEnds
