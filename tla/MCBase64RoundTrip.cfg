SPECIFICATION Spec
CONSTANTS
  Bytes = {0, 77, 255}
  MaxLength = 6
CHECK_DEADLOCK FALSE
INVARIANTS
  RoundTrip
