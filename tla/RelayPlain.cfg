CONSTANTS
  MaxRequest = 1
  MaxResponse = 2
  Capacity = 1
  OuterTls = FALSE
  Faults = {"vanish", "exhaust", "alter", "panic"}
SPECIFICATION Spec
INVARIANTS PrefixDelivered EofAfterEveryRecord
PROPERTIES TunnelIsChannel
CHECK_DEADLOCK FALSE
