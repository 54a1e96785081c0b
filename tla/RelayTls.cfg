CONSTANTS
  MaxRequest = 1
  MaxResponse = 1
  Capacity = 1
  OuterTls = TRUE
  Faults = {"alter", "cut", "reset", "idle"}
SPECIFICATION Spec
INVARIANTS EofIsComplete
PROPERTIES FailureStopsSibling
CHECK_DEADLOCK FALSE
