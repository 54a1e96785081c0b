CONSTANTS
  MaxRequest = 1
  MaxResponse = 1
  Capacity = 1
  OuterTls = FALSE
  Faults = {"alter"}
SPECIFICATION Spec
INVARIANTS DecryptFailureReported
CHECK_DEADLOCK FALSE
