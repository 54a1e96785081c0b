CONSTANTS
  Conns = {c1, c2}
  Limit = 1
  Roles = {"server"}
  OuterTls = FALSE
  Faults = {}
SPECIFICATION Spec
INVARIANTS FailureReasonsCounted
CHECK_DEADLOCK FALSE
