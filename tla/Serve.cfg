CONSTANTS
  Conns = {c1, c2, c3}
  Limit = 2
  Roles = {"server", "client"}
  OuterTls = FALSE
  Faults = {"panic", "accept"}
SPECIFICATION FairSpec
INVARIANTS PermitsBalance ActiveGauge HandshakeTotals ExitIsClean
PROPERTIES ShutdownTerminates
CHECK_DEADLOCK FALSE
