CONSTANTS
  Clients = {c1, c2}
  Servers = {d1, d2}
  ClientKeys = {k1, k2}
  ServerKeys = {s1, s2}
  AllowList = {k1}
  MaxIdentities = 2
SPECIFICATION Spec
SYMMETRY HandshakeSymmetry
INVARIANTS TypeOK Agreement ServerSessionAuthorised OverlapOutcome
PROPERTIES OneChance
CHECK_DEADLOCK FALSE
