CONSTANTS
  NonceLimit = 2
  Lengths = {0, 16384, 16385}
SPECIFICATION Spec
INVARIANTS TypeOK PrefixDelivered NonceUsedOnce LimitsAgree
PROPERTIES FailClosed ImplementsChannel
