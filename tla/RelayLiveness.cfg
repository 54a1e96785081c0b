CONSTANTS
  MaxRequest = 1
  MaxResponse = 1
  Capacity = 1
  OuterTls = FALSE
  Faults = {"shutdown"}
SPECIFICATION FairSpec
PROPERTIES ResponseCompletes SocketsReleased ServerEndReachesClient ClientEndReachesDestination
CHECK_DEADLOCK FALSE
