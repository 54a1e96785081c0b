CONSTANTS
  MaxRequest = 1
  MaxResponse = 1
  Capacity = 1
  OuterTls = FALSE
  Faults = {}
SPECIFICATION FairSpec
PROPERTIES FullCloseOnEof
CHECK_DEADLOCK FALSE
