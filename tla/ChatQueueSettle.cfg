CONSTANTS
  MaxChats = 3
  Connections = 1
  MaxSize = 1
  RetryLimit = 1
SPECIFICATION FairSpec
PROPERTIES Settled
CHECK_DEADLOCK FALSE
