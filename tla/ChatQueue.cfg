\* Five chats, two slots, one retry: overflows by callers and by the worker,
\* callers and the worker blocked in put, a chat that exhausts its retries.
CONSTANTS
  MaxChats = 5
  Connections = 2
  MaxSize = 2
  RetryLimit = 1
SPECIFICATION FairSpec
INVARIANTS UnfinishedMatches Accounted
PROPERTIES ImplementsDelivery SettledOrBlocked
\* The chats run out: the final states have no successor.
CHECK_DEADLOCK FALSE
