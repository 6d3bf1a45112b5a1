CONSTANTS
  MaxBots = 5
  MaxTroubles = 2
  MaxAttempts = 4
  MaxChats = 3
  MaxCuts = 3
  Host = 1
SPECIFICATION Spec
INVARIANTS BotOrTimer OneSocket
PROPERTIES Settles ChatsSettle
\* The chats and the troubles are used up.
CHECK_DEADLOCK FALSE
