\* Two chats of any kind: the second finds what the first remembered and the
\* priority it left; one retry of a request, one replan.
CONSTANTS
  MaxChats = 2
  MaxReplan = 1
  StatusRetry = 1
SPECIFICATION Spec
INVARIANTS UnsureNeverRuns PlannedOnState NeverSilent
\* The chats are used up.
CHECK_DEADLOCK FALSE
