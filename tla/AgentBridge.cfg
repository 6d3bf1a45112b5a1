CONSTANTS
  MaxEvents = 6
  QueueMax = 3
  BatchMax = 2
  MaxRetries = 1
  MaxFaults = 4
SPECIFICATION FairSpec
INVARIANTS NeverStranded
PROPERTIES ImplementsStream Drains
\* The events are used up.
CHECK_DEADLOCK FALSE
