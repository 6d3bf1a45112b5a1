SPECIFICATION Spec
CONSTANTS
  MaxDepth = 2
  MaxSteps = 2
  MaxRuns = 3
  MaxCrashes = 1
INVARIANTS OnePending RelayNeverJoins
PROPERTIES FailureNotSuccess HistoryKept
\* The runs are used up: the final states have no successor.
CHECK_DEADLOCK FALSE
