SPECIFICATION TunnelSpec
CONSTANTS
  Length = 4
  Window = 3
  Buffer = 0
  Retry = 1
  MaxFaults = 2
  MaxFlows = 1
INVARIANTS StopsAfterLiquid CoveredWhenFinished LeftoversExplained
PROPERTIES RunEnds
\* The run is over in the end.
CHECK_DEADLOCK FALSE
