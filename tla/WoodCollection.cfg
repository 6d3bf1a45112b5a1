SPECIFICATION FairSpec
CONSTANTS
  Kinds = {"log", "apple"}
  MaxCarry = 1
  MaxDrops = 1
  Targets = 1
  Amount = 2
  Jobs = 1
  Queue = 2
  Room = 2
INVARIANTS CargoOnRecord DigGuarded
PROPERTIES StockKept StopHolds WorkEnds
\* The jobs are used up.
CHECK_DEADLOCK FALSE
