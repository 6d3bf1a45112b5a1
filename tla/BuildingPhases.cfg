SPECIFICATION Spec
CONSTANTS
  Materials = {planks, glass}
  Total = 5
  Batch = 2
  Most = 2
  MaxRollbacks = 2
  MaxSpends = 2
INVARIANTS CountIsTrue
PROPERTIES NoWayBack
