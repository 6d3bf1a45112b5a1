SPECIFICATION CommandsSpec
CONSTANTS
  Commands = {c1, c2}
  Kinds <- AllKinds
  BotObjects = 2
  MaxRetries = 2
  Tries = 1
SYMMETRY Alike
INVARIANTS LockIsHeld ProfileBack SentOnce WoodUndisturbed
\* The commands are used up.
CHECK_DEADLOCK FALSE
