SPECIFICATION GuardSpec
CONSTANTS
  Trees = {"oak", "birch"}
  Near <- Neighbours
  Height = 2
  Bots = {"bot"}
  MaxChanges = 2
INVARIANTS LedgerNatural
PROPERTIES FellsNatural
