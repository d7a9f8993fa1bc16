\* Three handlers, matrices up to 3 x 5 in tiles of 2 x 2: whole and cut tiles.
CONSTANTS
  h1 = h1
  h2 = h2
  h3 = h3
  Handlers = {h1, h2, h3}
  TileSize = 2
  MaxRows = 3
  MaxCols = 5
  Common = 2
  Entry = 1
  Garbage = {0}
SPECIFICATION Spec
SYMMETRY HandlerSymmetry
INVARIANTS TypeOK NoRace InBounds ResultPlaced TilesPartition StrassenOfPowers
\* The system stops when the main thread has the result.
CHECK_DEADLOCK FALSE
