\* A test bench of sizes to 3.  The first element, at least, is computed from reads
\* within the 1 x 1 matrices of the client, so that it does not matter what the
\* others read.
CONSTANTS
  h1 = h1
  Handlers = {h1}
  TileSize = 2
  MaxRows = 3
  MaxCols = 3
  Common = 1
  Entry = 1
  Garbage = {0}
SPECIFICATION Spec
INVARIANT BenchFindsOneRight
\* The system stops when the main thread has the result.
CHECK_DEADLOCK FALSE
