\* Two connections, three tiles, both clients may die, two speeds.
CONSTANTS
  c1 = c1
  c2 = c2
  Clients = {c1, c2}
  MayCrash = {c1, c2}
  NumTasks = 3
  Speeds = {1, 2}
SPECIFICATION FairSpec
INVARIANTS TypeOK TaskPlacedOnce LossNeedsCrash CompletionCountsTiles
           ResultComplete ShutdownOnlyWhenDone IInv
PROPERTIES QueuedTaskIsGranted TileStoredOnce JobEnds ClientsReleased
\* The system stops when every client has left or the main thread has its result.
CHECK_DEADLOCK FALSE
