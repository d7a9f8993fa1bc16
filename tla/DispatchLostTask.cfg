CONSTANTS
  c1 = c1
  c2 = c2
  Clients = {c1, c2}
  MayCrash = {c1}
  NumTasks = 2
  Speeds = {1}
SPECIFICATION Spec
INVARIANT NoTaskLost
CHECK_DEADLOCK FALSE
