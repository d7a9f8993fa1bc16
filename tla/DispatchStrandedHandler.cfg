CONSTANTS
  c1 = c1
  c2 = c2
  Clients = {c1, c2}
  MayCrash = {}
  NumTasks = 2
  Speeds = {1}
SPECIFICATION FairSpec
PROPERTY WaitersAreNotified
CHECK_DEADLOCK FALSE
