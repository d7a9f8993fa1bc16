\* One connection.
CONSTANTS
  c1 = c1
  Conns = {c1}
  Fds = {5}
SPECIFICATION FairSpec
PROPERTY StopEnds
\* The system stops when the process has ended or every client has left.
CHECK_DEADLOCK FALSE
