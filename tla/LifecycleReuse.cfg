\* Two connections, one after the other on the same descriptor.
CONSTANTS
  c1 = c1
  c2 = c2
  Conns = {c1, c2}
  Fds = {5}
SPECIFICATION Spec
INVARIANT SurvivesReconnection
\* The system stops when the process has ended or every client has left.
CHECK_DEADLOCK FALSE
