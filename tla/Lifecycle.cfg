\* Two connections and a descriptor for each, which the second may share with
\* what is left of the first.
CONSTANTS
  c1 = c1
  c2 = c2
  Conns = {c1, c2}
  Fds = {5, 6}
SPECIFICATION FairSpec
INVARIANTS TypeOK OwnDescriptor LiveHandlerKeepsEntry StopLeavesOneHandler
PROPERTY DisconnectedIsForgotten
\* The system stops when the process has ended or every client has left.
CHECK_DEADLOCK FALSE
