\* Two processes, with two buffers and one, two addresses, two connections.  The
\* server may be killed at any time, and a file may not open or end early.
CONSTANTS
  p1 = p1
  p2 = p2
  Procs = {p1, p2}
  MaxBuffers <- TwoAndOne
  Addrs = {1, 2}
  MaxValue = 1
  Big = {1}
  NumPieces = 1
  MaxSessions = 2
  Hash <- Injective
  WriteFails = TRUE
  KillWhen = {"accept", "hello", "recv", "saving"}
SPECIFICATION FairSpec
INVARIANTS TypeOK OneConnection SameBuffers
PROPERTIES ImplementsMemory HelloAnswered
\* The system stops when every process has ended.
CHECK_DEADLOCK FALSE
