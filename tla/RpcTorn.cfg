\* Two processes, with two buffers and one, two addresses, three connections.
\* The server may be killed while it writes a file.
CONSTANTS
  p1 = p1
  p2 = p2
  Procs = {p1, p2}
  MaxBuffers <- TwoAndOne
  Addrs = {1, 2}
  MaxValue = 1
  Big = {1}
  NumPieces = 1
  MaxSessions = 3
  Hash <- Injective
  WriteFails = FALSE
  KillWhen = {"saving"}
SPECIFICATION Spec
INVARIANT HitIsSameData
\* The system stops when every process has ended.
CHECK_DEADLOCK FALSE
