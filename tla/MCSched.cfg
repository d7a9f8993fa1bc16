\* An accelerator with a queue, a server, a library on the CPU's memory, the CPU.
CONSTANTS
  n_backends = 4
  bufts <- MCbufts
  supports_buft <- MCsupports_buft
  supports_op <- MCsupports_op
  offload_op <- MCoffload_op
  HostBufts = {"host"}
  MaxSplitInputs = 2
  Graphs <- MCGraphs
  Plans <- AllPlans
  Async = {0}
  Rpc = {1}
  MaxCopies = 2
  MaxComputes = 3
SPECIFICATION FairSpec
INVARIANTS TypeOK ResultsRight SplitsSound ResetMeansClean GraphOverRpc GraphCopyFaithful
PROPERTIES AssignmentKept CopyNotInUse ComputeReturns
CHECK_DEADLOCK FALSE
