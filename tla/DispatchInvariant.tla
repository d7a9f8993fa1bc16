------------------------- MODULE DispatchInvariant --------------------------
(* The inductive invariant behind the safety properties of Dispatch.  None   *)
(* of them is inductive: that a task is in one place only holds because a    *)
(* client and its handler take turns, and the turn is visible only in what   *)
(* is on the wire.  Conn lists the states a connection can be in; the other  *)
(* parts relate the tasks, the counts and the main thread to it.             *)
EXTENDS Dispatch

Gathering == {"none", "info"}                              \* before the request loop
Serving   == {"init", "recv", "perf", "count", "write", "bump"}
Asked     == {"check", "block", "wait", "reply"}           \* a request is being served
Over      == {"close", "exited"}

Task(t)   == Msg("TASK_RESPONSE", t)
Answer(t) == Msg("COMPUTATION_RESULT", t)

\* The client has not asked since its last answer.
BeforeRequest(c) ==
  \/ toMaster[c] = <<CpuInfo>> /\ hpc[c] \in Gathering
  \/ toMaster[c] = <<>> /\ hpc[c] \in Serving
  \/ hpc[c] = "recv" /\ \E t \in TaskIds : toMaster[c] = <<Answer(t)>>

\* Its request is on the wire.
RequestSent(c) ==
  \/ toMaster[c] = <<CpuInfo, TaskRequest>> /\ hpc[c] \in Gathering
  \/ toMaster[c] = <<TaskRequest>> /\ hpc[c] \in Serving
  \/ hpc[c] = "recv" /\ \E t \in TaskIds : toMaster[c] = <<Answer(t), TaskRequest>>

Silent(c)   == toMaster[c] = <<>> /\ toClient[c] = <<>>

Answered(c) ==
  /\ toMaster[c] = <<>>
  /\ \/ toClient[c] = <<NoWork>> /\ hpc[c] = "recv"
     \/ hpc[c] = "recv" /\ \E t \in TaskIds : toClient[c] = <<Task(t)>>
     \/ toClient[c] = <<Shutdown>> /\ hpc[c] \in Over

\* A connection: the client and its handler take turns.
Conn(c) ==
  \/ cpc[c] = "out" /\ hpc[c] = "none" /\ Silent(c)
  \/ cpc[c] = "hello" /\ hpc[c] \in Gathering /\ Silent(c)
  \/ cpc[c] = "top" /\ toClient[c] = <<>> /\ BeforeRequest(c)
  \/ cpc[c] = "await" /\ toClient[c] = <<>> /\ RequestSent(c)
  \/ cpc[c] = "await" /\ hpc[c] \in Asked /\ Silent(c)
  \/ cpc[c] = "await" /\ Answered(c)
  \/ cpc[c] = "compute" /\ hpc[c] = "recv" /\ Silent(c)
  \/ cpc[c] = "stopped" /\ hpc[c] \in Over /\ Silent(c)
  \/ /\ Gone(c) /\ toClient[c] = <<>>
     /\ toMaster[c] = <<>> \/ BeforeRequest(c) \/ RequestSent(c)

\* A thread holds a task where its code has one in hand.
Hands(c) ==
  /\ ctask[c] # NoTask <=> cpc[c] = "compute"
  /\ hpc[c] \in {"perf", "count", "write", "bump"} => htask[c] # NoTask
  /\ htask[c] # NoTask => hpc[c] \in {"reply", "perf", "count", "write", "bump"}

\* clientTaskCounts_ is 1 while the client has a task and 0 otherwise; only for
\* a connection that has ended can the last task be counted for ever.
Counts(c) ==
  /\ count[c] \in {0, 1}
  /\ hpc[c] \in {"check", "block", "wait", "write", "bump"} => count[c] = 0
  /\ hpc[c] \in {"perf", "count"} => count[c] = 1
  /\ hpc[c] = "reply" => count[c] = IF htask[c] = NoTask THEN 0 ELSE 1
  /\ hpc[c] = "recv" /\ ~EndOfStream(c)
       => count[c] = IF InHand(c) = {} THEN 0 ELSE 1

\* A handler between storing and counting has its tile stored.
Stored == \A c \in Clients : hpc[c] = "bump" => htask[c] \in written

\* What the main thread has done so far.
Progress ==
  /\ mpc = "setup" => queue = <<>> /\ written = {} /\ total = 0 /\ completed = 0
  /\ mpc # "setup" => total = NumTasks
  /\ started => mpc \in {"notify", "polling", "got"}
  /\ mpc = "got" => result = TaskIds /\ started
  /\ \A c \in Clients : InHand(c) # {} => started
  /\ written # {} => started
  /\ \A c \in Clients :
       hpc[c] \in Over => Gone(c) \/ written = TaskIds
  /\ ~started => \A c \in Clients : hpc[c] # "reply"

IInv == /\ TypeOK
        /\ \A c \in Clients : Conn(c) /\ Hands(c) /\ Counts(c)
        /\ TaskPlacedOnce
        /\ Stored
        /\ Progress
        /\ CompletionCountsTiles

\* What a client leaves behind: a task can only be lost with a client that
\* crashed and whose handler will not be asked for another one.
WillAsk(c)  == hpc[c] \in Asked \/ RequestSent(c)
LeftQuietly == \A c \in Clients : cpc[c] = "closed" => ~WillAsk(c)
Spent       == {c \in Crashed : ~WillAsk(c)}
OneLossEach == Cardinality(Missing) <= Cardinality(Spent)
LossInv     == LeftQuietly /\ OneLossEach
=============================================================================
