------------------------------ MODULE Dispatch ------------------------------
(* The dispatch of tile tasks by the master (src/master.cpp) to its clients  *)
(* (src/client.cpp): the queue of tasks, one handler thread per connection,  *)
(* the worker thread of each client, the two FIFO byte streams between them  *)
(* (one element per message), and the main thread of src/master_main.cpp.    *)
(*                                                                           *)
(* A member of Clients is one connection, so each connects at most once; a   *)
(* client that connects again is another member.  Reuse of a descriptor and  *)
(* Master::stop are the subject of Lifecycle.                                *)
EXTENDS Integers, Sequences, FiniteSets

CONSTANTS Clients,    \* the connections that may be made
          NumTasks,   \* tiles created by setMatrices
          Speeds,     \* values a client's performanceRatio takes
          MayCrash    \* the clients that may die without notice

ASSUME DispatchAssumption ==
  /\ IsFiniteSet(Clients)
  /\ NumTasks \in Nat
  /\ Speeds \subseteq Nat \ {0}
  /\ Speeds # {}
  /\ MayCrash \subseteq Clients

TaskIds == 0 .. NumTasks - 1
NoTask  == -1       \* no task in hand
NoEntry == -1       \* no entry of clientPerformance_

VARIABLES
  mpc,        \* where the main thread is
  total,      \* totalTasks_
  started,    \* computationStarted_
  queue,      \* taskQueue_
  completed,  \* completedTasks_
  written,    \* the tiles of resultMatrix_ that have been stored
  result,     \* the tiles stored in the copy getResult returned
  accepting,  \* the connection the accept thread holds, not yet in clientThreads_
  registered, \* the keys of clientThreads_
  counted,    \* the keys of clientTaskCounts_
  count,      \* the values of clientTaskCounts_
  perf,       \* performanceRatio in clientPerformance_, or NoEntry
  hpc,        \* where each handler thread is
  htask,      \* the task a handler holds
  cpc,        \* where each client is
  ctask,      \* the task a client holds
  toMaster,   \* messages on their way to the master
  toClient    \* messages on their way to the client

mainVars   == <<mpc, total, started, result>>
masterVars == <<queue, completed, written, counted, count, perf>>
acceptVars == <<accepting, registered>>
handVars   == <<hpc, htask>>
clientVars == <<cpc, ctask>>
netVars    == <<toMaster, toClient>>
vars == <<mainVars, masterVars, acceptVars, handVars, clientVars, netVars>>

-----------------------------------------------------------------------------
(* Messages, and the two ends of a connection.                               *)

Msg(type, t) == [type |-> type, task |-> t]
CpuInfo      == Msg("CPU_INFO", NoTask)
TaskRequest  == Msg("TASK_REQUEST", NoTask)
NoWork       == Msg("NO_WORK", NoTask)
Shutdown     == Msg("SHUTDOWN", NoTask)

Gone(c) == cpc[c] \in {"closed", "crashed"}  \* the client's socket is closed

\* sendMessage of the handler: what is sent to a closed socket is lost.
Send(c, m) == toClient' = IF Gone(c) THEN toClient
                          ELSE [toClient EXCEPT ![c] = Append(@, m)]

\* receiveMessage of the handler returns a message of this type.
Arrived(c, type) == /\ toMaster[c] # <<>>
                    /\ Head(toMaster[c]).type = type
Consume(c) == toMaster' = [toMaster EXCEPT ![c] = Tail(@)]

\* receiveMessage of the handler returns CLIENT_DISCONNECT.
EndOfStream(c) == toMaster[c] = <<>> /\ Gone(c)

\* taskMutex_ is held between a false predicate and the entry into the wait set.
TaskMutexFree == \A c \in Clients : hpc[c] # "block"

-----------------------------------------------------------------------------
Init ==
  /\ mpc = "setup" /\ total = 0 /\ started = FALSE /\ result = {}
  /\ queue = <<>> /\ completed = 0 /\ written = {}
  /\ accepting = {} /\ registered = {}
  /\ counted = {} /\ count = [c \in Clients |-> 0]
  /\ perf = [c \in Clients |-> NoEntry]
  /\ hpc = [c \in Clients |-> "none"] /\ htask = [c \in Clients |-> NoTask]
  /\ cpc = [c \in Clients |-> "out"] /\ ctask = [c \in Clients |-> NoTask]
  /\ toMaster = [c \in Clients |-> <<>>]
  /\ toClient = [c \in Clients |-> <<>>]

-----------------------------------------------------------------------------
(* The main thread: setMatrices, Enter, startComputation, poll, getResult.   *)

\* Mutant: the loops of createTiledTasks run to <=.
SetMatricesOneTooMany ==
  /\ mpc = "setup" /\ TaskMutexFree
  /\ mpc' = "enter"
  /\ queue' = [i \in 1 .. NumTasks + 1 |-> i - 1]
  /\ total' = NumTasks
  /\ completed' = 0
  /\ UNCHANGED <<started, result, written, counted, count, perf,
                 acceptVars, handVars, clientVars, netVars>>

SetMatrices ==
  /\ mpc = "setup" /\ TaskMutexFree
  /\ mpc' = "enter"
  /\ queue' = [i \in 1 .. NumTasks |-> i - 1]
  /\ total' = NumTasks
  /\ completed' = 0
  /\ UNCHANGED <<started, result, written, counted, count, perf,
                 acceptVars, handVars, clientVars, netVars>>

\* Enter is pressed; startComputation looks at clientThreads_.
CheckClients ==
  /\ mpc = "enter"
  /\ mpc' = IF registered = {} THEN "polling" ELSE "flag"
  /\ UNCHANGED <<total, started, result, masterVars, acceptVars, handVars,
                 clientVars, netVars>>

\* computationStarted_ = true, without taskMutex_.
RaiseFlag ==
  /\ mpc = "flag"
  /\ mpc' = "notify"
  /\ started' = TRUE
  /\ UNCHANGED <<total, result, masterVars, acceptVars, handVars, clientVars,
                 netVars>>

\* taskCV_.notify_all(), without taskMutex_: it wakes the threads that are in
\* the wait set, and only those.
NotifyAll ==
  /\ mpc = "notify"
  /\ mpc' = "polling"
  /\ hpc' = [c \in Clients |-> IF hpc[c] = "wait" THEN "check" ELSE hpc[c]]
  /\ UNCHANGED <<total, started, result, masterVars, acceptVars, htask,
                 clientVars, netVars>>

\* Mutant: nothing left in the queue is taken for nothing left to do.
isCompleteWhenEmpty == queue = <<>> /\ started

isComplete == completed >= total /\ started

GetResult ==
  /\ mpc = "polling"
  /\ isComplete
  /\ mpc' = "got"
  /\ result' = written
  /\ UNCHANGED <<total, started, masterVars, acceptVars, handVars, clientVars,
                 netVars>>

MainStep == CheckClients \/ RaiseFlag \/ NotifyAll \/ GetResult

-----------------------------------------------------------------------------
(* The accept thread: it starts the handler, then enters it in clientThreads_. *)

Accept(c) ==
  /\ accepting = {}
  /\ hpc[c] = "none" /\ cpc[c] # "out"
  /\ accepting' = {c}
  /\ hpc' = [hpc EXCEPT ![c] = "info"]
  /\ UNCHANGED <<mainVars, masterVars, registered, htask, clientVars, netVars>>

Register ==
  /\ accepting # {}
  /\ registered' = registered \cup accepting
  /\ accepting' = {}
  /\ UNCHANGED <<mainVars, masterVars, handVars, clientVars, netVars>>

-----------------------------------------------------------------------------
(* The handler thread of a connection (Master::handleClient).                *)

Go(c, pc) == hpc' = [hpc EXCEPT ![c] = pc]

ReceiveInfo(c) ==
  /\ hpc[c] = "info" /\ Arrived(c, "CPU_INFO") /\ Consume(c)
  /\ \E s \in Speeds : perf' = [perf EXCEPT ![c] = s]
  /\ Go(c, "init")
  /\ UNCHANGED <<mainVars, queue, completed, written, counted, count,
                 acceptVars, htask, clientVars, toClient>>

\* The first message is missing: the handler goes on all the same.
MissInfo(c) ==
  /\ hpc[c] = "info" /\ EndOfStream(c)
  /\ Go(c, "init")
  /\ UNCHANGED <<mainVars, masterVars, acceptVars, htask, clientVars, netVars>>

InitCount(c) ==
  /\ hpc[c] = "init" /\ TaskMutexFree
  /\ counted' = counted \cup {c}
  /\ count' = [count EXCEPT ![c] = 0]
  /\ Go(c, "recv")
  /\ UNCHANGED <<mainVars, queue, completed, written, perf, acceptVars, htask,
                 clientVars, netVars>>

ReceiveRequest(c) ==
  /\ hpc[c] = "recv" /\ Arrived(c, "TASK_REQUEST") /\ Consume(c)
  /\ Go(c, "check")
  /\ UNCHANGED <<mainVars, masterVars, acceptVars, htask, clientVars, toClient>>

\* taskCV_.wait: the predicate is evaluated under taskMutex_ and is false ...
FindNotStarted(c) ==
  /\ hpc[c] = "check" /\ TaskMutexFree /\ ~started
  /\ Go(c, "block")
  /\ UNCHANGED <<mainVars, masterVars, acceptVars, htask, clientVars, netVars>>

\* ... and only then does the thread enter the wait set and release taskMutex_.
EnterWait(c) ==
  /\ hpc[c] = "block"
  /\ Go(c, "wait")
  /\ UNCHANGED <<mainVars, masterVars, acceptVars, htask, clientVars, netVars>>

SpuriousWake(c) ==
  /\ hpc[c] = "wait"
  /\ Go(c, "check")
  /\ UNCHANGED <<mainVars, masterVars, acceptVars, htask, clientVars, netVars>>

\* An absent entry is created with a zero ratio by clientPerformance_[socket].
OwnRatio(c)   == IF perf[c] = NoEntry THEN 0 ELSE perf[c]
OtherRatio(c) == IF perf[c] = NoEntry THEN 1 ELSE perf[c]

\* n1 / r1 > n2 / r2 in doubles: 0/0 is NaN and compares false, n/0 is infinite.
WeighsMore(n1, r1, n2, r2) ==
  /\ n1 # 0 \/ r1 # 0
  /\ n2 # 0 \/ r2 # 0
  /\ n1 * r2 > n2 * r1

\* The load balancing: refuse a client that has more work for its speed than
\* another when there are no more tasks than clients.
ShouldAssign(c) ==
  \/ Cardinality(counted) <= 1
  \/ \A d \in counted \ {c} :
       WeighsMore(count[c], OwnRatio(c), count[d], OtherRatio(d))
         => Len(queue) > Cardinality(counted)

Grantable(c) == queue # <<>> /\ ShouldAssign(c)

\* Mutant: the task is copied from the queue and not popped.
GrantTaskUnpopped(c) ==
  /\ hpc[c] = "check" /\ TaskMutexFree /\ started
  /\ Grantable(c)
  /\ htask' = [htask EXCEPT ![c] = Head(queue)]
  /\ count' = [count EXCEPT ![c] = @ + 1]
  /\ perf' = [perf EXCEPT ![c] = OwnRatio(c)]
  /\ Go(c, "reply")
  /\ UNCHANGED <<mainVars, queue, completed, written, counted, acceptVars,
                 clientVars, netVars>>

GrantTask(c) ==
  /\ hpc[c] = "check" /\ TaskMutexFree /\ started
  /\ Grantable(c)
  /\ htask' = [htask EXCEPT ![c] = Head(queue)]
  /\ queue' = Tail(queue)
  /\ count' = [count EXCEPT ![c] = @ + 1]
  /\ perf' = [perf EXCEPT ![c] = OwnRatio(c)]
  /\ Go(c, "reply")
  /\ UNCHANGED <<mainVars, completed, written, counted, acceptVars, clientVars,
                 netVars>>

RefuseTask(c) ==
  /\ hpc[c] = "check" /\ TaskMutexFree /\ started
  /\ ~Grantable(c)
  /\ perf' = IF queue = <<>> THEN perf
             ELSE [perf EXCEPT ![c] = OwnRatio(c)]
  /\ Go(c, "reply")
  /\ UNCHANGED <<mainVars, queue, completed, written, counted, count,
                 acceptVars, htask, clientVars, netVars>>

ReplyTask(c) ==
  /\ hpc[c] = "reply" /\ htask[c] # NoTask
  /\ Send(c, Msg("TASK_RESPONSE", htask[c]))
  /\ htask' = [htask EXCEPT ![c] = NoTask]
  /\ Go(c, "recv")
  /\ UNCHANGED <<mainVars, masterVars, acceptVars, clientVars, toMaster>>

\* Mutant: a client that is given no task is told to shut down.
ReplyShutdownEarly(c) ==
  /\ hpc[c] = "reply" /\ htask[c] = NoTask
  /\ Send(c, Shutdown)
  /\ Go(c, "close")
  /\ UNCHANGED <<mainVars, masterVars, acceptVars, htask, clientVars, toMaster>>

\* Mutant: the handler leaves its loop without sending SHUTDOWN.
ReplyShutdownUnsent(c) ==
  /\ hpc[c] = "reply" /\ htask[c] = NoTask /\ isComplete
  /\ Go(c, "close")
  /\ UNCHANGED <<mainVars, masterVars, acceptVars, htask, clientVars, netVars>>

ReplyShutdown(c) ==
  /\ hpc[c] = "reply" /\ htask[c] = NoTask /\ isComplete
  /\ Send(c, Shutdown)
  /\ Go(c, "close")
  /\ UNCHANGED <<mainVars, masterVars, acceptVars, htask, clientVars, toMaster>>

ReplyNoWork(c) ==
  /\ hpc[c] = "reply" /\ htask[c] = NoTask /\ ~isComplete
  /\ Send(c, NoWork)
  /\ Go(c, "recv")
  /\ UNCHANGED <<mainVars, masterVars, acceptVars, htask, clientVars, toMaster>>

\* Mutant: a result is read again on the next round of the loop.
ReceiveResultTwice(c) ==
  /\ hpc[c] = "recv" /\ Arrived(c, "COMPUTATION_RESULT")
  /\ toMaster' \in {toMaster, [toMaster EXCEPT ![c] = Tail(@)]}
  /\ htask' = [htask EXCEPT ![c] = Head(toMaster[c]).task]
  /\ Go(c, "perf")
  /\ UNCHANGED <<mainVars, masterVars, acceptVars, clientVars, toClient>>

ReceiveResult(c) ==
  /\ hpc[c] = "recv" /\ Arrived(c, "COMPUTATION_RESULT") /\ Consume(c)
  /\ htask' = [htask EXCEPT ![c] = Head(toMaster[c]).task]
  /\ Go(c, "perf")
  /\ UNCHANGED <<mainVars, masterVars, acceptVars, clientVars, toClient>>

\* executionTimeMs is not part of the message, so deserializeResult leaves it
\* indeterminate: the ratio stays, or becomes anything.
UpdateClientPerformance(c) ==
  /\ hpc[c] = "perf"
  /\ \E r \in Speeds \cup {OwnRatio(c)} : perf' = [perf EXCEPT ![c] = r]
  /\ Go(c, "count")
  /\ UNCHANGED <<mainVars, queue, completed, written, counted, count,
                 acceptVars, htask, clientVars, netVars>>

\* Mutant: the count of a finished task is not given back.
DecrementCountForgotten(c) ==
  /\ hpc[c] = "count" /\ TaskMutexFree
  /\ Go(c, "write")
  /\ UNCHANGED <<mainVars, masterVars, acceptVars, htask, clientVars, netVars>>

DecrementCount(c) ==
  /\ hpc[c] = "count" /\ TaskMutexFree
  /\ count' = [count EXCEPT ![c] = @ - 1]
  /\ Go(c, "write")
  /\ UNCHANGED <<mainVars, queue, completed, written, counted, perf,
                 acceptVars, htask, clientVars, netVars>>

\* processResult: the tile is being stored while the handler is at "write",
\* without a lock ...
StoreTile(c) ==
  /\ hpc[c] = "write"
  /\ written' = written \cup {htask[c]}
  /\ Go(c, "bump")
  /\ UNCHANGED <<mainVars, queue, completed, counted, count, perf, acceptVars,
                 htask, clientVars, netVars>>

\* Mutant: completedTasks_ is not atomic and an increment can get lost.
CountCompletionLost(c) ==
  /\ hpc[c] = "bump"
  /\ completed' \in {completed, completed + 1}
  /\ htask' = [htask EXCEPT ![c] = NoTask]
  /\ Go(c, "recv")
  /\ UNCHANGED <<mainVars, queue, written, counted, count, perf, acceptVars,
                 clientVars, netVars>>

\* ... and counted afterwards.
CountCompletion(c) ==
  /\ hpc[c] = "bump"
  /\ completed' = completed + 1
  /\ htask' = [htask EXCEPT ![c] = NoTask]
  /\ Go(c, "recv")
  /\ UNCHANGED <<mainVars, queue, written, counted, count, perf, acceptVars,
                 clientVars, netVars>>

SeeDisconnect(c) ==
  /\ hpc[c] = "recv" /\ EndOfStream(c)
  /\ Go(c, "close")
  /\ UNCHANGED <<mainVars, masterVars, acceptVars, htask, clientVars, netVars>>

\* clientTaskCounts_ keeps its entry.
HandlerExit(c) ==
  /\ hpc[c] = "close"
  /\ registered' = registered \ {c}
  /\ perf' = [perf EXCEPT ![c] = NoEntry]
  /\ Go(c, "exited")
  /\ UNCHANGED <<mainVars, queue, completed, written, counted, count,
                 accepting, htask, clientVars, netVars>>

HandlerStep(c) ==
  \/ ReceiveInfo(c) \/ MissInfo(c) \/ InitCount(c)
  \/ ReceiveRequest(c) \/ FindNotStarted(c) \/ EnterWait(c)
  \/ GrantTask(c) \/ RefuseTask(c)
  \/ ReplyTask(c) \/ ReplyShutdown(c) \/ ReplyNoWork(c)
  \/ ReceiveResult(c) \/ UpdateClientPerformance(c) \/ DecrementCount(c)
  \/ StoreTile(c) \/ CountCompletion(c)
  \/ SeeDisconnect(c) \/ HandlerExit(c)

-----------------------------------------------------------------------------
(* A client: connect, then the loop of its worker thread.                    *)

Step(c, pc) == cpc' = [cpc EXCEPT ![c] = pc]
Post(c, m)  == toMaster' = [toMaster EXCEPT ![c] = Append(@, m)]

Connect(c) ==
  /\ cpc[c] = "out"
  /\ Step(c, "hello")
  /\ UNCHANGED <<mainVars, masterVars, acceptVars, handVars, ctask, netVars>>

SendCpuInfo(c) ==
  /\ cpc[c] = "hello"
  /\ Post(c, CpuInfo)
  /\ Step(c, "top")
  /\ UNCHANGED <<mainVars, masterVars, acceptVars, handVars, ctask, toClient>>

RequestTask(c) ==
  /\ cpc[c] = "top"
  /\ Post(c, TaskRequest)
  /\ Step(c, "await")
  /\ UNCHANGED <<mainVars, masterVars, acceptVars, handVars, ctask, toClient>>

Delivered(c, type) == /\ toClient[c] # <<>>
                      /\ Head(toClient[c]).type = type
Take(c) == toClient' = [toClient EXCEPT ![c] = Tail(@)]

TakeTask(c) ==
  /\ cpc[c] = "await" /\ Delivered(c, "TASK_RESPONSE") /\ Take(c)
  /\ ctask' = [ctask EXCEPT ![c] = Head(toClient[c]).task]
  /\ Step(c, "compute")
  /\ UNCHANGED <<mainVars, masterVars, acceptVars, handVars, toMaster>>

TakeNoWork(c) ==
  /\ cpc[c] = "await" /\ Delivered(c, "NO_WORK") /\ Take(c)
  /\ Step(c, "top")
  /\ UNCHANGED <<mainVars, masterVars, acceptVars, handVars, ctask, toMaster>>

TakeShutdown(c) ==
  /\ cpc[c] = "await" /\ Delivered(c, "SHUTDOWN") /\ Take(c)
  /\ Step(c, "stopped")
  /\ UNCHANGED <<mainVars, masterVars, acceptVars, handVars, ctask, toMaster>>

SendResult(c) ==
  /\ cpc[c] = "compute"
  /\ Post(c, Msg("COMPUTATION_RESULT", ctask[c]))
  /\ ctask' = [ctask EXCEPT ![c] = NoTask]
  /\ Step(c, "top")
  /\ UNCHANGED <<mainVars, masterVars, acceptVars, handVars, toClient>>

ClientStep(c) ==
  SendCpuInfo(c) \/ RequestTask(c) \/ TakeTask(c) \/ TakeNoWork(c)
  \/ TakeShutdown(c) \/ SendResult(c)

\* Mutant: stop() closes the socket without waiting for the worker.
LeaveAtOnce(c) ==
  /\ cpc[c] \in {"top", "await", "compute"}
  /\ Step(c, "closed")
  /\ ctask' = [ctask EXCEPT ![c] = NoTask]
  /\ toClient' = [toClient EXCEPT ![c] = <<>>]
  /\ UNCHANGED <<mainVars, masterVars, acceptVars, handVars, toMaster>>

\* stop() clears running_, which the worker reads at the top of its loop only,
\* and joins it; then disconnect() closes the socket.
Leave(c) ==
  /\ cpc[c] = "top"
  /\ Step(c, "closed")
  /\ UNCHANGED <<mainVars, masterVars, acceptVars, handVars, ctask, netVars>>

\* The process dies.  Its kernel closes the socket; of what it had sent a
\* prefix still arrives.
Crash(c) ==
  /\ c \in MayCrash
  /\ cpc[c] \in {"hello", "top", "await", "compute"}
  /\ Step(c, "crashed")
  /\ ctask' = [ctask EXCEPT ![c] = NoTask]
  /\ toClient' = [toClient EXCEPT ![c] = <<>>]
  /\ \E n \in 0 .. Len(toMaster[c]) :
       toMaster' = [toMaster EXCEPT ![c] = SubSeq(@, 1, n)]
  /\ UNCHANGED <<mainVars, masterVars, acceptVars, handVars>>

-----------------------------------------------------------------------------
Next ==
  \/ SetMatrices \/ MainStep \/ Register
  \/ \E c \in Clients :
       \/ Accept(c) \/ HandlerStep(c) \/ SpuriousWake(c)
       \/ Connect(c) \/ ClientStep(c) \/ Leave(c) \/ Crash(c)

Spec == Init /\ [][Next]_vars

(* Fairness: the scheduler runs every thread that can take a step.  Nobody   *)
(* owes the system a connection, a departure, a crash, the Enter key or a    *)
(* spurious wakeup.                                                          *)
Fairness ==
  /\ WF_vars(SetMatrices)
  /\ WF_vars(RaiseFlag \/ NotifyAll \/ GetResult)
  /\ WF_vars(Register)
  /\ \A c \in Clients : /\ WF_vars(Accept(c))
                        /\ WF_vars(HandlerStep(c))
                        /\ WF_vars(ClientStep(c))

FairSpec == Spec /\ Fairness

-----------------------------------------------------------------------------
(* Where a task is.                                                          *)

Carried(ch) == {ch[i].task : i \in 1 .. Len(ch)} \ {NoTask}

\* The task a handler holds and has not stored.
Held(c) == IF hpc[c] = "bump" THEN {} ELSE {htask[c]} \ {NoTask}

\* The tasks on connection c that have not been stored.
InHand(c) == Held(c) \cup ({ctask[c]} \ {NoTask})
             \cup Carried(toMaster[c]) \cup Carried(toClient[c])

Queued  == {queue[i] : i \in 1 .. Len(queue)}
Created == IF mpc = "setup" THEN {} ELSE TaskIds
Missing == {t \in Created : /\ t \notin Queued \cup written
                            /\ \A c \in Clients : t \notin InHand(c)}
Crashed == {c \in Clients : cpc[c] = "crashed"}

-----------------------------------------------------------------------------
(* Safety.                                                                   *)

Messages == [type : {"CPU_INFO", "TASK_REQUEST", "COMPUTATION_RESULT",
                     "TASK_RESPONSE", "NO_WORK", "SHUTDOWN"},
             task : TaskIds \cup {NoTask}]

\* Every variable has its type.
TypeOK ==
  /\ mpc \in {"setup", "enter", "flag", "notify", "polling", "got"}
  /\ total \in {0, NumTasks} /\ started \in BOOLEAN
  /\ queue \in Seq(TaskIds) /\ completed \in Nat
  /\ written \subseteq TaskIds /\ result \subseteq TaskIds
  /\ accepting \subseteq Clients /\ registered \subseteq Clients
  /\ counted \subseteq Clients /\ count \in [Clients -> Int]
  /\ perf \in [Clients -> Speeds \cup {0, NoEntry}]
  /\ hpc \in [Clients -> {"none", "info", "init", "recv", "check", "block",
                         "wait", "reply", "perf", "count", "write", "bump",
                         "close", "exited"}]
  /\ htask \in [Clients -> TaskIds \cup {NoTask}]
  /\ cpc \in [Clients -> {"out", "hello", "top", "await", "compute", "stopped",
                         "closed", "crashed"}]
  /\ ctask \in [Clients -> TaskIds \cup {NoTask}]
  /\ toMaster \in [Clients -> Seq(Messages)]
  /\ toClient \in [Clients -> Seq(Messages)]

\* A task is in one place at most: once in the queue, on one connection, or
\* stored.  No two handlers ever store the same tile, which is what allows
\* processResult to write resultMatrix_ without a lock.
TaskPlacedOnce ==
  /\ \A i, j \in 1 .. Len(queue) : queue[i] = queue[j] => i = j
  /\ Queued \cap written = {}
  /\ \A c \in Clients : /\ InHand(c) \cap (Queued \cup written) = {}
                        /\ \A d \in Clients \ {c} : InHand(c) \cap InHand(d) = {}

\* A task disappears only with a client that died, one task with each: a client
\* that is stopped (Client::stop) finishes and delivers the task it holds.
LossNeedsCrash == Cardinality(Missing) <= Cardinality(Crashed)

\* completedTasks_ counts the stored tiles: it runs behind only by the handlers
\* between storing a tile and counting it, and never runs ahead, so isComplete
\* means that every tile has been stored.
CompletionCountsTiles ==
  completed + Cardinality({c \in Clients : hpc[c] = "bump"})
    = Cardinality(written)

\* The matrix getResult returns to the main thread has all its tiles, and no
\* handler is still storing one when isComplete is true.
ResultComplete ==
  /\ mpc = "got" => result = TaskIds
  /\ isComplete => \A c \in Clients : hpc[c] # "write"

\* A client is told to shut down only when all tiles are stored: none is sent
\* away while a task could still come back to the queue or be handed to it.
ShutdownOnlyWhenDone ==
  \A c \in Clients :
    cpc[c] = "stopped" \/ (\E i \in 1 .. Len(toClient[c]) : toClient[c][i] = Shutdown)
      => written = TaskIds

\* While a task is queued no request is refused: a handler that serves a
\* request has a zero count, because the result of its client's previous task
\* precedes the request, so the load balancing never holds a task back.
QueuedTaskIsGranted ==
  [][\A c \in Clients :
       hpc[c] = "check" /\ hpc'[c] = "reply" /\ queue # <<>>
         => htask'[c] = Head(queue)]_vars

\* A tile is stored once, and a stored tile stays.
TileStoredOnce ==
  [][/\ written \subseteq written'
     /\ \A c \in Clients : hpc[c] = "write" /\ hpc'[c] = "bump"
                            => htask[c] \notin written]_vars

-----------------------------------------------------------------------------
(* Liveness, under FairSpec.                                                 *)

\* A handler that entered the wait set after notify_all had been called.
Stranded(c) == hpc[c] = "wait" /\ mpc \in {"polling", "got"}

Idle(c) == cpc[c] \in {"out", "stopped", "closed", "crashed"} \/ Stranded(c)

\* A computation that has started ends with the result in the hands of the main
\* thread, unless a client died with a task or no client is left to work.
JobEnds ==
  <>[](started => \/ mpc = "got"
                  \/ Missing # {}
                  \/ \A c \in Clients : Idle(c))

\* Once every tile is counted, every client is released: none polls for ever.
ClientsReleased == <>[](isComplete => \A c \in Clients : Idle(c))

-----------------------------------------------------------------------------
(* What the comments and messages of the program say and the code does not   *)
(* do; each is the subject of a run that TLC must refute.                    *)

\* master.cpp:104: the notification reaches the waiting handlers: none stays in
\* the wait set once the computation has started.
WaitersAreNotified ==
  \A c \in Clients : (hpc[c] = "wait" /\ started) ~> hpc[c] # "wait"

\* master.cpp:450: the work of a client that leaves is redistributed.
NoTaskLost == Missing = {}
=============================================================================
