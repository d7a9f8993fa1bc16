# Verification of Dist_training

The repository holds two programs. The first multiplies matrices with a master
that hands out tiles of the result to clients (`master.cpp`, `client.cpp`,
`NetworkMessage.cpp`). The second, under `Endsem/`, is a backend of ggml that
keeps tensors on a remote server (`ggml-rpc.cpp`, `RPC-Server.cpp`) and the
backend layer above it, whose scheduler spreads a graph over several backends
(`ggml-backend.cpp`). This directory models both in
TLA+, checks small instances with TLC, and proves the results that matter most
for every instance with TLAPS.

## The system

### Master and clients

| Component | State | Operations | Where |
|---|---|---|---|
| Dispatcher | `taskQueue_`, `completedTasks_`, `totalTasks_`, `computationStarted_`, `resultMatrix_`, `clientTaskCounts_`, `clientPerformance_` | `setMatrices`, `startComputation`, `isComplete`, `getResult`, `handleClient`, `processResult` | `master.cpp` 81-174, 213-446 |
| Lifecycle | `running_`, `serverSocket_`, `clientThreads_` | `start`, `acceptConnections`, end of `handleClient`, `stop` | `master.cpp` 15-79, 182-210, 379-396 |
| Tiling | the tasks | `createTiledTasks` | `master.cpp` 125-164 |
| Client | its socket, `running_`, its matrices | `connect`, `workerLoop`, `compute…`, `stop` | `client.cpp` |
| Framing | the bytes on a socket | `createMessage`, `sendMessage`, `receiveMessage` | `NetworkMessage.cpp` 135-232 |
| Test bench | none | brute force and Strassen multiplication, comparison with the result of the clients | `testbench.cpp` |

The main thread creates the tasks, waits for a key, sets a flag, and polls
`isComplete`. An accept thread starts one handler thread per connection. A
client asks for a task, computes it, sends the result, and asks again; its
handler waits until the computation has started, takes a task from the queue
(or answers `NO_WORK`, or `SHUTDOWN` when all is complete), and stores results.
Threads share the state above under three mutexes (`clientsMutex_`,
`taskMutex_`, `perfMutex_`), two atomics, and, for `resultMatrix_`, nothing.

What is hard: which handler stores what when; the wait for the start; clients
that leave or die with a task; descriptors that come back; `stop` against the
accept thread and the handlers; a byte stream that stops anywhere.

What makes it correct: a task is in one place; the count of completed tasks
means that the tiles are there; nobody copies or stores an element that
somebody else is storing; a client is sent away only at the end, and then each
is; a task is never held back while a client asks; the tiles partition the
matrix; handlers do not share a descriptor; a closed connection is forgotten
by every handler that is awake.

### Remote buffers

| Component | State | Operations | Where |
|---|---|---|---|
| RPC client | the weak socket of `get_socket`, the contexts of buffers (socket, `remote_ptr`) | alloc, free, clear, set, get, copy, graph compute | `ggml-rpc.cpp` 314-826 |
| RPC server | `buffers` of the session | one handler per command, the session's end | `ggml-rpc.cpp` 867-1582 |
| Tensor cache | files named by a hash | `set_tensor`, `set_tensor_hash`, `get_cached_file` | `ggml-rpc.cpp` 1035-1147 |
| Server program | the cache directory | start | `RPC-Server.cpp` |
| Graph serialization | none | `serialize_graph`, `create_node` | `ggml-rpc.cpp` 510-538, 727-762, 1004-1032, 1256-1324 |

A process opens one connection, which lives as long as a buffer or a call uses
it. The server accepts one connection, serves it until it ends, frees what it
had allocated and accepts the next. Large tensor data is offered by its hash
first; a server with a cache directory takes it from a file.

What is hard: the end of either side in the middle of a call, sessions that
queue, addresses that the allocator uses again, files that outlive the server
that wrote them. What makes it correct: a process sees a private memory; both
ends agree on the buffers; nobody waits for itself; a hit is a set.

### Scheduler

| Component | State | Operations | Where |
|---|---|---|---|
| Backend scheduler | `is_reset`, `is_alloc`, `cur_copy`, the backend and the copies of each tensor, the splits, the backend ids of this and the last graph, the events | `reset`, `reserve`, `alloc_graph`, `graph_compute`, `graph_compute_async`, `synchronize`, `set_tensor_backend` | `ggml-backend.cpp` 609-1642 |
| Graph copy | none | `graph_copy`, `compare_graph_backend` | `ggml-backend.cpp` 1646-1855 |

A user builds a graph, may assign nodes to backends, allocates and computes it.
`split_graph` assigns a backend to every node in four passes, cuts the graph
into splits that run on one backend, and makes a copy of each source that the
backend of a split cannot use. `compute_splits` copies the inputs of a split and
launches it. Some backends queue what they are given and work on while the host
thread prepares the next splits and the next computation; with pipeline copies
(`n_copies > 1`) the next computation uses another copy, and an event says when
a copy may be used again. One backend may be the RPC client: its splits go over
the wire as a graph and are computed by the server.

What is hard: copies that are written while a queue still reads them, the state
that remains between graphs, failures between two splits, the passes on graphs
with views and shared sources. What makes it correct: a computation gives what
evaluating the graph in order would give; assignments are kept; a server
computes the graph that was split; a call returns.

## The modules

| Module | What it is |
|---|---|
| `Dispatch` | the dispatcher with its clients, threads and connections |
| `DispatchInvariant` | its inductive invariant `IInv` |
| `DispatchProofs` | proofs about `Dispatch` |
| `MCDispatch` | the instances TLC checks (`MCDispatch.cfg`, `DispatchStrandedHandler.cfg`, `DispatchLostTask.cfg`) |
| `Tiling` | `createTiledTasks` as operators |
| `MatrixJob` | the elements of a job: compute, store without a lock, copy without a lock; extends `Tiling` |
| `MCMatrixJob`, `MatrixJobProofs` | its instances, and proofs about it and about `Tiling` |
| `Lifecycle`, `LifecycleProofs` | accept thread, thread table, where a handler waits, and `stop`, and proofs |
| `Channel` | abstract: what a direction of a connection promises |
| `Framing`, `FramingProofs` | `sendMessage` and `receiveMessage` over bytes; implements `Channel`, which is proved |
| `RemoteMemory` | abstract: what remote buffers promise |
| `Rpc`, `MCRpc` | processes, the server, its sessions and its cache; implements `RemoteMemory` |
| `RpcProofs` | proofs about `Rpc`: connections, types, the agreement on buffers, and the refinement of `RemoteMemory` |
| `Strassen` | the multiplications of the test bench; checked with `MCMatrixJob` |
| `SchedSplit` | the passes of `split_graph` as operators on graphs |
| `RpcGraph` | how a graph is put on the wire and built again by the server |
| `GraphCopy` | how a graph is copied to another backend and compared with it; uses the tensors of `RpcGraph` |
| `Sched` | the scheduler with its user and its backends, for any plans |
| `SplitProofs` | proofs about the passes of `SchedSplit`, for any graph, and about what the operations of a plan read |
| `SchedProofs`, `SchedResultProofs` | proofs about `Sched`: types, splits, assignments and the copies in use; the results of computations. Each extends the one before, the first extends `SplitProofs` |
| `SchedPlans` | the plans: composes `SchedSplit`, `RpcGraph` and `GraphCopy` |
| `MCSched` | the instances of `Sched` with the plans of `SchedPlans` |
| `Tables` | makes TLC compute a function once |

### Correspondence to the code

**Dispatch.** `mpc` and `hpc[c]` are program counters of the main thread and of
the handlers: one action is what happens between two points at which another
thread can see a difference. So the read of the flag under `taskMutex_`
(`FindNotStarted`), the entry into the wait set (`EnterWait`), the store of a
tile (`StoreTile`) and the increment of `completedTasks_` (`CountCompletion`)
are steps of their own. `taskMutex_` is held across steps only between
`FindNotStarted` and `EnterWait` (`TaskMutexFree`); `perfMutex_` never. A member
of `Clients` is one connection. Its socket is two sequences of messages, the
promise of `Channel`; a process that dies (`Crash`) leaves a prefix of what it
had sent. `count` and `perf` keep the values of the two maps, `counted` the
keys of the first, from which nothing is ever erased. `executionTimeMs`, which
no message carries, makes `UpdateClientPerformance` choose. Ratios are compared
as the doubles are: `0/0` compares false and `n/0` is infinite
(`WeighsMore`).

**MatrixJob.** A handler stores one element per step, the main thread copies one
element per step. An element is the place it was computed for and its sum; a
read outside a client's matrix contributes any value of `Garbage`. The order in
which handlers take tasks is arbitrary here, so the results hold for whatever
`Dispatch` does.

**Lifecycle.** Descriptors (`Fds`) are given to any connection while they are not
open. `clientThreads_` maps them to threads. `std::terminate` is a variable:
after it nothing happens. A handler is in `receiveMessage` (`serve`), where it
gets the request of its client (`ReadRequest`) or sees that it left
(`SeeDisconnect`), or in the wait on `taskCV_`, where it can do neither: it has
found the predicate false (`drowsy`), is in the wait set (`asleep`), or has been
woken (`woken`) and looks again (`Retest`). A client has one request under way
(`asked`). `StartComputation` is one step here, for the sleepers it wakes; its
own steps are in `Dispatch`.

**Framing.** A byte is a message number and an offset, so a byte out of place is
visible. `SendChunk`, `RecvHeader` and `RecvPayload` move any number of bytes
that the call of `send` or `recv` may move.

**Rpc.** A call is one request and one response, or two of each for data above
`HASH_THRESHOLD`. `ctx`, `sock` and `using` are the three places that keep the
connection's `shared_ptr` or `weak_ptr`; the client's end is closed when the
last of the owners goes (`Return`). The server's state of a session is `mem`, by
address. `cached` is the file of each hash, the first `len` pieces of some data,
and survives everything. `Hash` is any function, so that data may collide, and
`WriteFails` says whether a file may be refused by the disk or cut short, which
`set_tensor` does not look at (`ServeSet`, `SetSaved`). A hit writes what the
file has over what is there (`Over`). All buffers have one size. A file that is
there and cannot be read ends the server, like `Kill`; one that is read is read
to its end. `query` stands for the commands that change nothing another command
can see.
A graph has one node; how a larger one is put on the wire is in `RpcGraph`.

**Strassen.** A matrix is a function on pairs. `Factors` and `Combine` are the
lines of `M1` to `M7` and `C11` to `C22`; the recursion is the code's. Elements
are integers: the tolerance of `compareMatrices` is about rounding.

**SchedSplit.** A graph is a record of nodes, leafs and tensors. `Pass1` to
`Pass4` map the table of backend ids to the next one; `Pass5` is a loop over the
nodes that carries the splits, the copies made so far and the sources as they
are rewritten. `Along` is a loop: a function from the number of turns to what
they have made, which unlike a fold can be reasoned about. A *place* is a
tensor, the backend it was copied to and the number of the copy. `Split` is what
`split_graph` leaves behind, with the failures of its assertions as `abort`.

**RpcGraph.** `AddTensor` and `CreateNode` are the two recursions. The client's
tensors are its places; the server's are numbered as they are made. The buffer
of a tensor that is not the server's (line 516 reads the context of another
backend's buffer as its own) is an id that the server does not know.

**GraphCopy.** Like `RpcGraph`, with the memory of the copy: `InitTensor` fills
it, and `CompareGraph` runs both graphs node by node. A value is the term that
computed it, so two values are equal only if the same operations were applied to
the same data.

**SchedPlans.** A plan is a split graph with the operations that each backend will
be given: tables over the graphs, the assignments that a user may ask for and
the copy numbers. For a split on an RPC server the operations are those of the
graph the server builds.

**Sched.** The graphs and the plans are parameters; the state machine picks from
them. `SoundGraph` is what ggml and its user make sure of before a graph comes
to `split_graph`. `IsPlan` says that a plan is what `Split` makes of its graph,
with operations that read what the nodes of their split read. `OrderedGraph` and
`PrivateQueues` are what the results rest on besides: the order of a graph, and
that a backend with a queue keeps its memory to itself (see the theorem
`ResultsAreRight`). `phase`, `split` and `input` are the host thread's program
counter in `compute_splits`; `queue[b]` is what an asynchronous backend has to
do, and `event[b][c]` the number of entries of the queue before the event. A
value is the number of the computation whose inputs it came from: mixing two
shows. `wrong` and `excused` are history: the computations that had a wrong
operand, and those for which the code gives no guarantee, see below. A graph is
split once (`built`), since `split_graph` rewrites the sources of its nodes;
`NewGraph` is the user's reset and the building of a graph.

## What TLC checks

A run with a number of states passes and explores them all. The others stop at a
counterexample: each states what a comment, document or test of the repository
says and the code does not do.

| Run | Instance | States | Shows |
|---|---|---|---|
| `dispatch` | 2 connections, both may die, 3 tiles, speeds 1 and 2, fair | 408,718 | type, placement and loss of tasks, completion, shutdown, the inductive invariant, no refusal, one store per tile; the job ends and clients are released |
| `stranded_handler` | 2 connections, 2 tiles, no crash, fair | | a handler misses `notify_all` and sleeps for ever |
| `lost_task` | 2 connections, one may die | | the task of a client that dies is lost |
| `matrix_job` | 3 handlers, all sizes to 3 x 5, tiles of 2 x 2; matrices to 6 x 6 for the test bench | 9,368 | no race, no index out of range, partition, every element at its place; Strassen is the product for powers of two |
| `test_bench` | sizes to 3 | | at size 3 neither Strassen's product is right, nor that of the clients, to whom the factors are never sent |
| `lifecycle` | 2 connections, 2 descriptors, fair | 105,408 | handlers own their descriptors and keep their entries; what `stop` leaves; handlers that are awake notice departures |
| `descriptor_reuse` | 2 connections, 1 descriptor | | a reconnection terminates the master |
| `stop_deadlock` | 1 connection, fair | | `stop` waits for ever for a handler that waits for `stop`'s mutex |
| `framing` | 3 messages with payloads of 0, 1 or 4 bytes, header 2, stream of 3 | 4,968 | refinement of `Channel`; every message arrives or the end is told |
| `remote_buffers` | 2 processes with 2 and 1 buffers, 2 addresses, 2 connections, kills at any time, files that may be short, fair | 588,538 | refinement of `RemoteMemory`; one connection; agreement on buffers; who waits in HELLO |
| `torn_file` | the same with 3 connections, files whole unless the server is killed while it saves | | a hit on a short file sets nothing and reports success |
| `scheduler` | 4 backends, 6 graphs of at most 6 nodes, 1 or 2 copies, 3 computations, fair | 307,435 | results of computations, splits, resets, assignments, copies in use, graphs on the wire and copied graphs; calls return |

### Bounds, and why they are enough

- *Dispatch*: two connections are what the load balancing, the placement and the
  release need (it compares pairs; placements are statements about pairs). Three
  tiles give the queue every relation to the number of clients that the
  balancing distinguishes: longer, equal, shorter, empty. Two speeds allow every
  order of the weighted counts. The theorems remove the bounds for safety.
- *MatrixJob*: 3 x 5 with tiles of 2 has whole tiles, tiles cut in each
  dimension, and tiles cut in both; smaller matrices have a single row, column
  or element. Handlers are interchangeable, which is the symmetry used.
- *Lifecycle*: of two connections the second may get the descriptor of the first
  while that handler is still to take out its entry, or another one while the
  first handler sleeps through the start. The theorems have any number of both.
- *Framing*: a payload larger than the stream, one that is smaller, and none;
  three messages put two boundaries in the stream at once.
- *Rpc*: one process with two buffers can confuse its own, two processes compete
  for the server, addresses are fewer than buffers over time. `MaxSessions` is
  the bound on connections. Tensor data is one of two values, one of them large;
  `NumPieces = 1` makes a file empty or whole. One
  value is large, so that in this instance nothing collides. More values, a hash
  that is not injective and more pieces are in `BuffersAreMemory`.
- *Strassen*: both multiplications are bilinear for each size, so pairs of
  matrices with a single one decide. Sizes to 6 include 4, two levels of
  recursion. The smallest size for which the assertion on `testbench.cpp:172`
  fails is 3; the default of the bench, 1000, comes to 125. `test_bench` has a
  single property for both assertions of the bench, that one of the two holds;
  its violation refutes both.
- *Sched*: `MaxComputes = 3` with two copies brings the first copy round again
  while the second may be in use. `MaxSplitInputs = 2` makes splits full. The
  graphs: a pipeline over accelerator, server and CPU; an accelerator's split
  that reads a copy after the last event; the same with a later split that would
  record one, if none failed before; views, shared sources and a view of
  another backend's tensor on the server; operations that are offloaded, and one
  upgraded from the CPU to a library with the same memory; more sources than a
  split has room for. A queue is a sequence without a bound of its own.

Deadlock checking is off in every cfg because each system may really stop: the
clients have gone, the main thread has its result, the process has ended.

### Fairness

Threads and processes that can take a step are scheduled: weak fairness of the
main thread's steps, the accept thread, each handler, each client, the
receiver, the server, a process inside a call. Mutexes are held for one step, or
until a step that is fair, so weak fairness is enough. Nothing is assumed of
users and of failure: connections, requests, departures, crashes, keys, spurious
wake-ups, a server that is killed or started again, a process that exits. So a
handler that sleeps on `taskCV_` sleeps until it is notified, which may be never:
`DisconnectedIsForgotten` does not promise that it sees its client leave. Until
it is woken `clientThreads_` has an entry without a client, and
`startComputation` takes it for one (`master.cpp:93`).

In `Sched` the host thread goes on inside a call, and a queue is worked off;
nothing is assumed of the user, who may stop calling.

`JobEnds` has the conditions the code needs: that no task was lost with a
client, and that some client is left which is not stranded. Each of the
conditions is the subject of a violation run. `HelloAnswered` says for whom a
process may wait for ever: another one that stays connected.

## What TLAPS proves

Everything in this section holds for every value of the constants under the
named assumptions. Each invariant was an invariant of a TLC run first.

### Dispatch

For every set of connections, number of tiles and set of speeds
(`DispatchAssumption`: finite sets, positive speeds):

- `Invariance`: `Spec => []IInv`.
- `TypeCorrect`, `NoTileShared` (a task is in one place), `CompletionExact`
  (`completedTasks_` against the tiles), `ResultIsComplete`, `ShutdownIsLast`,
  and as action properties `NoRefusal` and `StoredOnce`.
- `LossOnlyByCrash`: no more tasks are missing than clients have died.

None of these is inductive. That a handler which serves a request has a zero
count, and that two handlers never hold the same task, hold only because a
client and its handler take turns, and whose turn it is can be seen only in the
messages on the wire. `Conn(c)` lists the states of a connection: both
sequences with both program counters. `Hands`, `Counts`, `Stored` and
`Progress` relate the task in hand, the count, the stored tiles and the main
thread to it. The proof has one lemma for each conjunct and in it one step for
each action; the actions' effects on the place of tasks are lemmas of their own.
Cardinalities (`CompletionCountsTiles`) use the library's theorems on finite
sets. For losses `LossInv` adds that a client which left by itself asks no more,
and that the missing tasks are no more than the dead clients which would have
asked again.

### Tiling and MatrixJob

For every `TILE_SIZE`, every size of matrix and every set of handlers
(`TilingAssumption`, `JobAssumption`): `PartitionHolds`, by the division lemma
`Quotient` (an element lies in the i-th tile iff its index divided by the size
is i) in each dimension; `JobPartition` carries it into `MatrixJob`.

`JobInv` is the invariant of the elements. Its first part, `TaskInv`, says where
each task is: the queue is the rest of the list, a handler holds a task that is
neither in the queue nor with another handler, and the tasks handed out
are those counted and those held. Its second part says of every element that it
is in the result, or that its task is queued or held by a handler which has not
come to it yet (`StoredOrAhead`), and of the copy of `getResult` that it agrees
with the result up to the element it reads (`CopyFollows`). `JobNoRace` (nobody
copies or stores an element that somebody else is storing, without a lock)
follows from the two parts and the partition; `JobInBounds`, `JobPlaced` and
`JobType` as well.

### Lifecycle

For every set of connections and descriptors (`LifecycleAssumption`):
`LifecycleType`, `DescriptorsOwned` (with the types, `OwnDescriptor` is
inductive), `HandlersKeepEntries` (a handler that runs has its entry in
`clientThreads_`) and `StopLeavesOne` (once `stop` has returned at most one
handler still runs).

### Framing

For every number of messages, set of payload sizes, header size and capacity of
the stream (`FramingAssumption`): `FramingType`, `BytesInPlace` and
`FramingIsChannel`. `FInv` says that what the receiver has in its two buffers
and what is on the wire are one piece of the sequence of all bytes: it starts
where the last message received ended, has no gap (`InOrder`), and ends where
the sender goes on (`GoesOn`). From it a message that is complete at the
receiver is the message that was sent, so the step that returns it is a step of
`Channel`; a close in the middle of a message is the end of the channel.

### Rpc

For any number of processes, buffers, addresses, sessions, values and pieces
(`RpcAssumption`):

- `ConnectionsUnique` (`OneConnection`). It rests on `OpenIsRemembered`: the only
  connection of a process that can be open is the one it is making, or after
  HELLO the one that `get_socket` remembers. So when `get_socket` finds nothing
  alive, nothing is open.
- `RpcType` and `BuffersAgree` (`SameBuffers`), from `BInv`. Agreement is not
  inductive: between the two ends are a request or a response that one of them
  has acted upon and the other has not. `Agree` states the difference that each
  message makes; `Requests` and `Responses`, that a message belongs to the call
  its process is in; `Serving`, that there is one session served, that one still
  to say HELLO has nothing, and that one which ended left nothing; `InCall`,
  that a call uses an open connection of its own process.
- `BuffersAreMemory`: `Spec => ImplementsMemory`, without a condition: the server
  may be killed at any time, files may be short and data may collide. The mapping
  takes the memory behind a slot to be what the served session has at its address
  (`At`) and a call to be done once its response is there (`Job`). It needs,
  beyond `BInv`, `FilesSound` (a file has pieces of data with its hash, and all
  of them unless something cut it short) and that slots of processes which are
  not served stand for nothing. The cache shows in one place of the abstract
  memory: a set of large data leaves one of `Outcomes`, which is that data, or a
  file of data with the same hash over what was there, short only if the server
  can be killed while saving or a write can fail.
- `SetLeavesItsData`: without these three faults `Outcomes` has one element, the
  data that was to be set.
- `HitIsRight`: without them the comment `ggml-rpc.cpp:572` is right
  (`HitIsSameData`). Each condition is needed. The run `torn_file` refutes the
  comment with a kill; with `KillWhen = {}` TLC refutes it in the same instance
  for `WriteFails = TRUE`, and for two large values with one hash.

### Scheduler

For any number of backends, any graphs, copies and computations, and any set of
backends that queue. `GraphAssumption` is `SoundGraph` for each graph: nodes are
in an order, views are of tensors that are none, an operation in place has
memory already, the CPU can compute everything, a user assigns a tensor without
memory to a backend that can compute it. It also says that of two backends with
the same buffer type both can use a result that one can: pass 3 moves operations
on that ground (comment at line 1003). `PlanAssumption` is `IsPlan`: the plans
are those of the passes. TLC evaluates both for the instance, and also
`FlowAssumption` and `LayoutAssumption` (below), which only `ResultsAreRight`
needs.

- `SplitsAreSound` (`SplitsSound`): every tensor gets a backend, the splits cover
  the nodes in their order, each operation is on a backend that can compute it, and reads memory that this
  backend can use.
- `AssignmentsKept` (`AssignmentKept`): what the user assigned stays, or moves
  to a backend of higher priority with the same buffer type.
- `CopiesKept` (`CopyNotInUse`): the host does not overwrite a copy that a queued
  operation is still to read, unless that computation is excused (below).
- `ResultsAreRight` (`ResultsRight`): every node is computed from operands of its
  own computation, and when a call has returned and the queues are empty every
  node has its result, again unless the computation is excused.
- `ResetClean` (`ResetMeansClean`) and `SchedType`.

**The passes.** `SplitProofs` goes through `split_graph` pass by pass. Through
the first four, `Assigning` relates the table of backend ids to what the user
asked (`AssignmentKept` is its first part), to what each backend can compute and
to the memory of tensors that have some; `ViewsWait` says that views are
unassigned up to pass 4, `ViewsFollow` that after it they are where the tensor
is that they view. Pass 3 leaves no operation unassigned (`NodesSettled`), which
is the assert of line 1112, and pass 4 no tensor (`AssignedAll`). In pass 5 `Starts` says where splits begin and on
which backends, `Fits` that the copies are just those of the inputs of the
splits and that no tensor is an input of two splits on one backend, `Needed` that an input
is read by an operation of its split which could not use the original, `Reads` that
the sources which the loop has passed are ones that the backend can use or
copies that an input of this split or an earlier one provides (`Served`), and
the rest are still the originals. The four together are what a turn of either
loop keeps: a node can open a split, and each of its sources can make an input
and a copy. From them `PlanCopies` gives what `compute_splits` relies on
(`SoundPlan`: an operation reads originals, and copies that are inputs of its
own split or an earlier one on its backend; no tensor is copied twice to a
backend), `PlanSplits` what `SplitsSound` says, and `PlanKeeps` what
`AssignmentKept` says.

The provers have no induction, so a loop is a function of the number of turns
(`Along`), and what holds before the loop and is kept by each turn holds after
it by the least counterexample (`Induct`); that there is such a function is
proved in the same way (`Loop`).

**The copies.** `SInv` is the invariant. Its core, `Guarded`, says of every
queued operation of a computation which is not excused, and of every copy it
reads, that the event of that copy comes after it, or is still to be recorded
(`Pending`): the host is in the splits of this computation, the copy belongs to
its turn, a split to come on that backend has inputs, and the tensor has been
copied there already. The second case is why the passes come first: until the
event is recorded the copy is kept only because no later split copies the same
tensor again (`Fits`). `QueueReads` says that a queue holds reads of its own
backend's copies, `InSplits` and `TablesKnown` that the plan in use is one of
those for the present graph. With a single copy there are no events, and the
wait for an empty queue is enough.

**The results.** `SoundFlow` states of a plan what makes its order right. Each
operation has its place for itself, and reads weights, what the user wrote,
copies, and results of earlier operations. A backend that queues reads originals
only if it computed them itself, and what it computes is read by others only
through copies, for which `compute_splits` waits (lines 1369-1394). `PlanFlows`
proves it of every plan that the passes make. Two assumptions about graphs and
backends are enough (`FlowAssumption`). `OrderedGraph` says that a node reads
leafs and nodes before it, and that no operation but a view works in place.
`PrivateQueues` says that a backend which queues shares no memory with another
(for `buffer_supported`, line 834, two backends that can use each other's memory
are as good as one, and the host does not wait between them), that the user
writes nothing in that memory, and that what has memory there from the beginning
is weights or a result of that backend alone. The argument: what an operation
reads is a leaf or a node before it (`Earlier`), whose operation is in this
split or an earlier one (`PlanFollows`, `WritersAre`); an original it reads is in
memory that its backend can use (`Served`, `MemoryIs`), so with a queue on either
side the two backends are the same (`Private`). An input of a split is one that
the split's backend cannot use (`Needed`), so it was computed in an earlier
split; and the host, which waits for the backend that the input is assigned to,
waits for the one that computed it, also if the input is a view.

`LayoutAssumption` is the one assumption about plans, and about `alloc_splits`.
The host may split and allocate the next graph while queues are at work, and the
allocator is asked to move only if a node's buffer type differs from that of the
same position in the last graph (`LaidAlike`, line 1322). The model names memory
by tensor, the allocator, which is not in this repository, lays it out by
position; the assumption says that where it sees no difference the two agree on
which results belong to a queue. Two splits of one graph can differ otherwise
only in what the user assigned.

`RInv` is the invariant, on top of `SInv`. Its core, `Fed`, says of every
operand of every queued operation of a computation that is not excused, that an
earlier entry of the same queue and computation will write it, or that it is
right in memory and nothing before it in the queue writes it. So an operand is
right when the operation is reached, whatever other queues do, because what is
queued elsewhere does not touch it: `Homes` says that a plan the allocator
remembers assigns everything that is queued to the backend that has it queued.
`Computed`, `Finished` and `InputsCopied` say how far the present computation
is: what its past splits compute is in memory or queued on its backend
(`Settled`), and the copies made so far are right. `Written` and `UserWritten`
say the same of weights and of what the user writes. A copy is the hard case: it
is right at the copy and stays so until it is read because of `CopyNotInUse`,
which is why `Guarded` had to come first.

The effect of running a list of operations (`RunAllEffect`, `RunAllRight`) is
proved by the least counterexample, since induction is not available.

### Only model-checked

- The liveness properties (`JobEnds`, `ClientsReleased`,
  `DisconnectedIsForgotten`, `AllDelivered`, `HelloAnswered`, `ComputeReturns`):
  they need `ENABLED` and fairness, which the prover does not handle.
- `LayoutAssumption`, for the plans of the instance.
- `GraphOverRpc`, `GraphCopyFaithful` and `StrassenOfPowers`. `RpcGraph`,
  `GraphCopy` and `Strassen` have recursive operators, which the provers cannot
  use, and `SchedPlans` extends two of them.

## Disagreements with the repository's own words

| Run | Code | Says |
|---|---|---|
| `stranded_handler` | `master.cpp:102-105`, flag and notification without `taskMutex_` | `master.cpp:104` "Notify all waiting clients" |
| `lost_task` | `master.cpp:371`, nothing requeues | `README.md:10`, `master.cpp:450` "redistribute work" |
| `test_bench` | `client.cpp:51-66`, `master.cpp:237-242`, transfer commented out | `README.md:3`, `testbench.cpp:173` |
| `test_bench` | `testbench.cpp:56`, the half of an odd size | `testbench.cpp:172` "assert(compareMatrices(C_brute, C_strassen))" |
| `descriptor_reuse` | `master.cpp:379`, `384`, `206` | `README.md:10` "Runtime client connection/disconnection" |
| `stop_deadlock` | `master.cpp:72-77`, `382` | `master_main.cpp:74` "shutdown the server" |
| `torn_file` | `ggml-rpc.cpp:1077`, `1092`, a kill while the file is written | `ggml-rpc.cpp:572` "the server has the same data" |

## What the scheduler does not answer for

`ResultsRight` and `CopyNotInUse` excuse computations for which the code gives
no guarantee; each is a condition under which a user of several copies is safe.
The first is against the comment on line 1378, "wait for the split backend to
finish using the input before overwriting it": with data of the user in place of
the graph input of `Uncovered`, no failure, no callback and every graph split
anew, TLC refutes `CopyNotInUse` without its excuse.

- `ggml-backend.cpp:1438`: an event is recorded after splits with inputs only. A
  later split of the same backend that reads an older copy is not covered, and
  the copy may be overwritten while that split is queued (`EventsCover`).
- `1445` and `1214`: the nodes keep the copy number of their split, the
  computation fills the copies of `cur_copy`. Computing an allocated graph a
  second time with several copies reads what the first one copied.
- `1400`: a launch that fails leaves no event behind for what it has queued, nor
  for an earlier split whose reads a later split would have covered with its
  event (`Unguarded`); `cur_copy` stays, and the next computation overwrites
  copies that are still to be read. The second case came out of the proof:
  excusing only a launch that had queued a part, `CopyNotInUse` is violated on
  the graph `interrupted` of `MCSched`, where a split on the CPU fails between
  two of the accelerator.
- A callback that ends a split early (`1429`) leaves nodes that are not computed.

And two that are not about results: `graph_compute_async` of a graph that is not
allocated drops the assignments of `set_tensor_backend` (`1580`); a split without
room for all sources of its last node ends the program (`1211`, `1191`).

Taken for granted: the user writes inputs in host memory, assigns a node only to
a backend that can compute it, and does not split the same graph twice (its nodes
would point into a context that has been freed); the CPU can compute every
operation; `ggml-alloc`, which is not in this repository, gives every tensor its
own memory; no operation works in place; `cpy_tensor_async` refuses, as it does in
both backends here. A split that reads another queue's memory directly, without
a copy, is not synchronized by the code; in the instances only backends that do
not queue share memory.

## Not modelled

- `detectCpuInfo` and the SIMD kernels: a record of which one number is used, and
  functions that nobody calls.
- The fields of serialized messages: straight-line copies. What they lose is in
  the models.
- Backend interface tables, registries, multi-buffers, the CPU buffer type:
  forwarding through function pointers, sequential.
- Arguments, directories, printing, the Makefile.
- In `Rpc`: sizes and bounds of buffers, `send_rpc_cmd_with_retry` (not called),
  several threads in one process (the interface excludes it), more than one
  server.
- In `Lifecycle`: the SHUTDOWN that `stop` sends to every descriptor in the map
  (`master.cpp:75`), which may since belong to another connection;
  `OwnDescriptor` is about what handlers send and receive. The death of the
  master by SIGPIPE, when it writes to a client that is gone: a closed socket
  swallows what is sent, in `Dispatch`.

## Plan

1. Two servers in `Rpc` (the circular wait of `ggml-rpc.cpp:450`), and two
   senders on one socket in `Framing` (`master.cpp:75`).
2. `WorkPool`, an abstract pool of tasks that `Dispatch` implements.
3. The fields of messages (`NetworkMessage.cpp` 5-134) as a round trip.
