------------------------------- MODULE Sched --------------------------------
(***************************************************************************)
(* The backend scheduler of ggml-backend.cpp while a program uses it: the  *)
(* user builds graphs, assigns nodes to backends, reserves, allocates and  *)
(* computes; compute_splits copies the inputs of each split and launches   *)
(* it; backends in Async work through queues of their own, signal events,  *)
(* and the others compute before they return. What the graphs are split    *)
(* into is a parameter; SchedPlans has its value, from the passes of       *)
(* split_graph.                                                            *)
(*                                                                         *)
(* The value of a tensor is the number of the computation whose inputs it  *)
(* was computed from: Weight if from weights alone, Unset if from nothing  *)
(* or from the inputs of two computations.                                 *)
(***************************************************************************)
EXTENDS SchedSplit

CONSTANTS
  Graphs,        \* the graphs a user may build, by name; one in each behaviour
  Plans,         \* Plans[name][ids][n][c]: a graph split with the assignments ids
                 \* and n copies, c the current one, and its backends' operations
  Async,         \* the backends that queue what they are given
  MaxCopies,     \* GGML_SCHED_MAX_COPIES
  MaxComputes    \* bound on the number of computations

VARIABLES
  graph, n_copies, callback_eval,                  \* fixed by the user
  is_reset, is_alloc, cur_copy, hv_ids, hv_copies, \* the scheduler
  plan, backend_ids,
  built,                                           \* the user's graph
  phase, split, input, async,                      \* where the host thread is
  gen, done,                                       \* computations begun; the one that
                                                   \* the graph has the results of, or 0
  queue, event, mem,                               \* the backends
  wrong, excused                                   \* history

schedVars == <<is_reset, is_alloc, cur_copy, hv_ids, hv_copies, plan, backend_ids>>
callVars == <<phase, split, input, async>>
fixed == <<graph, n_copies, callback_eval>>
vars == <<fixed, schedVars, callVars, built, gen, done, queue, event, mem, wrong, excused>>

Copies == 0 .. n_copies - 1
Weight == 0
Unset == -1

NoPlan == [splits |-> <<>>]

-----------------------------------------------------------------------------
(* Where tensors are. Every tensor has memory of its own, and so has every   *)
(* copy of it; a view has that of what it views.                             *)

PlaceOf(g, p, x) == Original(g, x, p.n, p.copy)
Location(g, p, place) == IF place.b = Own THEN PlaceOf(g, p, Base(g, place.t)) ELSE place

BufferAt(g, p, place) ==
  CASE place.b # Own -> bufts[place.b]
    [] place.b = Own /\ Preallocated(g, place.t) -> g.t[Base(g, place.t)].buffer
    [] OTHER -> bufts[p.ids[Base(g, place.t)]]

\* The assignments that the user may ask for.
Asked(g) ==
  {[x \in Tensors(g) |-> IF x \in DOMAIN f THEN f[x] ELSE Unassigned] :
     f \in {h \in [{a[1] : a \in g.asks} -> Backends \cup {Unassigned}] :
             \A x \in DOMAIN h : h[x] # Unassigned => <<x, h[x]>> \in g.asks}}

\* The tensors that the user writes before a computation.
UserTensors(g) ==
  {x \in Range(g.leafs) : g.t[x].input \/ (Preallocated(g, x) /\ ~g.t[x].weights)}

\* The allocator sees no difference between two splits of a graph.
LaidAlike(p, q) ==
  \A i \in DOMAIN p.node_backend_ids \cap DOMAIN q.node_backend_ids :
    bufts[p.node_backend_ids[i]] = bufts[q.node_backend_ids[i]]

\* What ggml builds: the nodes in an order, each of them once, and the leafs; a
\* view is of a tensor that is none, and what views is a view or has memory. A
\* leaf has memory, or the user flagged it as an input. A user assigns a tensor to
\* a backend that can compute it, but no view and nothing that has memory. The
\* CPU can compute everything, and backends with the same buffer type can use the
\* same results (pass 3 takes that for granted).
SoundGraph(g) ==
  /\ g.nodes \in Seq(Tensors(g)) /\ g.leafs \in Seq(Tensors(g))
  /\ Tensors(g) = Range(g.nodes) \cup Range(g.leafs)
  /\ IsInjective(g.nodes) /\ OpNodes(g) # {}
  /\ \A x \in Tensors(g) :
       /\ g.t[x].src \in Seq(Tensors(g))
       /\ ViewOp(g, x) => g.t[x].view_src # None
       /\ g.t[x].view_src # None =>
            /\ g.t[x].view_src \in Tensors(g) /\ g.t[g.t[x].view_src].view_src = None
            /\ ViewOp(g, x) \/ Preallocated(g, x)
            /\ ~g.t[x].input
            /\ \A s \in Sources(g, x) : ViewOp(g, x) => Base(g, s) = Base(g, x)
       /\ g.t[x].weights => Preallocated(g, x)
  /\ \A x \in Range(g.leafs) : g.t[x].view_src = None /\ (Preallocated(g, x) \/ g.t[x].input)
  /\ \A x \in OpNodes(g) :
       /\ CPU \in CanCompute(g, x)
       /\ Preallocated(g, x) =>
            \A b, c \in Backends : bufts[b] = bufts[c] /\ b \in CanUse(g.t[Base(g, x)].buffer)
                                   => c \in CanUse(g.t[Base(g, x)].buffer)
  /\ g.asks \subseteq Tensors(g) \X Backends
  /\ \A ask \in g.asks : /\ ask[2] \in CanCompute(g, ask[1])
                         /\ g.t[ask[1]].view_src = None /\ ~Preallocated(g, ask[1])

\* What a backend is given for node x.
Operation(g, p, x) ==
  [to |-> PlaceOf(g, p, x),
   from |-> Table([j \in 1 .. Len(p.src[x]) |-> Location(g, p, p.src[x][j])])]

\* A plan is a graph as the passes split it, and for each split its operations in
\* the order of the nodes.
IsPlan(g, p, s) ==
  /\ p.abort = s.abort
  /\ ~p.abort =>
       /\ p.ids = s.ids /\ p.splits = s.splits /\ p.copies = s.copies /\ p.src = s.src
       /\ p.copy = s.copy /\ p.n = s.n /\ p.node_backend_ids = s.node_backend_ids
       /\ \A k \in 1 .. Len(p.splits) :
            LET items == p.items[k]
            IN  /\ items \in Seq(Range(items))
                /\ \A i \in SplitOps(g, p, k) : Operation(g, p, g.nodes[i]) \in Range(items)
                /\ \A j \in 1 .. Len(items) : \E i \in SplitOps(g, p, k) :
                     /\ items[j] = Operation(g, p, g.nodes[i])
                     /\ \A l \in 1 .. j - 1 : \A m \in SplitOps(g, p, k) :
                          items[l] = Operation(g, p, g.nodes[m]) => m < i

ASSUME GraphAssumption == \A name \in DOMAIN Graphs : SoundGraph(Graphs[name])

ASSUME PlanAssumption ==
  /\ Async \subseteq Backends /\ MaxCopies \in Nat \ {0} /\ MaxComputes \in Nat
  /\ \A name \in DOMAIN Graphs : \A n \in {1, MaxCopies} : \A c \in 0 .. n - 1 :
       \A ids \in Asked(Graphs[name]) :
         IsPlan(Graphs[name], Plans[name][ids][n][c], Split(Graphs[name], ids, n, c))

\* The nodes are in an order in which they can be computed, none of them in place;
\* weights are leafs, and not inputs.
OrderedGraph(g) ==
  /\ Range(g.nodes) \cap Range(g.leafs) = {}
  /\ \A x \in Range(g.leafs) : ~(g.t[x].weights /\ g.t[x].input)
  /\ \A i \in 1 .. Len(g.nodes) :
       LET x == g.nodes[i]
       IN  /\ ~g.t[x].weights /\ ~g.t[x].input
           /\ ~ViewOp(g, x) =>
                /\ g.t[x].view_src = None
                /\ \A s \in Sources(g, x) :
                     Base(g, s) \in Range(g.leafs) \cup {g.nodes[j] : j \in 1 .. i - 1}

\* A backend that queues shares its memory with no other: it cannot use that of
\* others and they cannot use its own. The user writes nothing in it; what is
\* there from the beginning is weights, or results of its own.
PrivateQueues(g) ==
  /\ CPU \notin Async
  /\ \A b \in Async : \A a \in Backends \ {b} : b \notin CanUse(bufts[a]) /\ a \notin CanUse(bufts[b])
  /\ \A x \in Tensors(g) : Preallocated(g, x) /\ CanUse(g.t[Base(g, x)].buffer) \cap Async # {} =>
       \/ g.t[Base(g, x)].weights
       \/ Base(g, x) \in OpNodes(g) /\ \E b \in Async : CanUse(g.t[Base(g, x)].buffer) = {b}
  /\ \A ask \in g.asks : g.t[ask[1]].input => ask[2] \notin Async

ASSUME FlowAssumption ==
  \A name \in DOMAIN Graphs : OrderedGraph(Graphs[name]) /\ PrivateQueues(Graphs[name])

\* Where the allocator sees no difference, the nodes that are queued stay with
\* their backends.
ASSUME LayoutAssumption ==
  \A name \in DOMAIN Graphs : \A n \in {1, MaxCopies} :
    LET g == Graphs[name]
        sound == {p \in {Plans[name][ids][n][c] : ids \in Asked(g), c \in 0 .. n - 1} : ~p.abort}
    IN  \A p, q \in sound : LaidAlike(p, q) =>
          \A x \in OpNodes(g) : q.ids[x] \in Async => p.ids[x] = q.ids[x]

-----------------------------------------------------------------------------
(* Memory.                                                                   *)

\* By a name of their own TLC computes these parameters once.
GraphTable == Graphs
PlanTable == Plans
G == GraphTable[graph]

Value(m, loc) ==
  CASE loc \in DOMAIN m -> m[loc]
    [] loc \notin DOMAIN m /\ loc.b = Own /\ G.t[loc.t].weights -> Weight
    [] OTHER -> Unset

Store(m, locs, v) == [loc \in DOMAIN m \cup locs |-> IF loc \in locs THEN v ELSE m[loc]]

\* What an operation yields: the one computation that its operands are from.
Combine(values) ==
  LET from == values \ {Weight}
  IN  CASE from = {} -> Weight
        [] Cardinality(from) = 1 -> CHOOSE v \in from : TRUE
        [] OTHER -> Unset

\* An operation of computation k run on memory: item.to := op(item.from).
Run(state, item, k) ==
  LET v == Combine({Value(state.mem, loc) : loc \in Range(item.from)})
  IN  [mem |-> Store(state.mem, {item.to}, v),
       wrong |-> IF v \in {Weight, k} THEN state.wrong ELSE state.wrong \cup {k}]

\* What the user writes before a computation.
WriteInputs(m, p, k) == Store(m, {PlaceOf(G, p, x) : x \in UserTensors(G)}, k)

\* When the allocator moves its buffers, only what the user allocated remains.
Forget(m) == [loc \in {l \in DOMAIN m : l.b = Own /\ Preallocated(G, l.t)} |-> m[loc]]

-----------------------------------------------------------------------------
(* The state of a new scheduler, after the reset at the end of sched_new.    *)

Blank == [x \in Tensors(G) |-> Unassigned]

Init ==
  /\ graph \in DOMAIN Graphs /\ n_copies \in {1, MaxCopies} /\ callback_eval \in BOOLEAN
  /\ is_reset = TRUE /\ is_alloc = FALSE /\ cur_copy = 0
  /\ hv_ids = Blank /\ hv_copies = {} /\ plan = NoPlan
  /\ backend_ids = [node |-> <<>>, prev_node |-> <<>>, leaf |-> <<>>, prev_leaf |-> <<>>]
  /\ built = "fresh"
  /\ phase = "user" /\ split = 1 /\ input = 1 /\ async = FALSE
  /\ gen = 0 /\ done = 0
  /\ queue = [b \in Async |-> <<>>]
  /\ event = [b \in Async |-> [c \in Copies |-> 0]]
  /\ mem = <<>> /\ wrong = {} /\ excused = {}

QueueOf(b) == IF b \in Async THEN queue[b] ELSE <<>>
AllIdle == \A b \in Async : queue[b] = <<>>
HasEvent(b) == n_copies > 1 /\ b \in Async

\* ggml_backend_sched_reset
SchedReset ==
  /\ is_reset' = TRUE /\ is_alloc' = FALSE
  /\ IF is_reset THEN UNCHANGED <<hv_ids, hv_copies>>
                 ELSE hv_ids' = Blank /\ hv_copies' = {}

\* The arrays of backend ids change roles in each split; entries behind the
\* ends of the new ones are left over, those never written are 0.
Overwrite(old, new) == new \o SubSeq(old, Len(new) + 1, Len(old))

RecordIds(p) ==
  backend_ids' = [node |-> Overwrite(backend_ids.prev_node, p.node_backend_ids),
                  prev_node |-> backend_ids.node,
                  leaf |-> Overwrite(backend_ids.prev_leaf, p.leaf_backend_ids),
                  prev_leaf |-> backend_ids.leaf]

Moved(new, prev) ==
  \E i \in DOMAIN new : bufts[new[i]] # bufts[IF i \in DOMAIN prev THEN prev[i] ELSE 0]

BackendIdsChanged(p) ==
  \/ Moved(p.node_backend_ids, backend_ids.node)
  \/ Moved(p.leaf_backend_ids, backend_ids.leaf)

\* split_graph, with the tables as they are or just cleared.
SplitGraph(p) ==
  /\ is_reset' = FALSE /\ hv_ids' = p.ids /\ hv_copies' = p.copies
  /\ plan' = p /\ RecordIds(p)

\* alloc_splits: the allocator may have to reserve again, which moves its
\* buffers once everything is idle, and may fail.
AllocSplits(p, m) ==
  \/ ~BackendIdsChanged(p) /\ is_alloc' = TRUE /\ mem' = m
  \/ AllIdle /\ is_alloc' \in BOOLEAN /\ mem' = Forget(m)

Abort ==
  /\ phase' = "aborted"
  /\ UNCHANGED <<fixed, schedVars, split, input, async, built, gen, done, queue, event, mem, wrong, excused>>

-----------------------------------------------------------------------------
(* The user's calls.                                                         *)

NewGraph ==
  /\ phase = "user" /\ gen < MaxComputes
  /\ built # "fresh" \/ ~is_reset
  /\ SchedReset
  /\ built' = "fresh" /\ plan' = NoPlan /\ done' = 0
  /\ UNCHANGED <<fixed, callVars, cur_copy, backend_ids, gen, queue, event, mem, wrong, excused>>

\* Mutant: the flag is left alone.
SetTensorBackendStillReset(x, b) ==
  /\ phase = "user" /\ built = "fresh"
  /\ <<x, b>> \in G.asks
  /\ hv_ids' = [hv_ids EXCEPT ![x] = b]
  /\ UNCHANGED <<fixed, callVars, is_reset, is_alloc, cur_copy, hv_copies, plan, backend_ids, built,
                 gen, done, queue, event, mem, wrong, excused>>

SetTensorBackend(x, b) ==
  /\ phase = "user" /\ built = "fresh"
  /\ <<x, b>> \in G.asks
  /\ hv_ids' = [hv_ids EXCEPT ![x] = b]
  /\ is_reset' = FALSE
  /\ UNCHANGED <<fixed, callVars, is_alloc, cur_copy, hv_copies, plan, backend_ids, built,
                 gen, done, queue, event, mem, wrong, excused>>

\* split_graph of a graph that is fresh, so that nothing of it is copied yet.
NewSplit(ids) == PlanTable[graph][ids][n_copies][cur_copy]

\* The graph is only measured: the reset drops the split again. On failure
\* there is no reset.
Reserve ==
  /\ phase = "user" /\ built = "fresh" /\ AllIdle
  /\ \E p \in {NewSplit(hv_ids)} :
       \/ p.abort /\ Abort
       \/ /\ ~p.abort /\ RecordIds(p)
          /\ \/ is_reset' = TRUE /\ hv_ids' = Blank /\ hv_copies' = {}
             \/ is_reset' = FALSE /\ hv_ids' = p.ids /\ hv_copies' = p.copies
          /\ is_alloc' = FALSE /\ plan' = NoPlan
          /\ built' = "used" /\ mem' = Forget(mem)
          /\ UNCHANGED <<fixed, callVars, cur_copy, gen, done, queue, event, wrong, excused>>

AllocGraph ==
  /\ phase = "user" /\ built = "fresh"
  /\ \E p \in {NewSplit(hv_ids)} :
       \/ p.abort /\ Abort
       \/ /\ ~p.abort /\ SplitGraph(p) /\ AllocSplits(p, mem)
          /\ built' = "used"
          /\ UNCHANGED <<fixed, callVars, cur_copy, gen, done, queue, event, wrong, excused>>

\* Every copy that a split reads is read before an event that is recorded
\* later on the same backend: only splits with inputs record one.
EventsCover(p) ==
  \A k \in DOMAIN p.splits :
    LET b == p.splits[k].backend_id IN
      HasEvent(b) /\ (\E item \in Range(p.items[k]) : \E loc \in Range(item.from) : loc.b = b)
        => \E later \in k .. Len(p.splits) :
             p.splits[later].backend_id = b /\ p.splits[later].inputs # <<>>

\* The computations whose result the scheduler does not answer for: those of
\* a graph computed again after cur_copy has moved on, and those with a copy
\* that is read after the last event.
Begin(p) ==
  /\ gen' = gen + 1
  /\ excused' = IF p.copy = cur_copy /\ EventsCover(p) THEN excused ELSE excused \cup {gen'}
  /\ phase' = "splits" /\ split' = 1 /\ input' = 1

\* graph_compute and graph_compute_async of an allocated graph.
Compute ==
  /\ phase = "user" /\ is_alloc /\ gen < MaxComputes
  /\ Begin(plan)
  /\ async' \in BOOLEAN
  /\ mem' = WriteInputs(mem, plan, gen')
  /\ UNCHANGED <<fixed, schedVars, built, done, queue, event, wrong>>

\* The same for a graph that is not allocated: what the user had assigned is
\* reset first. Its inputs must have memory of their own already.
ComputeUnallocated ==
  /\ phase = "user" /\ ~is_alloc /\ built = "fresh" /\ gen < MaxComputes
  /\ \A x \in Tensors(G) : ~G.t[x].input
  /\ \E p \in {NewSplit(IF is_reset THEN hv_ids ELSE Blank)} :
       \/ p.abort /\ Abort
       \/ /\ ~p.abort /\ SplitGraph(p) /\ AllocSplits(p, WriteInputs(mem, p, gen + 1))
          /\ built' = "used" /\ async' \in BOOLEAN
          /\ \/ is_alloc' /\ Begin(p)
             \/ ~is_alloc' /\ gen' = gen + 1 /\ UNCHANGED <<phase, split, input, excused>>
          /\ UNCHANGED <<fixed, cur_copy, done, queue, event, wrong>>

-----------------------------------------------------------------------------
(* compute_splits.                                                           *)

InSplit == phase = "splits" /\ split <= Len(plan.splits)
Cur == plan.splits[split]

\* Mutant: the host does not wait before it overwrites a copy.
CopyAlwaysFree(b) == TRUE

\* The copies of this turn are free when their event has happened, or when
\* the backend has nothing left to do if it has no events.
CopyFree(b) == IF HasEvent(b) THEN event[b][cur_copy] = 0 ELSE QueueOf(b) = <<>>

\* Mutant: the host copies an input that is not computed yet.
InputNotAwaited(x) == TRUE

\* Neither backend of this repository copies by itself (cpy_tensor_async), so
\* the host waits for the input as well, unless the user wrote it.
InputReady(x) == G.t[x].input \/ QueueOf(plan.ids[x]) = <<>>

CopyInput ==
  /\ InSplit /\ input <= Len(Cur.inputs)
  /\ LET x == Cur.inputs[input]
         b == Cur.backend_id
         value == Value(mem, Location(G, plan, PlaceOf(G, plan, x)))
     IN  /\ CopyFree(b)
         /\ InputReady(x)
         /\ mem' = Store(mem, {CopyOf(x, b, cur_copy)}, value)
  /\ input' = input + 1
  /\ UNCHANGED <<fixed, schedVars, phase, split, async, built, gen, done, queue, event, wrong, excused>>

Ready == InSplit /\ input > Len(Cur.inputs)

\* Mutant: the event waits for one entry more than was queued.
RecordEventTooLate(b) ==
  event' = IF Cur.inputs # <<>> /\ HasEvent(b)
             THEN [event EXCEPT ![b][cur_copy] = Len(queue'[b]) + 1] ELSE event

\* The event of a split with inputs comes after everything queued so far.
RecordEvent(b) ==
  event' = IF Cur.inputs # <<>> /\ HasEvent(b)
             THEN [event EXCEPT ![b][cur_copy] = Len(queue'[b])] ELSE event

NextSplit == split' = split + 1 /\ input' = 1

RunAll(items) ==
  LET after[i \in 0 .. Len(items)] ==
        IF i = 0 THEN [mem |-> mem, wrong |-> wrong] ELSE Run(after[i - 1], items[i], gen)
  IN  \E r \in {after[Len(items)]} : mem' = r.mem /\ wrong' = r.wrong

Enqueue(b, items) ==
  queue' = [queue EXCEPT ![b] = @ \o [i \in DOMAIN items |-> [item |-> items[i], gen |-> gen]]]

LaunchAsync ==
  /\ Ready /\ Cur.backend_id \in Async /\ ~callback_eval
  /\ Enqueue(Cur.backend_id, plan.items[split])
  /\ RecordEvent(Cur.backend_id)
  /\ NextSplit
  /\ UNCHANGED <<fixed, schedVars, phase, async, built, gen, done, mem, wrong, excused>>

LaunchBlocking ==
  /\ Ready /\ Cur.backend_id \notin Async /\ ~callback_eval
  /\ RunAll(plan.items[split])
  /\ NextSplit
  /\ UNCHANGED <<fixed, schedVars, phase, async, built, gen, done, queue, event, excused>>

\* With a callback a split is computed in parts, each of them awaited; the
\* callback may end the split after any part.
LaunchObserved ==
  /\ Ready /\ callback_eval /\ QueueOf(Cur.backend_id) = <<>>
  /\ LET items == plan.items[split] IN
       \E last \in 1 .. Len(items) :
         /\ RunAll(SubSeq(items, 1, last))
         /\ excused' = IF last < Len(items) THEN excused \cup {gen} ELSE excused
  /\ queue' = queue
  /\ RecordEvent(Cur.backend_id)
  /\ NextSplit
  /\ UNCHANGED <<fixed, schedVars, phase, async, built, gen, done>>

\* graph_compute waits for all backends, whatever the computation returned.
Return == phase' = IF async THEN "user" ELSE "synchronize"

\* What is queued of this computation and comes after the last event.
Unguarded(b) ==
  HasEvent(b) /\ \E i \in DOMAIN queue'[b] : queue'[b][i].gen = gen /\ i > event[b][cur_copy]

\* The backend may have begun when it reports the failure. No event is recorded
\* for what it has queued, nor for a split of which a later one would have
\* recorded it, and the next computation takes the same copies.
LaunchFails ==
  /\ Ready
  /\ \E begun \in 0 .. Len(plan.items[split]) :
       LET items == SubSeq(plan.items[split], 1, begun) IN
         \/ /\ Cur.backend_id \in Async /\ ~callback_eval
            /\ Enqueue(Cur.backend_id, items) /\ UNCHANGED <<mem, wrong>>
         \/ /\ callback_eval \/ Cur.backend_id \notin Async
            /\ begun < Len(plan.items[split])
            /\ begun > 0 => QueueOf(Cur.backend_id) = <<>>
            /\ RunAll(items) /\ queue' = queue
  /\ excused' = IF \E b \in Async : Unguarded(b) THEN excused \cup {gen} ELSE excused
  /\ Return
  /\ UNCHANGED <<fixed, schedVars, split, input, async, built, gen, done, event>>

\* Mutant: the rotation does not wrap around.
NextCopyUnbounded == cur_copy + 1

NextCopy == (cur_copy + 1) % n_copies

FinishSplits ==
  /\ phase = "splits" /\ split > Len(plan.splits)
  /\ cur_copy' = NextCopy
  /\ done' = gen
  /\ Return
  /\ UNCHANGED <<fixed, is_reset, is_alloc, hv_ids, hv_copies, plan, backend_ids,
                 split, input, async, built, gen, queue, event, mem, wrong, excused>>

Synchronize ==
  /\ phase = "synchronize" /\ AllIdle
  /\ phase' = "user"
  /\ UNCHANGED <<fixed, schedVars, split, input, async, built, gen, done, queue, event, mem, wrong, excused>>

\* A backend computes the next node of its queue.
Execute(b) ==
  /\ queue[b] # <<>>
  /\ \E r \in {Run([mem |-> mem, wrong |-> wrong], Head(queue[b]).item, Head(queue[b]).gen)} :
       mem' = r.mem /\ wrong' = r.wrong
  /\ queue' = [queue EXCEPT ![b] = Tail(@)]
  /\ event' = [event EXCEPT ![b] = [c \in Copies |-> IF @[c] > 0 THEN @[c] - 1 ELSE 0]]
  /\ UNCHANGED <<fixed, schedVars, callVars, built, gen, done, excused>>

ComputeSplits ==
  CopyInput \/ LaunchAsync \/ LaunchBlocking \/ LaunchObserved \/ LaunchFails \/ FinishSplits \/ Synchronize

Next ==
  \/ NewGraph \/ Reserve \/ AllocGraph \/ Compute \/ ComputeUnallocated
  \/ \E a \in G.asks : SetTensorBackend(a[1], a[2])
  \/ ComputeSplits
  \/ \E b \in Async : Execute(b)

Spec == Init /\ [][Next]_vars

\* Queues are worked off, and the host thread goes on inside a call.
FairSpec == Spec /\ WF_vars(ComputeSplits) /\ \A b \in Async : WF_vars(Execute(b))
-----------------------------------------------------------------------------
(* What the scheduler promises.                                              *)

\* Type: ids are backends or unassigned, events count entries of their queue,
\* and copies and splits are those of a plan.
TypeOK ==
  /\ graph \in DOMAIN Graphs /\ n_copies \in {1, MaxCopies} /\ cur_copy \in Copies
  /\ {is_reset, is_alloc, async, callback_eval} \subseteq BOOLEAN
  /\ hv_ids \in [Tensors(G) -> Backends \cup {Unassigned}]
  /\ hv_copies \subseteq Tensors(G) \X Backends
  /\ phase \in {"user", "splits", "synchronize", "aborted"} /\ built \in {"fresh", "used"}
  /\ split \in 1 .. Len(G.nodes) + 1 /\ input \in 1 .. MaxSplitInputs + 1
  /\ gen \in 0 .. MaxComputes /\ done \in 0 .. gen
  /\ \A b \in Async : \A c \in Copies : event[b][c] \in 0 .. Len(queue[b])
  /\ \A loc \in DOMAIN mem : mem[loc] \in -1 .. gen
  /\ wrong \cup excused \subseteq 1 .. gen

\* Every node is computed from operands of its own computation, and when a
\* computation has returned and the queues are empty, every node of its graph
\* has the result: the splits, the copies, the order of launches and waits, and
\* the rotation of the copies of compute_splits do together what evaluating the
\* graph in order does. Not answered for: a graph computed again with several
\* copies (its nodes keep the copies of line 1214, compute_splits fills those of
\* cur_copy), a copy read after the last event of its backend (1438), a
\* computation that failed with reads of its own queued behind the last event
\* (1401), and what a callback cut off.
ResultsRight ==
  /\ wrong \subseteq excused
  /\ phase = "user" /\ AllIdle /\ gen > 0 /\ done = gen /\ gen \notin excused
       => \A x \in OpNodes(G) : Value(mem, PlaceOf(G, plan, x)) \in {Weight, gen}

\* Every tensor has a backend, so that alloc_splits finds its buffer type. The
\* splits are all nodes in their order, and each operation is in a split of
\* a backend that can compute it, with operands in memory that this backend can
\* use, its own copies where the passes of split_graph saw that it could not.
SplitsSound ==
  is_alloc =>
    /\ \A x \in Tensors(G) : plan.ids[x] \in Backends
    /\ \A k, m \in DOMAIN plan.splits : k < m => SplitEnd(G, plan, k) < plan.splits[m].i_start
    /\ \A k \in DOMAIN plan.splits :
         plan.splits[k].i_start .. SplitEnd(G, plan, k) \subseteq DOMAIN G.nodes
    /\ \A i \in DOMAIN G.nodes : \E k \in DOMAIN plan.splits :
         i \in plan.splits[k].i_start .. SplitEnd(G, plan, k)
    /\ \A k \in DOMAIN plan.splits : \A i \in SplitOps(G, plan, k) :
         LET x == G.nodes[i]
             b == plan.splits[k].backend_id
         IN  /\ b = plan.ids[x] /\ b \in CanCompute(G, x)
             /\ \A place \in Range(plan.src[x]) : b \in CanUse(BufferAt(G, plan, place))

\* is_reset says that the tables are clean: whoever writes into them clears it,
\* and reset, which trusts it, never leaves an assignment or a copy behind.
ResetMeansClean == is_reset => hv_ids = Blank /\ hv_copies = {}

\* alloc_graph keeps what the user asked for with set_tensor_backend: a node so
\* assigned stays on that backend or moves to one of higher priority with the
\* same buffer type (pass 3).
AssignmentKept ==
  [][(~is_alloc /\ is_alloc' /\ gen' = gen) =>
       \A x \in Tensors(G) :
         hv_ids[x] # Unassigned =>
           hv_ids'[x] <= hv_ids[x] /\ bufts[hv_ids'[x]] = bufts[hv_ids[x]]]_vars

\* The host thread does not overwrite a copy that a queued node is still to
\* read, unless the node's computation is one that the events do not cover: the
\* wait before a copy, the events and the rotation of cur_copy guard it. (What
\* is computed over an original too early shows in ResultsRight.)
CopyNotInUse ==
  [][(phase = "splits" /\ queue' = queue) =>
       \A b \in Async : \A q \in Range(queue[b]) :
         \A loc \in Range(q.item.from) :
           loc.b # Own /\ Value(mem, loc) # Value(mem', loc) => q.gen \in excused]_vars

\* A call returns: every wait for an event, a queue or a backend ends.
ComputeReturns == (phase \in {"splits", "synchronize"}) ~> (phase = "user")
=============================================================================
