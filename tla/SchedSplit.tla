----------------------------- MODULE SchedSplit -----------------------------
(***************************************************************************)
(* The passes of ggml_backend_sched_split_graph: which backend computes    *)
(* each node of a graph, how the graph is cut into splits that run on one  *)
(* backend, and which inputs of a split have to be copied to it.           *)
(*                                                                         *)
(* A graph is a record: nodes and leafs are sequences of tensors, and      *)
(* t[x] says of tensor x its op, its sources, the tensor that it is a view *)
(* of, the buffer type it is allocated in beforehand, whether that is a    *)
(* buffer of weights, and whether the user flagged it as an input.         *)
(***************************************************************************)
EXTENDS Integers, SequencesExt, Tables

CONSTANTS
  n_backends,    \* backends 0 .. n_backends - 1, the last one is the CPU
  bufts,         \* bufts[b]: the buffer type the scheduler allocates for b
  supports_buft, \* supports_buft[b]: buffer types whose memory b can use
  supports_op,   \* supports_op[b]: the operations that b can compute
  offload_op,    \* offload_op[b]: those it takes over from weights on the CPU
  HostBufts,     \* the buffer types in host memory
  MaxSplitInputs \* GGML_SCHED_MAX_SPLIT_INPUTS

Backends == 0 .. n_backends - 1
Unassigned == -1
None == "none"

ASSUME SchedAssumption ==
  /\ n_backends \in Nat \ {0}
  /\ MaxSplitInputs \in Nat \ {0}
  /\ \A b \in Backends : bufts[b] \in supports_buft[b]

CPU == n_backends - 1

Tensors(g) == DOMAIN g.t
ViewOp(g, x) == g.t[x].op = "view"
OpNodes(g) == {x \in Range(g.nodes) : ~ViewOp(g, x)}
Base(g, x) == IF g.t[x].view_src = None THEN x ELSE g.t[x].view_src
Sources(g, x) == Range(g.t[x].src)

\* The ids of the backends that may compute x, those that can use its memory.
CanCompute(g, x) == {b \in Backends : g.t[x].op \in supports_op[b]}
CanUse(buft) == {b \in Backends : buft \in supports_buft[b]}

\* The backend of highest priority (lowest id) of a set.
Highest(S) == IF S = {} THEN Unassigned ELSE Min(S)

\* A loop: what Step makes of base with the members of a sequence, one by one.
\* (FoldLeft of the community modules, in a form that can be proved about.)
Along(Step(_, _), base, order) ==
  LET after[i \in 0 .. Len(order)] ==
        IF i = 0 THEN base ELSE Step(after[i - 1], order[i])
  IN  after[Len(order)]

Positions(seq) == [i \in 1 .. Len(seq) |-> i]

-----------------------------------------------------------------------------
(* Pass 1: the backends that the locations of the tensors ask for.           *)

BackendFromBuffer(g, x, op) ==
  Highest(CanUse(g.t[Base(g, x)].buffer) \cap CanCompute(g, op))

Preallocated(g, x) == g.t[Base(g, x)].buffer # None

\* A weight in host memory leaves its operation to a backend that wants it.
WeightBackend(g, x, w) ==
  LET home == BackendFromBuffer(g, w, x)
      takers == {b \in CanCompute(g, x) : b < home /\ g.t[x].op \in offload_op[b]}
  IN  IF home = CPU /\ g.t[w].buffer \in HostBufts /\ takers # {}
        THEN Min(takers) ELSE home

BackendIdFromCur(g, x) ==
  LET src == g.t[x].src
      weights == {j \in DOMAIN src : g.t[src[j]].weights /\ g.t[x].op # "rope"}
  IN  CASE Preallocated(g, x) -> BackendFromBuffer(g, x, x)
        [] ~Preallocated(g, x) /\ g.t[x].input -> CPU
        [] ~Preallocated(g, x) /\ ~g.t[x].input /\ weights # {} ->
             WeightBackend(g, x, src[Min(weights)])
        [] OTHER -> Unassigned

\* A tensor that is allocated where nobody can compute it aborts the program.
Misplaced(g, ids) ==
  \E x \in Range(g.leafs) \cup Range(g.nodes) :
    ids[x] = Unassigned /\ Preallocated(g, x) /\ BackendFromBuffer(g, x, x) = Unassigned

\* Mutant: the assignments of the user are overwritten.
Pass1Overwrites(g, ids) ==
  Table([x \in Tensors(g) |->
     IF x \in Range(g.leafs) \cup Range(g.nodes) THEN BackendIdFromCur(g, x) ELSE ids[x]])

Pass1(g, ids) ==
  Table([x \in Tensors(g) |->
     IF ids[x] = Unassigned /\ x \in Range(g.leafs) \cup Range(g.nodes)
       THEN BackendIdFromCur(g, x) ELSE ids[x]])

-----------------------------------------------------------------------------
(* Pass 2: neighbours take over the backend of an assigned node, first from  *)
(* the nodes that are not on the CPU.                                        *)

ExpandTo(g, skip, acc, x) ==
  CASE ViewOp(g, x) -> acc
    [] ~ViewOp(g, x) /\ acc.ids[x] # Unassigned ->
         [acc EXCEPT !.cur = IF skip /\ acc.ids[x] = CPU THEN Unassigned ELSE acc.ids[x]]
    [] ~ViewOp(g, x) /\ acc.ids[x] = Unassigned /\ acc.cur \in CanCompute(g, x) ->
         [acc EXCEPT !.ids[x] = acc.cur]
    [] OTHER -> acc

Expand(g, order, skip, ids) ==
  Along(LAMBDA acc, x : ExpandTo(g, skip, acc, x), [cur |-> Unassigned, ids |-> ids], order).ids

Pass2(g, ids) ==
  LET down == g.nodes
      up == Reverse(down)
  IN  Expand(g, up, FALSE, Expand(g, down, FALSE, Expand(g, up, TRUE, Expand(g, down, TRUE, ids))))

-----------------------------------------------------------------------------
(* Pass 3: the remaining nodes go where most of their inputs are, the others *)
(* up to a backend of higher priority that shares their buffer type.         *)

IdOrBase(g, ids, x) == IF ids[x] = Unassigned THEN ids[Base(g, x)] ELSE ids[x]

BufferSupported(g, ids, x, b) ==
  IF Preallocated(g, x) THEN b \in CanUse(g.t[Base(g, x)].buffer)
  ELSE /\ IdOrBase(g, ids, x) # Unassigned
       /\ b \in CanUse(bufts[IdOrBase(g, ids, x)])

InputsSupported(g, ids, x, b) ==
  Cardinality({j \in DOMAIN g.t[x].src :
                 LET s == g.t[x].src[j] IN
                   IdOrBase(g, ids, s) # Unassigned /\ BufferSupported(g, ids, s, b)})

\* Mutant: whether the backend can compute the operation is not asked.
MostInputsAnyOp(g, ids, x) ==
  Highest({b \in Backends :
             \A other \in Backends :
               InputsSupported(g, ids, x, other) <= InputsSupported(g, ids, x, b)})

MostInputs(g, ids, x) ==
  Highest({b \in CanCompute(g, x) :
             \A other \in CanCompute(g, x) :
               InputsSupported(g, ids, x, other) <= InputsSupported(g, ids, x, b)})

Upgrade(g, ids, x) ==
  LET better == {b \in CanCompute(g, x) :
                   /\ b < ids[x] /\ bufts[b] = bufts[ids[x]]
                   /\ \A s \in Sources(g, x) : BufferSupported(g, ids, s, b)}
  IN  IF better = {} THEN ids[x] ELSE Min(better)

Settle(g, ids, x) ==
  CASE ViewOp(g, x) -> ids
    [] ~ViewOp(g, x) /\ ids[x] = Unassigned -> [ids EXCEPT ![x] = MostInputs(g, ids, x)]
    [] OTHER -> [ids EXCEPT ![x] = Upgrade(g, ids, x)]

Pass3(g, ids) == Along(LAMBDA acc, x : Settle(g, acc, x), ids, g.nodes)

-----------------------------------------------------------------------------
(* Pass 4: views follow what they view, other sources follow their users.    *)

FollowNode(g, ids, x) ==
  IF ids[x] = Unassigned THEN [ids EXCEPT ![x] = ids[Base(g, x)]] ELSE ids

FollowUser(g, ids, s, x) ==
  IF ids[s] # Unassigned THEN ids
  ELSE [ids EXCEPT ![s] = IF g.t[s].view_src # None THEN ids[Base(g, s)] ELSE ids[x]]

Follow(g, ids, x) ==
  Along(LAMBDA acc, s : FollowUser(g, acc, s, x), FollowNode(g, ids, x), g.t[x].src)

Pass4(g, ids) == Along(LAMBDA acc, x : Follow(g, acc, x), ids, g.nodes)

Assign(g, ids) == Pass4(g, Pass3(g, Pass2(g, Pass1(g, ids))))

-----------------------------------------------------------------------------
(* Pass 5: the splits and their copies. A place is a tensor, the backend it  *)
(* was copied to (Own for the tensor itself) and the number of its copy.     *)

Own == -1
CopyOf(x, b, c) == [t |-> x, b |-> b, c |-> c]
Original(g, x, n, c) == [t |-> x, b |-> Own, c |-> IF g.t[x].input /\ n > 1 THEN c ELSE 0]

Copied(acc, x, b) == <<x, b>> \in acc.copies

\* A weight that this backend cannot use, or a split without room for inputs.
NeedNewSplit(g, ids, acc, x) ==
  LET sp == Last(acc.splits)
      b == sp.backend_id
  IN  /\ ids[x] = b
      /\ sp.inputs # <<>>
      /\ \E s \in Sources(g, x) :
           /\ ids[s] # b /\ ~BufferSupported(g, ids, s, b)
           /\ \/ g.t[s].weights
              \/ Len(sp.inputs) = MaxSplitInputs /\ ~Copied(acc, s, b)

StartSplit(acc, b, i) ==
  [acc EXCEPT !.splits = Append(@, [backend_id |-> b, i_start |-> i, inputs |-> <<>>])]

\* A flagged input has copies on its own backend, for the next computations.
AddGraphInput(g, ids, n, acc, s) ==
  IF ~g.t[s].input \/ n = 1 \/ Copied(acc, s, ids[s]) THEN acc
  ELSE [acc EXCEPT !.copies = @ \cup {<<s, ids[s]>>},
                   !.graph_inputs = Append(@, s),
                   !.abort = @ \/ Len(acc.graph_inputs) >= MaxSplitInputs]

\* A source that the split's backend cannot use becomes one of its inputs, the
\* first time it occurs, and the node reads the copy.
NewInput(acc, s, b) ==
  [acc EXCEPT !.copies = @ \cup {<<s, b>>},
              !.splits[Len(acc.splits)].inputs = Append(@, s),
              !.abort = @ \/ Len(Last(acc.splits).inputs) >= MaxSplitInputs]

UseCopy(acc, x, j, s, b, c) ==
  [IF Copied(acc, s, b) THEN acc ELSE NewInput(acc, s, b) EXCEPT !.src[x][j] = CopyOf(s, b, c)]

AddSource(g, ids, n, c, acc, x, j) ==
  LET s == g.t[x].src[j]
      b == Last(acc.splits).backend_id
      added == AddGraphInput(g, ids, n, acc, s)
  IN  IF ids[s] = b \/ BufferSupported(g, ids, s, b) THEN added
      ELSE UseCopy(added, x, j, s, b, c)

AddNode(g, ids, n, c, acc, i) ==
  LET x == g.nodes[i]
      placed == IF ids[x] # Last(acc.splits).backend_id \/ NeedNewSplit(g, ids, acc, x)
                  THEN StartSplit(acc, ids[x], i) ELSE acc
  IN  IF ViewOp(g, x) THEN acc
      ELSE Along(LAMBDA a, j : AddSource(g, ids, n, c, a, x, j), placed, Positions(g.t[x].src))

\* The place in the graph of the first node that is computed.
FirstOp(g) == Min({i \in 1 .. Len(g.nodes) : ~ViewOp(g, g.nodes[i])})

Unsplit(g, ids, n, c) ==
  [splits |-> <<[backend_id |-> ids[g.nodes[FirstOp(g)]], i_start |-> 1, inputs |-> <<>>]>>,
   copies |-> {},
   src |-> Table([x \in Tensors(g) |->
              Table([j \in 1 .. Len(g.t[x].src) |-> Original(g, g.t[x].src[j], n, c)])]),
   graph_inputs |-> <<>>,
   abort |-> FALSE]

Pass5(g, ids, n, c) ==
  Along(LAMBDA acc, i : AddNode(g, ids, n, c, acc, i), Unsplit(g, ids, n, c), Positions(g.nodes))

-----------------------------------------------------------------------------
(* The parts of a split, and the copy of the graph that is given to the      *)
(* allocator: the backend of each of its nodes and leafs.                    *)

SplitEnd(g, p, k) ==
  IF k = Len(p.splits) THEN Len(g.nodes) ELSE p.splits[k + 1].i_start - 1

SplitNodes(g, p, k) == SubSeq(g.nodes, p.splits[k].i_start, SplitEnd(g, p, k))

\* The places of the nodes that are computed in split k.
SplitOps(g, p, k) ==
  {i \in p.splits[k].i_start .. SplitEnd(g, p, k) : ~ViewOp(g, g.nodes[i])}

AddSplit(g, p, ids, k) ==
  LET sp == p.splits[k]
      nodes == SplitNodes(g, p, k)
  IN  Along(LAMBDA acc, s : acc \o <<p.ids[s], sp.backend_id>>, ids, sp.inputs)
      \o [i \in 1 .. Len(nodes) |-> p.ids[nodes[i]]]

NodeBackendIds(g, p) == Along(LAMBDA acc, k : AddSplit(g, p, acc, k), <<>>, Positions(p.splits))

LeafBackendIds(g, p) ==
  LET times(b) == [c \in 1 .. p.n |-> b]
      ofInputs(seq, b(_)) == FlattenSeq([i \in DOMAIN seq |-> times(b(seq[i]))])
      home(x) == p.ids[x]
  IN  IF p.n = 1 THEN [i \in DOMAIN g.leafs |-> home(g.leafs[i])]
      ELSE ofInputs(p.graph_inputs, home)
           \o FlattenSeq([k \in DOMAIN p.splits |->
                ofInputs(p.splits[k].inputs, LAMBDA x : p.splits[k].backend_id)])
           \o [i \in DOMAIN g.leafs |-> home(g.leafs[i])]

\* What split_graph leaves behind, from tables with the assignments of the
\* user and no copies: n copies of each input, of which c is current.
Split(g, ids, n, c) ==
  LET assigned == Assign(g, ids)
      p == Pass5(g, assigned, n, c)
      q == [ids |-> assigned, splits |-> p.splits, copies |-> p.copies, src |-> p.src,
            graph_inputs |-> p.graph_inputs, n |-> n, copy |-> c,
            abort |-> p.abort \/ Misplaced(g, ids)]
  IN  [ids |-> q.ids, splits |-> q.splits, copies |-> q.copies, src |-> q.src,
       graph_inputs |-> q.graph_inputs, n |-> n, copy |-> c, abort |-> q.abort,
       node_backend_ids |-> NodeBackendIds(g, q), leaf_backend_ids |-> LeafBackendIds(g, q)]
=============================================================================
