----------------------------- MODULE SchedPlans ------------------------------
(***************************************************************************)
(* The plans of Sched: the graphs as split_graph splits them, and what the *)
(* backend of each split is given. A split on a backend in Rpc goes over   *)
(* the wire as RpcGraph says, and what it computes is what the server      *)
(* builds there.                                                           *)
(***************************************************************************)
EXTENDS Sched, GraphCopy

CONSTANT Rpc     \* the backends whose splits are computed by a server

\* The tensors of the client, as RpcGraph sees them: copies have no sources.
ClientTensors(g, p) ==
  [place \in {PlaceOf(g, p, x) : x \in Tensors(g)}
             \cup {CopyOf(pair[1], pair[2], p.copy) : pair \in p.copies} |->
     LET x == place.t
         copy == place.b # Own
     IN  [op |-> IF copy THEN "none" ELSE g.t[x].op,
          src |-> IF copy THEN <<>> ELSE p.src[x],
          view_src |-> IF copy \/ g.t[x].view_src = None THEN Null
                       ELSE PlaceOf(g, p, g.t[x].view_src),
          buffer |-> BufferAt(g, p, place),
          data |-> Location(g, p, place)]]

SplitMessage(g, p, k) ==
  LET nodes == SplitNodes(g, p, k)
  IN  SerializeGraph(ClientTensors(g, p), [i \in DOMAIN nodes |-> PlaceOf(g, p, nodes[i])])

Rebuilt(g, p, k) == RebuildGraph(SplitMessage(g, p, k), {bufts[p.splits[k].backend_id]})

\* Where the operations of split k read and write.
LocalItems(g, p, k) ==
  LET ops == SelectSeq(SplitNodes(g, p, k), LAMBDA x : ~ViewOp(g, x))
  IN  Table([i \in DOMAIN ops |-> Operation(g, p, ops[i])])

\* A split graph together with what its backends will be given.
Servers(g, p) ==
  Table([k \in {k \in DOMAIN p.splits : p.splits[k].backend_id \in Rpc} |-> Rebuilt(g, p, k)])

\* The nodes that a comparison of the split graph with its copy finds different.
Compared(g, p) ==
  CompareGraphBackend(ClientTensors(g, p), [i \in DOMAIN g.nodes |-> PlaceOf(g, p, g.nodes[i])])

Launches(g, p, server) ==
  [server |-> server,
   differ |-> Compared(g, p),
   items |-> Table([k \in DOMAIN p.splits |->
                IF k \in DOMAIN server THEN ServerItems(server[k]) ELSE LocalItems(g, p, k)])]

WithLaunches(g, p) == IF p.abort THEN p ELSE Launches(g, p, Servers(g, p)) @@ p

MakePlan(g, ids, n, c) == WithLaunches(g, Split(g, ids, n, c))

\* The plans of all that the users may ask, with n copies of which c is current.
AllPlans ==
  Table([name \in DOMAIN Graphs |->
     LET g == Graphs[name] IN
     Table([ids \in Asked(g) |->
       Table([n \in {1, MaxCopies} |-> Table([c \in 0 .. n - 1 |-> MakePlan(g, ids, n, c)])])])])

-----------------------------------------------------------------------------
(* What the graphs that leave the scheduler promise.                         *)

\* The graph that a server rebuilds of a split is the graph of the split: no
\* tensor is missing or doubled, the context holds it, and the server computes
\* the same operations on the same data in the same order, all in its buffers,
\* although add_tensor follows sources and views out of the split.
GraphOverRpc ==
  is_alloc =>
    \A k \in DOMAIN plan.server :
      LET server == plan.server[k]
          ops == {i \in Range(server.nodes) : server.tensors[i].op # "view"}
      IN  /\ ~server.thrown /\ server.fits
          /\ IsInjective(server.map)
          /\ plan.items[k] = LocalItems(G, plan, k)
          /\ \A i \in ops : \A j \in {i} \cup Range(server.tensors[i].src) :
               server.tensors[j].buffer # NullBuffer

\* compare_graph_backend finds no difference between an allocated graph and its
\* copy on a backend that computes the same: graph_copy copies sources, views
\* and shared tensors, and the data that the nodes start from, although the
\* nodes of a split graph read copies that are not in the graph.
GraphCopyFaithful == is_alloc => plan.differ = {}
=============================================================================
