------------------------------ MODULE RpcGraph ------------------------------
(***************************************************************************)
(* How ggml-rpc puts a compute graph on the wire, and how the server       *)
(* builds it again: serialize_graph with add_tensor on the client's side,  *)
(* graph_compute with create_node on the server's.                         *)
(*                                                                         *)
(* T[x] is the tensor at address x of the client: its op, its sources, the *)
(* tensor it is a view of, the buffer type its data is in and where in     *)
(* that buffer the data is. Tensors of the server are numbered in the      *)
(* order in which they are created.                                        *)
(***************************************************************************)
EXTENDS Naturals, SequencesExt, Tables

Null == [t |-> "null", b |-> -1, c |-> 0]  \* no tensor, for the client
NullNode == 0                              \* and for the server
NullBuffer == "null"

\* The buffer of another backend's tensor is read as one of this server's, so
\* that its id is no id of the server: only views lie there.
SerializeTensor(T, x) ==
  [id |-> x, op |-> T[x].op, src |-> T[x].src, view_src |-> T[x].view_src,
   buffer |-> T[x].buffer, data |-> T[x].data]

Reaches(T, x) == Append(T[x].src, T[x].view_src)

\* What a tensor needs comes first, and every tensor once.
RECURSIVE AddTensor(_, _, _)
AddTensor(T, acc, x) ==
  LET marked == [acc EXCEPT !.visited = @ \cup {x}]
      needed == FoldLeft(LAMBDA a, y : AddTensor(T, a, y), marked, Reaches(T, x))
  IN  IF x = Null \/ x \in acc.visited THEN acc
      ELSE [needed EXCEPT !.tensors = Append(@, SerializeTensor(T, x))]

SerializeGraph(T, nodes) ==
  [nodes |-> nodes,
   tensors |-> FoldLeft(LAMBDA a, x : AddTensor(T, a, x),
                        [visited |-> {}, tensors |-> <<>>], nodes).tensors]

-----------------------------------------------------------------------------
(* The server. An address of a buffer that it does not have becomes no       *)
(* buffer; a tensor that the message lacks throws (at).                      *)

DeserializeTensor(rt, buffers) ==
  [op |-> rt.op, data |-> rt.data,
   buffer |-> IF rt.buffer \in buffers THEN rt.buffer ELSE NullBuffer,
   src |-> <<>>, view_src |-> NullNode]

\* Mutant: tensor_map is not consulted.
CreatedNever(acc, id) == id = Null

Created(acc, id) == id \in DOMAIN acc.map

RECURSIVE CreateNode(_, _, _, _)
CreateNode(tensor_ptrs, buffers, acc, id) ==
  LET rt == tensor_ptrs[id]
      me == Len(acc.tensors) + 1
      made == [acc EXCEPT !.map = (id :> me) @@ @,
                          !.tensors = Append(@, DeserializeTensor(rt, buffers))]
      create(a, x) == CreateNode(tensor_ptrs, buffers, a, x)
      linked == create(FoldLeft(create, made, rt.src), rt.view_src)
  IN  CASE Created(acc, id) -> acc
        [] ~Created(acc, id) /\ id \notin DOMAIN tensor_ptrs ->
             [acc EXCEPT !.thrown = TRUE, !.map = (id :> NullNode) @@ @]
        [] OTHER ->
             [linked EXCEPT !.tensors[me].src = Table([j \in DOMAIN rt.src |-> linked.map[rt.src[j]]]),
                            !.tensors[me].view_src = linked.map[rt.view_src]]

\* The server's graph: its tensors, which of them are the nodes, and whether
\* its context, made for n_nodes + n_tensors, holds them.
RebuildGraph(msg, buffers) ==
  LET tensor_ptrs == [x \in {rt.id : rt \in Range(msg.tensors)} |->
                        Last(SelectSeq(msg.tensors, LAMBDA rt : rt.id = x))]
      server == FoldLeft(LAMBDA a, x : CreateNode(tensor_ptrs, buffers, a, x),
                        [map |-> Null :> NullNode, tensors |-> <<>>, thrown |-> FALSE], msg.nodes)
  IN  [nodes |-> Table([i \in DOMAIN msg.nodes |-> server.map[msg.nodes[i]]]),
       tensors |-> server.tensors, map |-> server.map, thrown |-> server.thrown,
       fits |-> Len(server.tensors) <= Len(msg.nodes) + Len(msg.tensors)]

\* What the server's backend computes: where each operation reads and writes.
ServerItems(server) ==
  LET ops == SelectSeq(server.nodes, LAMBDA i : server.tensors[i].op # "view")
      data(i) == server.tensors[i].data
  IN  Table([i \in DOMAIN ops |->
         [to |-> data(ops[i]),
          from |-> Table([j \in DOMAIN server.tensors[ops[i]].src |->
                            data(server.tensors[ops[i]].src[j])])]])
=============================================================================
