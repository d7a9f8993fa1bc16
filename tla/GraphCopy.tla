----------------------------- MODULE GraphCopy ------------------------------
(***************************************************************************)
(* ggml_backend_graph_copy, which copies an allocated graph with its data  *)
(* to another backend, and ggml_backend_compare_graph_backend, which then  *)
(* runs both node by node. The tensors T are as in RpcGraph; the tensors   *)
(* of the copy are numbered in the order in which they are complete.       *)
(*                                                                         *)
(* A value says what was computed: an operation on values, or what the     *)
(* memory at a place held when the comparison began.                       *)
(***************************************************************************)
EXTENDS RpcGraph

\* The copy of x, and first those of all it refers to. The hash set knows a
\* tensor from the beginning of this, node_copies has its copy at the end.
RECURSIVE DupTensor(_, _, _)
DupTensor(T, acc, x) ==
  LET marked == [acc EXCEPT !.hash_set = @ \cup {x}]
      needed == FoldLeft(LAMBDA a, y : DupTensor(T, a, y), marked, <<T[x].view_src>> \o T[x].src)
      me == Len(needed.tensors) + 1
  IN  IF x = Null \/ x \in acc.hash_set THEN acc
      ELSE [needed EXCEPT
              !.node_copies = (x :> me) @@ @,
              !.tensors = Append(@,
                 [op |-> T[x].op,
                  view_src |-> needed.node_copies[T[x].view_src],
                  src |-> Table([j \in DOMAIN T[x].src |-> needed.node_copies[T[x].src[j]]])])]

\* A copy has memory of its own, a view that of the copy of what it views.
DataOf(copy, i) ==
  IF copy.tensors[i].view_src = NullNode THEN i ELSE copy.tensors[i].view_src

\* Mutant: the data of sources is not copied.
InitNodesOnly(T, given, copy, acc, x) ==
  IF T[x].view_src # Null THEN acc
  ELSE [acc EXCEPT !.mem = (copy.node_copies[x] :> given[T[x].data]) @@ @]

\* Data goes to the copies that have memory; sources and what is viewed follow.
\* acc.mem is the memory of the copy, given that of the original.
RECURSIVE InitTensor(_, _, _, _, _)
InitTensor(T, given, copy, acc, x) ==
  LET marked == [acc EXCEPT !.node_init = @ \cup {x}]
      init(a, y) == InitTensor(T, given, copy, a, y)
      filled == IF T[x].view_src # Null THEN init(marked, T[x].view_src)
                ELSE [marked EXCEPT !.mem = (copy.node_copies[x] :> given[T[x].data]) @@ @]
  IN  IF x \in acc.node_init THEN acc ELSE FoldLeft(init, filled, T[x].src)

InitNode(T, given, copy, acc, x) == InitTensor(T, given, copy, acc, x)

\* The copy of the graph whose nodes are given, and the memory of the copy.
CopyGraph(T, nodes, given) ==
  LET copy == FoldLeft(LAMBDA a, x : DupTensor(T, a, x),
                       [hash_set |-> {}, node_copies |-> Null :> NullNode, tensors |-> <<>>], nodes)
      filled == FoldLeft(LAMBDA a, x : InitNode(T, given, copy, a, x),
                         [node_init |-> {}, mem |-> <<>>], nodes)
  IN  [nodes |-> Table([i \in DOMAIN nodes |-> copy.node_copies[nodes[i]]]),
       tensors |-> Table([i \in DOMAIN copy.tensors |->
                      [op |-> copy.tensors[i].op, src |-> copy.tensors[i].src,
                       data |-> DataOf(copy, i)]]),
       mem |-> filled.mem]

-----------------------------------------------------------------------------
(* The comparison, with a backend that computes each operation as the first. *)

Held(place) == [op |-> "held", args |-> <<>>, at |-> place]
ValueAt(memory, place) == IF place \in DOMAIN memory THEN memory[place] ELSE Held(Null)

ComputeNode(tensors, memory, x) ==
  IF tensors[x].op = "view" THEN memory
  ELSE (tensors[x].data :>
          [op |-> tensors[x].op, at |-> Null,
           args |-> Table([j \in DOMAIN tensors[x].src |->
                              ValueAt(memory, tensors[tensors[x].src[j]].data)])])
       @@ memory

CompareNode(T, copied, acc, x, y, mem1, mem2) ==
  [mem1 |-> mem1, mem2 |-> mem2,
   differ |-> IF ValueAt(mem1, T[x].data) = ValueAt(mem2, copied.tensors[y].data)
                THEN acc.differ ELSE acc.differ \cup {x}]

CompareWith(T, nodes, given, copied) ==
  FoldLeft(LAMBDA acc, i :
             CompareNode(T, copied, acc, nodes[i], copied.nodes[i],
                         ComputeNode(T, acc.mem1, nodes[i]),
                         ComputeNode(copied.tensors, acc.mem2, copied.nodes[i])),
           [mem1 |-> given, mem2 |-> copied.mem, differ |-> {}],
           [i \in DOMAIN nodes |-> i]).differ

\* The nodes for which the callback finds results that differ.
CompareGraph(T, nodes, given) == CompareWith(T, nodes, given, CopyGraph(T, nodes, given))

\* A comparison that begins with the memory as it is.
CompareGraphBackend(T, nodes) ==
  CompareGraph(T, nodes, Table([place \in {T[x].data : x \in DOMAIN T} |-> Held(place)]))
=============================================================================
