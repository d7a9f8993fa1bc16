------------------------------ MODULE MCSched -------------------------------
(***************************************************************************)
(* Small instances of Sched for TLC: four backends (an accelerator with a  *)
(* queue, an RPC server, a library that shares the CPU's memory, the CPU)  *)
(* and graphs of at most five tensors computed and four given.             *)
(***************************************************************************)
EXTENDS SchedPlans

GPU == 0
REMOTE == 1
BLAS == 2
LAST == 3

MCbufts == GPU :> "vram" @@ REMOTE :> "remote" @@ BLAS :> "host" @@ LAST :> "host"
MCsupports_buft == [b \in 0 .. 3 |-> {MCbufts[b]}]

\* mul runs everywhere, add not in the library, top on the CPU only, off is
\* taken over from the CPU by the accelerator.
MCsupports_op ==
  LET all == {"none", "view", "mul"} IN
  GPU :> all \cup {"add", "off"} @@ REMOTE :> all \cup {"add"}
  @@ BLAS :> all @@ LAST :> all \cup {"add", "off", "top"}
MCoffload_op == [b \in 0 .. 3 |-> IF b = GPU THEN {"off"} ELSE {}]

Tensor(op, src, view_src, flag, buffer, weights) ==
  [op |-> op, src |-> src, view_src |-> view_src, input |-> flag,
   buffer |-> buffer, weights |-> weights]
Op(op, src) == Tensor(op, src, None, FALSE, None, FALSE)
View(x) == Tensor("view", <<x>>, x, FALSE, None, FALSE)
Input == Tensor("none", <<>>, None, TRUE, None, FALSE)
Given(buffer) == Tensor("none", <<>>, None, FALSE, buffer, FALSE)
Weights(buffer) == Tensor("none", <<>>, None, FALSE, buffer, TRUE)

\* From the accelerator over the server to the CPU and back to the input.
Pipeline ==
  [nodes |-> <<"n1", "n2", "n3">>, leafs |-> <<"x", "wg", "wr">>,
   asks |-> {<<"n2", GPU>>},
   t |-> "x" :> Input @@ "wg" :> Weights("vram") @@ "wr" :> Weights("remote")
      @@ "n1" :> Op("mul", <<"wg", "x">>) @@ "n2" :> Op("mul", <<"wr", "n1">>)
      @@ "n3" :> Op("top", <<"n2", "x">>)]

\* The last split of the accelerator reads a copy and records no event.
Uncovered ==
  [nodes |-> <<"n1", "n2", "n3">>, leafs |-> <<"x", "wg">>,
   asks |-> {<<"n3", LAST>>},
   t |-> "x" :> Input @@ "wg" :> Weights("vram")
      @@ "n1" :> Op("mul", <<"wg", "x">>) @@ "n2" :> Op("top", <<"x">>)
      @@ "n3" :> Op("mul", <<"wg", "x">>)]

\* As Uncovered, but the accelerator gets a split with inputs at the end, if the
\* CPU's one before it does not fail.
Interrupted ==
  [nodes |-> <<"n1", "n2", "n3", "n4", "n5">>, leafs |-> <<"x", "wg">>,
   asks |-> {},
   t |-> "x" :> Input @@ "wg" :> Weights("vram")
      @@ "n1" :> Op("mul", <<"wg", "x">>) @@ "n2" :> Op("top", <<"x">>)
      @@ "n3" :> Op("mul", <<"wg", "x">>) @@ "n4" :> Op("top", <<"x">>)
      @@ "n5" :> Op("mul", <<"wg", "n4">>)]

\* Views on the server, one of them of a tensor elsewhere, and shared sources;
\* the input is a tensor that the user allocated.
Views ==
  [nodes |-> <<"n1", "v1", "n2", "v2", "n3", "n4">>, leafs |-> <<"y", "wr">>,
   asks |-> {<<"n2", GPU>>},
   t |-> "y" :> Given("host") @@ "wr" :> Weights("remote")
      @@ "n1" :> Op("mul", <<"wr", "y">>) @@ "v1" :> View("n1")
      @@ "n2" :> Op("add", <<"v1", "n1">>) @@ "v2" :> View("y")
      @@ "n3" :> Op("mul", <<"n2", "v2">>) @@ "n4" :> Op("top", <<"n3", "v1">>)]

\* Weights on the CPU: an offloaded operation, and one that the library gets.
Offload ==
  [nodes |-> <<"n1", "n2", "n3">>, leafs |-> <<"x", "wc", "wd">>,
   asks |-> {<<"n3", LAST>>},
   t |-> "x" :> Input @@ "wc" :> Weights("host") @@ "wd" :> Weights("host")
      @@ "n1" :> Op("off", <<"wc", "x">>) @@ "n2" :> Op("off", <<"wd", "n1">>)
      @@ "n3" :> Op("mul", <<"wc", "n2">>)]

\* More inputs than a split has room for.
Crowded ==
  [nodes |-> <<"n1", "n2">>, leafs |-> <<"x", "y", "z", "wg">>,
   asks |-> {<<"n2", LAST>>},
   t |-> "x" :> Given("host") @@ "y" :> Given("host") @@ "z" :> Given("host") @@ "wg" :> Weights("vram")
      @@ "n1" :> Op("mul", <<"wg", "x">>) @@ "n2" :> Op("add", <<"y", "z">>)]

MCGraphs ==
  [pipeline |-> Pipeline, uncovered |-> Uncovered, interrupted |-> Interrupted, views |-> Views,
   offload |-> Offload, crowded |-> Crowded]
=============================================================================
