------------------------------- MODULE MCRpc --------------------------------
(* A small instance of Rpc for TLC: one process that may hold two buffers    *)
(* and one that holds one, so that the buffers of a process can be told      *)
(* apart and two processes compete for the server.                           *)
EXTENDS Rpc, TLC

CONSTANTS p1, p2

TwoAndOne == p1 :> 2 @@ p2 :> 1
Injective == [v \in Big |-> v]   \* a hash that tells the data apart
=============================================================================
