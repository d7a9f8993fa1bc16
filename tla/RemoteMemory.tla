---------------------------- MODULE RemoteMemory ----------------------------
(* What the buffers of ggml-rpc.cpp promise to the processes that use them:  *)
(* each buffer is a private piece of memory, a call takes effect whole, at   *)
(* one moment before it returns, and the buffers of a process go together,   *)
(* when its connection does.  What a set of large data leaves depends on the *)
(* files of the server: Outcomes.                                            *)
CONSTANTS Procs, Slots, Pieces, Values, Nothing,
          Calls, NoCall,  \* what a process may call, and that it calls nothing
          Operate(_),     \* the operation of a graph
          Outcomes(_, _)  \* what a set of data over a content may leave

VARIABLES store,  \* what each buffer of each process contains, or Nothing
          job     \* the call each process is in, or what it is about to return

vars == <<store, job>>

Content  == [Pieces -> Values]
Whole(v) == [k \in Pieces |-> v]
Done(d)  == [op |-> "done", data |-> d]

Init == /\ store = [p \in Procs |-> [i \in Slots |-> Nothing]]
        /\ job = [p \in Procs |-> NoCall]

Has(p, i)    == store[p][i] # Nothing
Put(p, i, d) == store' = [store EXCEPT ![p][i] = d]
Turn(p, x)   == job' = [job EXCEPT ![p] = x]

Begin(p) == job[p] = NoCall /\ UNCHANGED store /\ \E c \in Calls : Turn(p, c)

\* The effect of the call; the content of a new buffer is not defined.
Perform(p) ==
  LET c == job[p]
  IN  \/ c.op = "query" /\ UNCHANGED store /\ Turn(p, Done(Nothing))
      \/ /\ c.op = "alloc" /\ Turn(p, Done(Nothing))
         /\ UNCHANGED store \/ \E d \in Content : Put(p, c.i, d)
      \/ c.op = "free" /\ Has(p, c.i) /\ Put(p, c.i, Nothing) /\ Turn(p, Done(Nothing))
      \/ c.op = "clear" /\ Has(p, c.i) /\ Put(p, c.i, Whole(c.v)) /\ Turn(p, Done(Nothing))
      \/ /\ c.op = "set" /\ Has(p, c.i) /\ Turn(p, Done(Nothing))
         /\ \E d \in Outcomes(store[p][c.i], c.v) : Put(p, c.i, d)
      \/ /\ c.op = "get" /\ Has(p, c.i) /\ UNCHANGED store
         /\ Turn(p, Done(store[p][c.i]))
      \/ /\ c.op = "copy" /\ Has(p, c.i) /\ Has(p, c.j)
         /\ Put(p, c.j, store[p][c.i]) /\ Turn(p, Done(Nothing))
      \/ /\ c.op = "graph" /\ Has(p, c.i) /\ Has(p, c.j)
         /\ Put(p, c.j, [k \in Pieces |-> Operate(store[p][c.i][k])])
         /\ Turn(p, Done(Nothing))

Return(p) == job[p].op = "done" /\ UNCHANGED store /\ Turn(p, NoCall)

\* The connection is gone, and a call with it that has not returned.
Lose(p) == /\ store' = [store EXCEPT ![p] = [i \in Slots |-> Nothing]]
           /\ job' \in {job, [job EXCEPT ![p] = NoCall]}

Next == \E p \in Procs : Begin(p) \/ Perform(p) \/ Return(p) \/ Lose(p)

Spec == Init /\ [][Next]_vars
=============================================================================
