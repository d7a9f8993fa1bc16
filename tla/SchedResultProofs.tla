-------------------------- MODULE SchedResultProofs ---------------------------
(* Proof, checked by TLAPS, that compute_splits computes what evaluating the *)
(* graph in order does, for any graphs, any number of backends, copies and   *)
(* computations that satisfy PlanAssumption, FlowAssumption and              *)
(* LayoutAssumption.                                                         *)
(*                                                                           *)
(* An operand of a queued operation is right when the operation is reached:  *)
(* it is in memory and nothing before in the queue writes it, or an earlier  *)
(* entry of the same queue and the same computation does.  Entries of        *)
(* different queues do not meet, since they use results of their own backend.*)
EXTENDS SchedProofs

Operations == OpNodes(G)

\* What computation k may read: its own results, and those of weights alone.
Right(m, loc, k) == Value(m, loc) \in {Weight, k}

\* Weights are never written.
Written == \A loc \in DOMAIN mem : loc.b = Own => loc.t \notin Range(G.leafs) \ UserTensors(G)

UserWritten ==
  phase = "splits" => \A x \in UserTensors(G) : Value(mem, PlaceOf(G, plan, x)) = gen

Ordered ==
  \A b \in Async : \A j \in 1 .. Len(queue[b]) : \A i \in 1 .. j :
    queue[b][i].gen <= queue[b][j].gen

\* What is queued uses the results of its own backend, as plan q assigns them.
Lives(q, item, b) ==
  \A loc \in {item.to} \cup Range(item.from) :
    loc.b = Own => /\ loc.t \notin UserTensors(G)
                   /\ loc.t \in Operations => q.ids[loc.t] = b

AllLive(q) == \A b \in Async : \A i \in 1 .. Len(queue[b]) : Lives(q, queue[b][i].item, b)

LaidOut(q) ==
  \A i \in DOMAIN q.node_backend_ids :
    i \in DOMAIN backend_ids.node /\ backend_ids.node[i] = q.node_backend_ids[i]

IdsTyped == backend_ids.node \in Seq(Backends) /\ backend_ids.prev_node \in Seq(Backends)

\* The allocator remembers a plan with which everything that is queued agrees.
Homes ==
  \/ AllIdle /\ ~is_alloc
  \/ \E q \in GoodPlans : LaidOut(q) /\ AllLive(q) /\ (is_alloc => q = plan)

\* Entry i of queue b will find loc right.
FedBy(b, i, loc) ==
  LET k == queue[b][i].gen
  IN  \/ \E j \in 1 .. i - 1 : queue[b][j].item.to = loc /\ queue[b][j].gen = k
      \/ Right(mem, loc, k) /\ \A j \in 1 .. i - 1 : queue[b][j].item.to # loc

Fed ==
  \A b \in Async : \A i \in 1 .. Len(queue[b]) :
    queue[b][i].gen \notin excused =>
      \A loc \in Range(queue[b][i].item.from) : FedBy(b, i, loc)

\* Nothing that is queued writes loc.
Quiet(loc) == \A d \in Async : \A j \in 1 .. Len(queue[d]) : queue[d][j].item.to # loc

\* The present computation has computed loc, or its backend b is about to.
Settled(b, loc) ==
  \/ b \in Async /\ \E j \in 1 .. Len(queue[b]) : queue[b][j].item.to = loc /\ queue[b][j].gen = gen
  \/ Right(mem, loc, gen) /\ Quiet(loc)

SettledUpTo(n) ==
  \A k \in 1 .. n : \A i \in 1 .. Len(plan.items[k]) :
    Settled(plan.splits[k].backend_id, plan.items[k][i].to)

Computed ==
  /\ phase = "splits" => done < gen
  /\ phase = "splits" /\ gen \notin excused => SettledUpTo(split - 1)

Finished ==
  /\ built = "fresh" => done = 0 /\ ~is_alloc
  /\ done > 0 /\ done = gen /\ gen \notin excused => is_alloc /\ SettledUpTo(Len(plan.splits))

InputsCopied ==
  phase = "splits" /\ gen \notin excused =>
    \A k \in 1 .. Len(plan.splits) : \A i \in 1 .. Len(plan.splits[k].inputs) :
      k < split \/ (k = split /\ i < input) =>
        Right(mem, CopyOf(plan.splits[k].inputs[i], plan.splits[k].backend_id, cur_copy), gen)

RInv ==
  /\ Written /\ UserWritten /\ Ordered /\ IdsTyped /\ Homes /\ Fed
  /\ Computed /\ Finished /\ InputsCopied /\ wrong \subseteq excused

-----------------------------------------------------------------------------
(* Plans and what they put into the queues.                                  *)

LEMMA FlowFacts ==
  ASSUME TypeOK, NEW p \in GoodPlans
  PROVE  /\ SoundFlow(G, p)
         /\ \A q \in GoodPlans : LaidAlike(p, q) =>
              \A x \in Operations : q.ids[x] \in Async => p.ids[x] = q.ids[x]
<1> DEFINE sound == {q \in {Plans[graph][ids][n_copies][c] :
                              ids \in Asked(G), c \in 0 .. n_copies - 1} : ~q.abort}
<1>1. G = Graphs[graph] /\ graph \in DOMAIN Graphs /\ n_copies \in {1, MaxCopies}
  BY GraphFacts
<1>2. GoodPlans = sound
  BY DEF GoodPlans, PlanTable, Copies
<1>3. \A r, q \in sound : LaidAlike(r, q) =>
        \A x \in OpNodes(G) : q.ids[x] \in Async => r.ids[x] = q.ids[x]
  BY <1>1, LayoutAssumption
<1>4. SoundFlow(G, p)
  <2>1. p.copy \in Nat /\ ~p.abort
    BY <1>1, GoodPlan, PlanAssumption DEF Copies, GoodPlans
  <2>2. PICK ids \in Asked(G) : IsPlan(G, p, Split(G, ids, n_copies, p.copy))
    BY GoodPlan
  <2>3. SoundGraph(G) /\ OrderedGraph(G) /\ PrivateQueues(G)
    BY <1>1, GraphAssumption, FlowAssumption
  <2> QED BY <2>1, <2>2, <2>3, PlanFlows
<1> HIDE DEF sound
<1> QED BY <1>2, <1>3, <1>4 DEF Operations

\* What an operation of a plan writes is the result of a node.
IsResult(to) ==
  /\ to.b = Own /\ to.t \in Operations
  /\ to.t \notin Range(G.leafs) /\ to.t \notin UserTensors(G)

LEMMA ItemFacts ==
  ASSUME TypeOK, NEW p \in GoodPlans
  PROVE  \A k \in 1 .. Len(p.splits) : \A i \in 1 .. Len(p.items[k]) :
           SoundItem(G, p, k, i) /\ IsResult(p.items[k][i].to)
<1> SUFFICES ASSUME NEW k \in 1 .. Len(p.splits), NEW i \in 1 .. Len(p.items[k])
             PROVE  SoundItem(G, p, k, i) /\ IsResult(p.items[k][i].to)
  OBVIOUS
<1>1. SoundItem(G, p, k, i)
  <2>1. SoundFlow(G, p)
    BY FlowFacts
  <2> QED BY <2>1, Zenon DEF SoundFlow
<1>2. p.items[k][i].to.b = Own
  BY SplitFacts
<1>3. UserTensors(G) \subseteq Range(G.leafs)
  BY DEF UserTensors
<1> QED BY <1>1, <1>2, <1>3 DEF SoundItem, Operations, IsResult

\* No two operations of a plan write the same place.
LEMMA OneWriter ==
  ASSUME TypeOK, NEW p \in GoodPlans,
         NEW k \in 1 .. Len(p.splits), NEW i \in 1 .. Len(p.items[k]),
         NEW m \in 1 .. Len(p.splits), NEW j \in 1 .. Len(p.items[m]),
         p.items[k][i].to = p.items[m][j].to
  PROVE  k = m /\ i = j
<1>1. /\ Writers(p, k, i, p.items[k][i].to) = {}
      /\ Writers(p, m, j, p.items[m][j].to) = {}
  <2>1. SoundItem(G, p, k, i) /\ SoundItem(G, p, m, j)
    BY ItemFacts
  <2> QED BY <2>1 DEF SoundItem
<1>2. /\ Len(p.splits) \in Nat /\ Len(p.items[k]) \in Nat /\ Len(p.items[m]) \in Nat
  BY PlanTypes, SplitFacts
<1>3. k \in 1 .. m => ~(k = m => i < j)
  BY <1>1 DEF Writers
<1>4. m \in 1 .. k => ~(m = k => j < i)
  BY <1>1 DEF Writers
<1> QED BY <1>2, <1>3, <1>4

LEMMA EntryFacts ==
  ASSUME SInv, NEW b \in Async, NEW i \in 1 .. Len(queue[b])
  PROVE  IsResult(queue[b][i].item.to)
<1>1. queue[b][i].item \in Items
  BY QueueFacts DEF SInv
<1>2. PICK p \in GoodPlans : \E k \in 1 .. Len(p.splits) : queue[b][i].item \in Range(p.items[k])
  BY <1>1 DEF Items
<1>3. PICK k \in 1 .. Len(p.splits) : queue[b][i].item \in Range(p.items[k])
  BY <1>2
<1>4. p.items[k] \in Seq(Items)
  BY SplitFacts DEF SInv
<1>5. DOMAIN p.items[k] = 1 .. Len(p.items[k])
  BY <1>4
<1>6. PICK j \in 1 .. Len(p.items[k]) : queue[b][i].item = p.items[k][j]
  BY <1>3, <1>5 DEF Range
<1> QED BY <1>6, ItemFacts DEF SInv

\* Entries of different queues do not write what the other uses.
LEMMA Apart ==
  ASSUME SInv, RInv, NEW b \in Async, NEW d \in Async,
         NEW i \in 1 .. Len(queue[b]), NEW j \in 1 .. Len(queue[d]),
         queue[d][j].item.to \in {queue[b][i].item.to} \cup Range(queue[b][i].item.from)
  PROVE  b = d
<1> DEFINE loc == queue[d][j].item.to
<1>1. loc.b = Own /\ loc.t \in Operations
  BY EntryFacts DEF IsResult
<1>2. PICK q \in GoodPlans : Lives(q, queue[b][i].item, b) /\ Lives(q, queue[d][j].item, d)
  <2>1. ~AllIdle
    <3>1. queue[b] \in Seq(Entries)
      BY QueueFacts DEF SInv
    <3>2. queue[b] # <<>>
      BY <3>1
    <3> QED BY <3>2 DEF AllIdle
  <2> QED BY <2>1 DEF RInv, Homes, AllLive
<1> QED BY <1>1, <1>2 DEF Lives

-----------------------------------------------------------------------------
(* Operations with right operands.                                           *)

LEMMA CombineRight ==
  ASSUME NEW k, NEW S \in SUBSET {Weight, k}
  PROVE  Combine(S) \in {Weight, k}
<1> DEFINE from == S \ {Weight}
<1>1. CASE from = {}
  BY <1>1 DEF Combine
<1>2. CASE from # {}
  <2>1. from = {k}
    BY <1>2
  <2>2. Cardinality(from) = 1
    BY <2>1, FS_Singleton
  <2>3. Combine(S) = CHOOSE v \in from : TRUE
    BY <1>2, <2>2 DEF Combine
  <2> QED BY <2>1, <2>3
<1> QED BY <1>1, <1>2

\* What is stored is what is read there.
LEMMA StoreThere ==
  ASSUME NEW m, NEW locs, NEW v, NEW loc \in locs
  PROVE  Value(Store(m, locs, v), loc) = v
BY DEF Value, Store

\* An operation of computation k with right operands has a right result, and is
\* not counted as wrong; any operation writes its place only.
LEMMA RunRight ==
  ASSUME NEW s, NEW item, NEW k
  PROVE  /\ \A loc : loc # item.to => Value(Run(s, item, k).mem, loc) = Value(s.mem, loc)
         /\ DOMAIN Run(s, item, k).mem = DOMAIN s.mem \cup {item.to}
         /\ Run(s, item, k).wrong \subseteq s.wrong \cup {k}
         /\ (\A loc \in Range(item.from) : Right(s.mem, loc, k)) =>
              /\ Right(Run(s, item, k).mem, item.to, k)
              /\ Run(s, item, k).wrong = s.wrong
<1> DEFINE S == {Value(s.mem, loc) : loc \in Range(item.from)}
           v == Combine(S)
<1>1. /\ Run(s, item, k).mem = Store(s.mem, {item.to}, v)
      /\ Run(s, item, k).wrong = IF v \in {Weight, k} THEN s.wrong ELSE s.wrong \cup {k}
  BY DEF Run
<1>2. (\A loc \in Range(item.from) : Right(s.mem, loc, k)) => v \in {Weight, k}
  BY CombineRight DEF Right
<1> HIDE DEF v
<1>3. DOMAIN Store(s.mem, {item.to}, v) = DOMAIN s.mem \cup {item.to}
  BY DEF Store
<1> QED BY <1>1, <1>2, <1>3, StoreThere, StoreElsewhere DEF Right

\* Operations one after the other, each of which finds its operands right in
\* memory, or written by an operation before, or else in an excused computation.
LEMMA RunAllRight ==
  ASSUME NEW items, Len(items) \in Nat, RunAll(items)
  PROVE  /\ \A loc : (\A i \in 1 .. Len(items) : items[i].to # loc)
                       => Value(mem', loc) = Value(mem, loc)
         /\ \A loc \in DOMAIN mem' \ DOMAIN mem : \E i \in 1 .. Len(items) : items[i].to = loc
         /\ wrong' \subseteq wrong \cup {gen}
         /\ (\A i \in 1 .. Len(items) : \A loc \in Range(items[i].from) :
               Right(mem, loc, gen) \/ \E j \in 1 .. i - 1 : items[j].to = loc) =>
              /\ \A i \in 1 .. Len(items) : Right(mem', items[i].to, gen)
              /\ wrong' = wrong
<1> DEFINE N == Len(items)
           Operands == \A i \in 1 .. N : \A loc \in Range(items[i].from) :
                         Right(mem, loc, gen) \/ \E j \in 1 .. i - 1 : items[j].to = loc
           OK(s, n) ==
             /\ \A loc : (\A i \in 1 .. n : items[i].to # loc) => Value(s.mem, loc) = Value(mem, loc)
             /\ \A loc \in DOMAIN s.mem \ DOMAIN mem : \E i \in 1 .. n : items[i].to = loc
             /\ s.wrong \subseteq wrong \cup {gen}
             /\ Operands => (\A i \in 1 .. n : Right(s.mem, items[i].to, gen)) /\ s.wrong = wrong
<1>1. PICK f : /\ f[0] = [mem |-> mem, wrong |-> wrong]
               /\ \A i \in 1 .. N : f[i] = Run(f[i - 1], items[i], gen)
               /\ mem' = f[N].mem /\ wrong' = f[N].wrong
  BY RunAllRuns
<1>2. OK(f[0], 0)
  BY <1>1
<1>3. ASSUME NEW n \in 1 .. N, OK(f[n - 1], n - 1) PROVE OK(f[n], n)
  <2> DEFINE s == f[n - 1]
             item == items[n]
  <2>1. f[n] = Run(s, item, gen)
    BY <1>1
  <2>2. 1 .. n = (1 .. n - 1) \cup {n}
    OBVIOUS
  <2>3. /\ \A loc : loc # item.to => Value(f[n].mem, loc) = Value(s.mem, loc)
        /\ DOMAIN f[n].mem = DOMAIN s.mem \cup {item.to}
        /\ f[n].wrong \subseteq s.wrong \cup {gen}
        /\ (\A loc \in Range(item.from) : Right(s.mem, loc, gen)) =>
             Right(f[n].mem, item.to, gen) /\ f[n].wrong = s.wrong
    <3> HIDE DEF s, item
    <3> QED BY <2>1, RunRight
  <2>4. ASSUME Operands
        PROVE  (\A i \in 1 .. n : Right(f[n].mem, items[i].to, gen)) /\ f[n].wrong = wrong
    <3>1. ASSUME NEW loc \in Range(item.from) PROVE Right(s.mem, loc, gen)
      <4>1. Right(mem, loc, gen) \/ \E j \in 1 .. n - 1 : items[j].to = loc
        BY <2>4
      <4>2. \A j \in 1 .. n - 1 : Right(s.mem, items[j].to, gen)
        BY <1>3, <2>4
      <4>3. (\A j \in 1 .. n - 1 : items[j].to # loc) => Value(s.mem, loc) = Value(mem, loc)
        BY <1>3
      <4> QED BY <4>1, <4>2, <4>3 DEF Right
    <3>2. Right(f[n].mem, item.to, gen) /\ f[n].wrong = s.wrong
      BY <2>3, <3>1
    <3>3. ASSUME NEW i \in 1 .. n - 1 PROVE Right(f[n].mem, items[i].to, gen)
      <4>1. Right(s.mem, items[i].to, gen)
        BY <1>3, <2>4
      <4> QED BY <2>3, <3>2, <4>1 DEF Right
    <3> QED BY <1>3, <2>2, <2>4, <3>2, <3>3
  <2>5. ASSUME NEW loc, \A i \in 1 .. n : items[i].to # loc
        PROVE  Value(f[n].mem, loc) = Value(mem, loc)
    BY <1>3, <2>2, <2>3, <2>5
  <2>6. ASSUME NEW loc \in DOMAIN f[n].mem \ DOMAIN mem
        PROVE  \E i \in 1 .. n : items[i].to = loc
    BY <1>3, <2>2, <2>3
  <2>7. f[n].wrong \subseteq wrong \cup {gen}
    BY <1>3, <2>3
  <2> QED BY <2>4, <2>5, <2>6, <2>7
<1> DEFINE Bad == {n \in Nat : n <= N /\ ~OK(f[n], n)}
<1> HIDE DEF OK
<1>4. Bad = {}
  <2> SUFFICES ASSUME Bad # {} PROVE FALSE
    OBVIOUS
  <2>1. PICK n \in Bad : \A y \in Bad : n <= y
    BY Least
  <2>2. n \in Nat /\ n <= N /\ ~OK(f[n], n) /\ n # 0
    BY <1>2
  <2>3. n - 1 \in Nat /\ n - 1 <= N /\ n - 1 \notin Bad
    <3> HIDE DEF Bad
    <3> QED BY <2>1, <2>2
  <2> QED BY <1>3, <2>2, <2>3
<1>5. OK(f[N], N)
  BY <1>4
<1> QED BY <1>1, <1>5 DEF OK

-----------------------------------------------------------------------------
(* What the parts of the invariant rest on.                                  *)

LEMMA SameValue ==
  ASSUME UNCHANGED fixed
  PROVE  /\ Operations' = Operations /\ UserTensors(G)' = UserTensors(G) /\ G' = G
         /\ \A loc, k : Right(mem, loc, k)' <=> Right(mem', loc, k)
         /\ \A loc : Value(mem, loc)' = Value(mem', loc)
         /\ \A q, item, b : Lives(q, item, b)' <=> Lives(q, item, b)
<1>1. G' = G
  BY Same
<1> QED BY <1>1 DEF Operations, UserTensors, Right, Value, Lives

LEMMA WrittenStays ==
  ASSUME Written, UNCHANGED fixed,
         \A loc \in DOMAIN mem' \ DOMAIN mem :
           loc.b = Own => loc.t \notin Range(G.leafs) \ UserTensors(G)
  PROVE  Written'
BY SameValue DEF Written

LEMMA UserWrittenIs ==
  ASSUME UNCHANGED fixed, \A x \in UserTensors(G) : Value(mem', PlaceOf(G, plan', x)) = gen'
  PROVE  UserWritten'
BY SameValue DEF UserWritten, Value

LEMMA FedStays ==
  ASSUME RInv, UNCHANGED fixed, queue' = queue, excused \subseteq excused',
         \A b \in Async : \A i \in 1 .. Len(queue[b]) :
           queue[b][i].gen \notin excused' => \A loc \in Range(queue[b][i].item.from) :
             Value(mem', loc) = Value(mem, loc)
  PROVE  Fed' /\ Ordered'
<1>1. Ordered'
  BY DEF RInv, Ordered
<1>2. ASSUME NEW b \in Async, NEW i \in 1 .. Len(queue[b]), queue[b][i].gen \notin excused',
             NEW loc \in Range(queue[b][i].item.from)
      PROVE  FedBy(b, i, loc)'
  <2>1. FedBy(b, i, loc) /\ Value(mem', loc) = Value(mem, loc)
    BY <1>2 DEF RInv, Fed
  <2> QED BY <2>1, SameValue DEF FedBy, Right
<1>3. Fed'
  BY <1>2 DEF Fed
<1> QED BY <1>1, <1>3

LEMMA HomesStay ==
  ASSUME RInv, UNCHANGED <<fixed, queue, backend_ids>>, is_alloc' => is_alloc /\ plan' = plan
  PROVE  Homes' /\ IdsTyped'
<1>1. GoodPlans' = GoodPlans /\ IdsTyped'
  BY Same DEF RInv, IdsTyped
<1>2. \A q : AllLive(q)' <=> AllLive(q)
  BY SameValue DEF AllLive, Lives
<1>3. \A q : LaidOut(q)' <=> LaidOut(q)
  BY DEF LaidOut
<1>4. AllIdle' <=> AllIdle
  BY DEF AllIdle
<1>5. Homes
  BY DEF RInv
<1> QED BY <1>1, <1>2, <1>3, <1>4, <1>5 DEF Homes

\* Where nothing moves the results stay.
LEMMA SettledSame ==
  ASSUME UNCHANGED <<fixed, queue, mem, gen>>
  PROVE  \A b, loc : Settled(b, loc)' <=> Settled(b, loc)
BY SameValue DEF Settled, Quiet, Right, Value

\* Steps that touch neither memory nor queues, and end or stay outside the splits.
LEMMA RestStep ==
  ASSUME SInv, RInv, UNCHANGED <<fixed, queue, mem, gen, excused, wrong, backend_ids>>,
         phase' # "splits", is_alloc' => is_alloc /\ plan' = plan, Finished'
  PROVE  RInv'
<1>1. Homes' /\ IdsTyped'
  BY HomesStay
<1>2. Fed' /\ Ordered'
  BY FedStays
<1>3. Written'
  BY WrittenStays DEF RInv
<1>4. UserWritten' /\ Computed' /\ InputsCopied' /\ wrong' \subseteq excused'
  BY DEF RInv, UserWritten, Computed, InputsCopied
<1> QED BY <1>1, <1>2, <1>3, <1>4 DEF RInv

LEMMA FinishedSame ==
  ASSUME Finished, UNCHANGED <<fixed, queue, mem, gen, excused, done, built, is_alloc, plan>>
  PROVE  Finished'
<1>1. \A b, loc : Settled(b, loc)' <=> Settled(b, loc)
  BY SettledSame
<1>2. ASSUME NEW n PROVE SettledUpTo(n)' <=> SettledUpTo(n)
  BY <1>1 DEF SettledUpTo
<1>3. SettledUpTo(Len(plan.splits))' <=> SettledUpTo(Len(plan.splits))
  BY <1>1 DEF SettledUpTo
<1> QED BY <1>3 DEF Finished

-----------------------------------------------------------------------------
(* The initial states, and the steps of the user.                            *)

LEMMA InitRInv == Init => RInv
<1> SUFFICES ASSUME Init PROVE RInv
  OBVIOUS
<1>1. Written /\ UserWritten /\ Ordered /\ Fed /\ Computed /\ Finished /\ InputsCopied
  BY DEF Init, Written, UserWritten, Ordered, Fed, Computed, Finished, InputsCopied
<1>2. IdsTyped /\ Homes /\ wrong \subseteq excused
  BY DEF Init, IdsTyped, Homes, AllIdle
<1> QED BY <1>1, <1>2 DEF RInv

LEMMA AbortRight ==
  ASSUME SInv, RInv, phase = "user", Abort
  PROVE  RInv'
<1>1. Finished'
  BY FinishedSame DEF RInv, Abort, schedVars
<1> QED BY <1>1, RestStep DEF Abort, schedVars

LEMMA NewGraphRight ==
  ASSUME SInv, RInv, NewGraph
  PROVE  RInv'
<1>1. Finished'
  BY DEF NewGraph, SchedReset, Finished
<1>2. ~is_alloc' /\ phase' = "user"
  BY DEF NewGraph, SchedReset, callVars
<1> QED BY <1>1, <1>2, RestStep DEF NewGraph

LEMMA SetTensorBackendRight ==
  ASSUME SInv, RInv, NEW x, NEW b, SetTensorBackend(x, b)
  PROVE  RInv'
<1>1. Finished' /\ phase' = "user"
  BY FinishedSame DEF RInv, SetTensorBackend, callVars
<1> QED BY <1>1, RestStep DEF SetTensorBackend

LEMMA SynchronizeRight ==
  ASSUME SInv, RInv, Synchronize
  PROVE  RInv'
<1>1. Finished' /\ phase' = "user"
  BY FinishedSame DEF RInv, Synchronize, schedVars
<1> QED BY <1>1, RestStep DEF Synchronize, schedVars

\* split_graph records the ids of the plan in front of what was there.
LEMMA RecordEffect ==
  ASSUME SInv, RInv, NEW p \in GoodPlans, RecordIds(p)
  PROVE  /\ IdsTyped'
         /\ DOMAIN p.node_backend_ids \subseteq DOMAIN backend_ids'.node
         /\ \A i \in DOMAIN p.node_backend_ids : backend_ids'.node[i] = p.node_backend_ids[i]
<1> DEFINE new == p.node_backend_ids
           old == backend_ids.prev_node
           rest == SubSeq(old, Len(new) + 1, Len(old))
<1>1. new \in Seq(Backends)
  <2>1. SoundFlow(G, p)
    BY FlowFacts DEF SInv
  <2> QED BY <2>1, Zenon DEF SoundFlow
<1>2. old \in Seq(Backends) /\ backend_ids.node \in Seq(Backends)
  BY DEF RInv, IdsTyped
<1>3. backend_ids'.node = new \o rest /\ backend_ids'.prev_node = backend_ids.node
  BY DEF RecordIds, Overwrite
<1> HIDE DEF new, old
<1>4. rest \in Seq(Backends)
  <2>1. Len(new) \in Nat /\ Len(old) \in Nat
    BY <1>1, <1>2
  <2>2. \A i \in Len(new) + 1 .. Len(old) : old[i] \in Backends
    BY <1>2, <2>1
  <2> QED BY <2>1, <2>2, SubSeqProperties
<1> HIDE DEF rest
<1>5. new \o rest \in Seq(Backends) /\ DOMAIN new \subseteq DOMAIN (new \o rest)
      /\ \A i \in DOMAIN new : (new \o rest)[i] = new[i]
  BY <1>1, <1>4
<1> QED BY <1>2, <1>3, <1>5 DEF IdsTyped, new

LEMMA ForgetWrites ==
  ASSUME NEW m, NEW loc \in DOMAIN Forget(m)
  PROVE  loc \in DOMAIN m /\ Value(Forget(m), loc) = Value(m, loc)
         /\ loc.b = Own /\ Preallocated(G, loc.t)
BY DEF Forget, Value

\* Nothing is queued.
LEMMA Idle ==
  ASSUME AllIdle, queue' = queue
  PROVE  /\ Fed' /\ Ordered' /\ AllIdle'
         /\ \A b \in Async : 1 .. Len(queue'[b]) = {}
<1>1. \A b \in Async : Len(queue[b]) = 0
  BY DEF AllIdle
<1> QED BY <1>1 DEF Fed, Ordered, AllIdle

LEMMA ReserveRight ==
  ASSUME SInv, RInv, Reserve
  PROVE  RInv'
<1> DEFINE p == NewSplit(hv_ids)
<1>1. hv_ids \in Asked(G) /\ phase = "user" /\ built = "fresh"
  BY DEF SInv, Reserve, TablesKnown
<1>2. CASE Abort
  BY <1>1, <1>2, AbortRight
<1>3. CASE ~Abort
  <2>1. /\ ~p.abort /\ RecordIds(p) /\ AllIdle
        /\ is_alloc' = FALSE /\ built' = "used" /\ mem' = Forget(mem)
        /\ UNCHANGED <<fixed, callVars, cur_copy, gen, done, queue, event, wrong, excused>>
    BY <1>3 DEF Reserve
  <2>2. p \in GoodPlans
    BY <1>1, <2>1, NewIsGood DEF SInv
  <2> HIDE DEF p
  <2>3. IdsTyped'
    BY <2>1, <2>2, RecordEffect
  <2>4. Fed' /\ Ordered' /\ Homes'
    BY <2>1, Idle DEF Homes
  <2>5. Written'
    BY <2>1, ForgetWrites, WrittenStays DEF RInv
  <2>6. phase' = "user" /\ done' = 0 /\ built' = "used"
    BY <1>1, <2>1 DEF callVars, RInv, Finished
  <2>7. UserWritten' /\ Computed' /\ InputsCopied' /\ Finished' /\ wrong' \subseteq excused'
    BY <2>1, <2>6 DEF RInv, UserWritten, Computed, InputsCopied, Finished
  <2> QED BY <2>3, <2>4, <2>5, <2>7 DEF RInv
<1> QED BY <1>2, <1>3

\* The allocator that remembers another plan has nothing queued, or sees that
\* the new plan puts the nodes into the same memory.
LEMMA AllocRight ==
  ASSUME SInv, RInv, NEW p \in GoodPlans, NEW m, SplitGraph(p), AllocSplits(p, m),
         UNCHANGED <<fixed, queue>>
  PROVE  /\ Homes' /\ IdsTyped'
         /\ mem' = m \/ (AllIdle /\ mem' = Forget(m))
<1>1. plan' = p /\ RecordIds(p)
  BY DEF SplitGraph
<1>2. IdsTyped' /\ LaidOut(p)'
  BY <1>1, RecordEffect DEF LaidOut
<1>3. GoodPlans' = GoodPlans
  BY Same
<1>4. CASE AllIdle
  <2>1. AllLive(p)'
    BY <1>4, Idle DEF AllLive
  <2> QED BY <1>1, <1>2, <1>3, <1>4, <2>1 DEF Homes, AllocSplits
<1>5. CASE ~AllIdle
  <2>1. ~BackendIdsChanged(p) /\ mem' = m
    BY <1>5 DEF AllocSplits
  <2>2. PICK q \in GoodPlans : LaidOut(q) /\ AllLive(q)
    BY <1>5 DEF RInv, Homes
  <2>3. LaidAlike(p, q)
    BY <2>1, <2>2 DEF LaidAlike, LaidOut, BackendIdsChanged, Moved
  <2>4. \A x \in Operations : q.ids[x] \in Async => p.ids[x] = q.ids[x]
    BY <2>3, FlowFacts DEF SInv
  <2>5. ASSUME NEW item, NEW b \in Async, Lives(q, item, b) PROVE Lives(p, item, b)
    BY <2>4, <2>5 DEF Lives
  <2>6. AllLive(p)
    BY <2>2, <2>5 DEF AllLive
  <2>7. AllLive(p)'
    BY <2>6, SameValue DEF AllLive, Lives
  <2> QED BY <1>1, <1>2, <1>3, <2>1, <2>7 DEF Homes
<1> QED BY <1>4, <1>5

LEMMA AllocGraphRight ==
  ASSUME SInv, RInv, AllocGraph
  PROVE  RInv'
<1> DEFINE p == NewSplit(hv_ids)
<1>1. hv_ids \in Asked(G) /\ phase = "user" /\ built = "fresh"
  BY DEF SInv, AllocGraph, TablesKnown
<1>2. CASE Abort
  BY <1>1, <1>2, AbortRight
<1>3. CASE ~Abort
  <2>1. /\ ~p.abort /\ SplitGraph(p) /\ AllocSplits(p, mem) /\ built' = "used"
        /\ UNCHANGED <<fixed, callVars, cur_copy, gen, done, queue, event, wrong, excused>>
    BY <1>3 DEF AllocGraph
  <2>2. p \in GoodPlans
    BY <1>1, <2>1, NewIsGood DEF SInv
  <2> HIDE DEF p
  <2>3. /\ Homes' /\ IdsTyped'
        /\ mem' = mem \/ (AllIdle /\ mem' = Forget(mem))
    BY <2>1, <2>2, AllocRight
  <2>4. Fed' /\ Ordered'
    BY <2>1, <2>3, Idle, FedStays
  <2>5. Written'
    BY <2>1, <2>3, ForgetWrites, WrittenStays DEF RInv
  <2>6. phase' = "user" /\ done' = 0 /\ built' = "used"
    BY <1>1, <2>1 DEF callVars, RInv, Finished
  <2>7. UserWritten' /\ Computed' /\ InputsCopied' /\ Finished' /\ wrong' \subseteq excused'
    BY <2>1, <2>6 DEF RInv, UserWritten, Computed, InputsCopied, Finished
  <2> QED BY <2>3, <2>4, <2>5, <2>7 DEF RInv
<1> QED BY <1>2, <1>3

\* What is queued does not read what the user writes.
LEMMA UserPlacesUnread ==
  ASSUME RInv, NEW b \in Async, NEW i \in 1 .. Len(queue[b]),
         NEW loc \in Range(queue[b][i].item.from), queue[b] # <<>>, NEW p
  PROVE  loc \notin {PlaceOf(G, p, x) : x \in UserTensors(G)}
<1>1. ~AllIdle
  BY DEF AllIdle
<1>2. PICK q \in GoodPlans : AllLive(q)
  BY <1>1 DEF RInv, Homes
<1>3. loc.b = Own => loc.t \notin UserTensors(G)
  BY <1>2 DEF AllLive, Lives
<1>4. \A x : PlaceOf(G, p, x).b = Own /\ PlaceOf(G, p, x).t = x
  BY DEF PlaceOf, Original
<1> QED BY <1>3, <1>4

\* What a user's inputs do to memory.
LEMMA WriteEffect ==
  ASSUME NEW m, NEW p, NEW k
  PROVE  /\ \A x \in UserTensors(G) :
              /\ Value(WriteInputs(m, p, k), PlaceOf(G, p, x)) = k
              /\ PlaceOf(G, p, x) \in DOMAIN WriteInputs(m, p, k)
         /\ \A loc : loc \notin {PlaceOf(G, p, x) : x \in UserTensors(G)} =>
              Value(WriteInputs(m, p, k), loc) = Value(m, loc)
         /\ \A loc \in DOMAIN WriteInputs(m, p, k) \ DOMAIN m : loc.t \in UserTensors(G)
<1> DEFINE places == {PlaceOf(G, p, x) : x \in UserTensors(G)}
<1>1. WriteInputs(m, p, k) = Store(m, places, k)
  BY DEF WriteInputs
<1>2. DOMAIN Store(m, places, k) = DOMAIN m \cup places
  BY DEF Store
<1>3. \A loc \in places : loc.t \in UserTensors(G)
  BY DEF PlaceOf, Original
<1>4. \A x \in UserTensors(G) : PlaceOf(G, p, x) \in places
  OBVIOUS
<1> HIDE DEF places
<1>5. \A loc \in places : Value(Store(m, places, k), loc) = k
  BY StoreThere
<1>6. \A loc : loc \notin places => Value(Store(m, places, k), loc) = Value(m, loc)
  BY StoreElsewhere
<1> QED BY <1>1, <1>2, <1>3, <1>4, <1>5, <1>6 DEF places

\* A computation begins, or is not allocated.
LEMMA BeginRight ==
  ASSUME SInv, RInv, UNCHANGED <<fixed, queue, wrong, done>>, gen' = gen + 1,
         excused \subseteq excused', Homes', IdsTyped', UserWritten',
         phase' = "splits" => split' = 1 /\ input' = 1,
         built' = "fresh" => built = "fresh" /\ ~is_alloc',
         \A loc \in DOMAIN mem' \ DOMAIN mem : loc.t \in UserTensors(G),
         NEW p, AllIdle \/ \A loc : loc \notin {PlaceOf(G, p, x) : x \in UserTensors(G)} =>
                             Value(mem', loc) = Value(mem, loc)
  PROVE  RInv'
<1>1. Fed' /\ Ordered'
  <2>1. CASE AllIdle
    BY <2>1, Idle
  <2>2. CASE ~AllIdle
    <3>1. ASSUME NEW b \in Async, NEW i \in 1 .. Len(queue[b]),
                 NEW loc \in Range(queue[b][i].item.from)
          PROVE  Value(mem', loc) = Value(mem, loc)
      <4>1. queue[b] # <<>>
        BY QueueFacts DEF SInv
      <4> QED BY <2>2, <4>1, UserPlacesUnread
    <3> QED BY <3>1, FedStays
  <2> QED BY <2>1, <2>2
<1>2. Written'
  BY WrittenStays DEF RInv
<1>3. gen \in Nat /\ done \in 0 .. gen
  BY GraphFacts DEF SInv, TypeOK
<1>4. done' < gen' /\ done' # gen'
  BY <1>3
<1>5. Computed'
  <2>1. ASSUME phase' = "splits" PROVE SettledUpTo(split - 1)'
    <3>1. 1 .. split' - 1 = {}
      BY <2>1
    <3> QED BY <3>1 DEF SettledUpTo
  <2> QED BY <1>4, <2>1 DEF Computed
<1>6. Finished'
  BY <1>4 DEF RInv, Finished
<1>7. InputsCopied'
  <2>1. ASSUME phase' = "splits", NEW k \in 1 .. Len(plan'.splits),
               NEW i \in 1 .. Len(plan'.splits[k].inputs)
        PROVE  ~(k < split' \/ (k = split' /\ i < input'))
    BY <2>1
  <2> QED BY <2>1 DEF InputsCopied
<1>8. wrong' \subseteq excused'
  BY DEF RInv
<1> QED BY <1>1, <1>2, <1>5, <1>6, <1>7, <1>8 DEF RInv

LEMMA ComputeRight ==
  ASSUME SInv, RInv, Compute
  PROVE  RInv'
<1>1. /\ is_alloc /\ gen < MaxComputes /\ Begin(plan) /\ mem' = WriteInputs(mem, plan, gen')
      /\ UNCHANGED <<fixed, schedVars, built, done, queue, event, wrong>>
  BY DEF Compute
<1>2. /\ gen' = gen + 1 /\ excused \subseteq excused'
      /\ phase' = "splits" /\ split' = 1 /\ input' = 1
  BY <1>1, BeginEffect DEF schedVars
<1>3. Homes' /\ IdsTyped'
  BY <1>1, HomesStay DEF schedVars
<1>4. UserWritten' /\ built' # "fresh"
  BY <1>1, WriteEffect, UserWrittenIs DEF schedVars, RInv, Finished
<1>5. \A loc \in DOMAIN mem' \ DOMAIN mem : loc.t \in UserTensors(G)
  BY <1>1, WriteEffect
<1>6. \A loc : loc \notin {PlaceOf(G, plan, x) : x \in UserTensors(G)} =>
        Value(mem', loc) = Value(mem, loc)
  BY <1>1, WriteEffect
<1> QED BY <1>1, <1>2, <1>3, <1>4, <1>5, <1>6, BeginRight

LEMMA ComputeUnallocatedRight ==
  ASSUME SInv, RInv, ComputeUnallocated
  PROVE  RInv'
<1> DEFINE ids == IF is_reset THEN hv_ids ELSE Blank
           p == NewSplit(ids)
<1>1. /\ ids \in Asked(G) /\ phase = "user" /\ gen < MaxComputes
      /\ \A x \in Tensors(G) : ~G.t[x].input
  BY AskedFacts DEF SInv, ComputeUnallocated, TablesKnown
<1>2. CASE Abort
  BY <1>1, <1>2, AbortRight
<1>3. CASE ~Abort
  <2> DEFINE m == WriteInputs(mem, p, gen + 1)
  <2>1. /\ ~p.abort /\ SplitGraph(p) /\ AllocSplits(p, m) /\ built' = "used"
        /\ \/ is_alloc' /\ Begin(p)
           \/ ~is_alloc' /\ gen' = gen + 1 /\ UNCHANGED <<phase, split, input, excused>>
        /\ UNCHANGED <<fixed, cur_copy, done, queue, event, wrong>>
    BY <1>3 DEF ComputeUnallocated
  <2>2. p \in GoodPlans
    BY <1>1, <2>1, NewIsGood DEF SInv
  <2> HIDE DEF p
  <2>3. plan' = p
    BY <2>1 DEF SplitGraph
  <2>4. /\ gen' = gen + 1 /\ excused \subseteq excused'
        /\ phase' = "splits" => split' = 1 /\ input' = 1
    BY <1>1, <2>1 DEF Begin
  <2>5. /\ \A x \in UserTensors(G) : Value(m, PlaceOf(G, p, x)) = gen'
                                       /\ PlaceOf(G, p, x) \in DOMAIN m
        /\ \A loc : loc \notin {PlaceOf(G, p, x) : x \in UserTensors(G)} =>
             Value(m, loc) = Value(mem, loc)
        /\ \A loc \in DOMAIN m \ DOMAIN mem : loc.t \in UserTensors(G)
    BY <2>4, WriteEffect
  <2> HIDE DEF m
  <2>6. /\ Homes' /\ IdsTyped'
        /\ mem' = m \/ (AllIdle /\ mem' = Forget(m))
    BY <2>1, <2>2, AllocRight
  <2>7. ASSUME NEW x \in UserTensors(G) PROVE Value(mem', PlaceOf(G, p, x)) = gen'
    <3> DEFINE loc == PlaceOf(G, p, x)
    <3>1. Preallocated(G, x)
      <4>1. x \in Range(G.leafs) /\ SoundGraph(G)
        BY GraphFacts DEF SInv, UserTensors
      <4>2. x \in Tensors(G)
        BY <4>1, GraphIs
      <4>3. ~G.t[x].input
        BY <1>1, <4>2
      <4> QED BY <4>3 DEF UserTensors
    <3>2. loc.b = Own /\ loc.t = x
      BY DEF PlaceOf, Original
    <3>3. loc \in DOMAIN Forget(m)
      BY <2>5, <3>1, <3>2 DEF Forget
    <3> QED BY <2>5, <2>6, <3>3, ForgetWrites
  <2>8. UserWritten'
    BY <2>1, <2>3, <2>7, UserWrittenIs
  <2>9. \A loc \in DOMAIN mem' \ DOMAIN mem : loc.t \in UserTensors(G)
    BY <2>5, <2>6, ForgetWrites
  <2> QED BY <2>1, <2>4, <2>5, <2>6, <2>8, <2>9, BeginRight
<1> QED BY <1>2, <1>3

-----------------------------------------------------------------------------
(* What compute_splits finds in memory.                                      *)

\* Weights and what the user wrote are right, and nothing writes them.
LEMMA GivenRight ==
  ASSUME SInv, RInv, phase = "splits", NEW loc, AtRest(G, loc) \/ UserPlace(G, plan, loc)
  PROVE  Right(mem, loc, gen) /\ Quiet(loc)
<1>1. Quiet(loc)
  <2> SUFFICES ASSUME NEW d \in Async, NEW j \in 1 .. Len(queue[d]), queue[d][j].item.to = loc
               PROVE  FALSE
    BY DEF Quiet
  <2>1. loc.t \notin Range(G.leafs) /\ loc.t \notin UserTensors(G)
    BY EntryFacts DEF IsResult
  <2> QED BY <2>1 DEF AtRest, UserPlace
<1>2. CASE AtRest(G, loc)
  <2>1. loc \notin DOMAIN mem
    BY <1>2 DEF RInv, Written, AtRest
  <2> QED BY <1>1, <1>2, <2>1 DEF AtRest, Right, Value
<1>3. CASE UserPlace(G, plan, loc)
  BY <1>1, <1>3 DEF RInv, UserWritten, UserPlace, Right
<1> QED BY <1>2, <1>3

\* What a split before has computed is there, or queued.
LEMMA WriterSettled ==
  ASSUME SInv, RInv, InSplit, gen \notin excused, NEW i, NEW loc,
         NEW k1 \in Writers(plan, split, i, loc)
  PROVE  \/ k1 = split /\ \E j \in 1 .. Len(plan.items[split]) :
                            plan.items[split][j].to = loc /\ j < i
         \/ k1 \in 1 .. split - 1 /\ Settled(plan.splits[k1].backend_id, loc)
<1>1. split \in 1 .. Len(plan.splits) /\ Len(plan.splits) \in Nat
  BY AtSplit
<1>2. k1 \in 1 .. split
  BY DEF Writers
<1>3. PICK j \in 1 .. Len(plan.items[k1]) : plan.items[k1][j].to = loc /\ (k1 = split => j < i)
  BY DEF Writers
<1>4. CASE k1 = split
  BY <1>3, <1>4
<1>5. CASE k1 # split
  <2>1. k1 \in 1 .. split - 1
    BY <1>1, <1>2, <1>5
  <2>2. SettledUpTo(split - 1)
    BY DEF RInv, Computed, InSplit
  <2> QED BY <1>3, <2>1, <2>2 DEF SettledUpTo
<1> QED BY <1>4, <1>5

LEMMA InputFacts ==
  ASSUME TypeOK, NEW p \in GoodPlans, NEW k \in 1 .. Len(p.splits)
  PROVE  /\ p.splits[k].backend_id \in Backends /\ p.splits[k].backend_id # Own
         /\ \A x \in Range(p.splits[k].inputs) : SoundInput(G, p, k, x)
<1>1. SoundFlow(G, p)
  BY FlowFacts
<1>2. /\ p.splits[k].backend_id \in Backends
      /\ \A x \in Range(p.splits[k].inputs) : SoundInput(G, p, k, x)
  BY <1>1, Zenon DEF SoundFlow
<1> QED BY <1>2, Constants

\* compute_splits waits for the backend that computes what it copies.
LEMMA InputRight ==
  ASSUME SInv, RInv, InSplit, gen \notin excused, NEW x \in Range(Cur.inputs), InputReady(x)
  PROVE  Right(mem, Location(G, plan, PlaceOf(G, plan, x)), gen)
<1> DEFINE loc == Location(G, plan, PlaceOf(G, plan, x))
<1>1. plan \in GoodPlans /\ split \in 1 .. Len(plan.splits) /\ phase = "splits"
  BY AtSplit DEF InSplit
<1>2. SoundInput(G, plan, split, x)
  BY <1>1, InputFacts DEF SInv, Cur
<1>3. CASE AtRest(G, loc) \/ UserPlace(G, plan, loc)
  BY <1>1, <1>3, GivenRight
<1>4. ASSUME ~G.t[x].input, NEW k1 \in Writers(plan, split, 1, loc),
             plan.splits[k1].backend_id \in Async => plan.splits[k1].backend_id = plan.ids[x]
      PROVE  Right(mem, loc, gen)
  <2> DEFINE b1 == plan.splits[k1].backend_id
  <2> HIDE DEF loc
  <2>1. \A j \in 1 .. Len(plan.items[split]) : ~(j < 1)
    BY <1>1, SplitFacts DEF SInv
  <2>2. Settled(b1, loc)
    BY <2>1, WriterSettled
  <2>3. ASSUME b1 \in Async, NEW j \in 1 .. Len(queue[b1]) PROVE FALSE
    <3>1. QueueOf(b1) = <<>>
      BY <1>4, <2>3 DEF InputReady
    <3>2. queue[b1] = <<>>
      BY <2>3, <3>1 DEF QueueOf
    <3> QED BY <2>3, <3>2
  <2> QED BY <2>2, <2>3 DEF Settled
<1> QED BY <1>2, <1>3, <1>4 DEF SoundInput

\* What an operation of the present split reads is the result of an operation
\* before it in the split, or queued in its backend, or in memory.
LEMMA OperandsReady ==
  ASSUME SInv, RInv, Ready, gen \notin excused, NEW i \in 1 .. Len(plan.items[split]),
         NEW loc \in Range(plan.items[split][i].from), NEW B, B = Cur.backend_id
  PROVE  \/ \E j \in 1 .. i - 1 : plan.items[split][j].to = loc
         \/ B \in Async /\ \E j \in 1 .. Len(queue[B]) :
                             queue[B][j].item.to = loc /\ queue[B][j].gen = gen
         \/ Right(mem, loc, gen) /\ Quiet(loc)
<1>1. /\ plan \in GoodPlans /\ split \in 1 .. Len(plan.splits) /\ phase = "splits" /\ InSplit
      /\ plan.copy = cur_copy /\ Len(plan.splits) \in Nat
  BY AtSplit DEF Ready, InSplit
<1>2. SoundItem(G, plan, split, i)
  BY <1>1, ItemFacts DEF SInv
<1>3. Len(plan.items[split]) \in Nat
  BY <1>1, SplitFacts DEF SInv
<1>4. CASE loc.b # Own
  <2>1. loc = CopyOf(loc.t, B, cur_copy)
    BY <1>1, <1>2, <1>4 DEF SoundItem, Cur
  <2>2. PICK k \in 1 .. split : /\ plan.splits[k].backend_id = B
                                /\ loc.t \in Range(plan.splits[k].inputs)
    BY <1>1, <1>4, NewEntry
  <2>3. k \in 1 .. Len(plan.splits)
    BY <1>1, <2>2
  <2>4. DOMAIN plan.splits[k].inputs = 1 .. Len(plan.splits[k].inputs)
        /\ Len(plan.splits[k].inputs) \in Nat
    BY <1>1, <2>3, SplitFacts DEF SInv
  <2>5. PICK m \in 1 .. Len(plan.splits[k].inputs) : plan.splits[k].inputs[m] = loc.t
    BY <2>2, <2>4 DEF Range
  <2>6. k < split \/ (k = split /\ m < input)
    BY <1>1, <2>2, <2>4, <2>5 DEF Ready, Cur, SInv, TypeOK
  <2>7. Right(mem, loc, gen)
    BY <1>1, <2>1, <2>2, <2>3, <2>5, <2>6 DEF RInv, InputsCopied
  <2>8. Quiet(loc)
    BY <1>4, EntryFacts DEF Quiet, IsResult
  <2> QED BY <2>7, <2>8
<1>5. CASE AtRest(G, loc) \/ UserPlace(G, plan, loc)
  BY <1>1, <1>5, GivenRight
<1>6. ASSUME NEW k1 \in Writers(plan, split, i, loc),
             \/ plan.splits[k1].backend_id = B
             \/ B \notin Async /\ plan.splits[k1].backend_id \notin Async
      PROVE  \/ \E j \in 1 .. i - 1 : plan.items[split][j].to = loc
             \/ B \in Async /\ \E j \in 1 .. Len(queue[B]) :
                                 queue[B][j].item.to = loc /\ queue[B][j].gen = gen
             \/ Right(mem, loc, gen) /\ Quiet(loc)
  <2>1. CASE \E j \in 1 .. Len(plan.items[split]) : plan.items[split][j].to = loc /\ j < i
    <3>1. PICK j \in 1 .. Len(plan.items[split]) : plan.items[split][j].to = loc /\ j < i
      BY <2>1
    <3>2. j \in 1 .. i - 1
      BY <1>3, <3>1
    <3> QED BY <3>1, <3>2
  <2>2. CASE Settled(plan.splits[k1].backend_id, loc)
    BY <1>6, <2>2 DEF Settled
  <2> QED BY <1>1, <2>1, <2>2, WriterSettled
<1> QED BY <1>2, <1>4, <1>5, <1>6 DEF SoundItem, Cur

-----------------------------------------------------------------------------
(* The steps of compute_splits.                                              *)

LEMMA SettledStays ==
  ASSUME UNCHANGED <<fixed, queue, gen>>, NEW loc, Value(mem', loc) = Value(mem, loc), NEW b
  PROVE  Settled(b, loc) => Settled(b, loc)'
BY SameValue DEF Settled, Quiet, Right, Value

\* The results of the splits before have places that are not inputs of the user
\* nor copies.
LEMMA BeforeIs ==
  ASSUME SInv, InSplit, NEW k \in 1 .. split, NEW i \in 1 .. Len(plan.items[k])
  PROVE  k \in 1 .. Len(plan.splits) /\ IsResult(plan.items[k][i].to)
<1>1. /\ plan \in GoodPlans /\ split \in 1 .. Len(plan.splits) /\ Len(plan.splits) \in Nat
  BY AtSplit
<1>2. k \in 1 .. Len(plan.splits)
  BY <1>1
<1>3. TypeOK
  BY DEF SInv
<1>4. IsResult(plan.items[k][i].to)
  BY <1>1, <1>2, <1>3, ItemFacts
<1> QED BY <1>2, <1>4

LEMMA CopyInputRight ==
  ASSUME SInv, RInv, CopyInput
  PROVE  RInv'
<1> DEFINE B == Cur.backend_id
           x == Cur.inputs[input]
           L == CopyOf(x, B, cur_copy)
           loc0 == Location(G, plan, PlaceOf(G, plan, x))
<1>1. /\ InSplit /\ input <= Len(Cur.inputs) /\ InputReady(x)
      /\ mem' = Store(mem, {L}, Value(mem, loc0)) /\ input' = input + 1
      /\ UNCHANGED <<fixed, schedVars, phase, split, async, built, gen, done, queue, event, wrong, excused>>
  BY DEF CopyInput
<1>2. /\ plan \in GoodPlans /\ split \in 1 .. Len(plan.splits) /\ Len(plan.splits) \in Nat
      /\ phase = "splits" /\ gen \in Nat
  BY <1>1, AtSplit DEF InSplit
<1>3. B # Own
  BY <1>2, InputFacts DEF SInv, Cur
<1>4. DOMAIN Cur.inputs = 1 .. Len(Cur.inputs) /\ Len(Cur.inputs) \in Nat
      /\ input \in 1 .. Len(Cur.inputs)
  <2>1. DOMAIN Cur.inputs = 1 .. Len(Cur.inputs) /\ Len(Cur.inputs) \in Nat
    BY <1>2, SplitFacts DEF SInv, Cur
  <2>2. input \in Nat \ {0}
    BY DEF SInv, TypeOK
  <2> QED BY <1>1, <2>1, <2>2
<1>5. x \in Range(Cur.inputs)
  BY <1>4 DEF Range
<1>6. L.b # Own
  BY <1>3 DEF CopyOf
<1> DEFINE value == Value(mem, loc0)
<1> HIDE DEF value
<1>7. mem' = Store(mem, {L}, value)
  BY <1>1 DEF value
<1>8. (gen \notin excused => Right(mem, loc0, gen))
  BY <1>1, <1>5, InputRight
<1> HIDE DEF x, L, loc0
<1>9. /\ \A loc : loc # L => Value(mem', loc) = Value(mem, loc)
      /\ Value(mem', L) = value
      /\ DOMAIN mem' = DOMAIN mem \cup {L}
  <2>1. DOMAIN Store(mem, {L}, value) = DOMAIN mem \cup {L}
    BY DEF Store
  <2> QED BY <1>7, <2>1, StoreElsewhere, StoreThere
<1>10. Fed' /\ Ordered'
  <2>1. ASSUME NEW b \in Async, NEW i \in 1 .. Len(queue[b]), queue[b][i].gen \notin excused,
               NEW loc \in Range(queue[b][i].item.from)
        PROVE  Value(mem', loc) = Value(mem, loc)
    <3>1. CASE loc.b = Own
      BY <1>6, <1>9, <3>1
    <3>2. CASE loc.b # Own
      BY <2>1, <3>2, CopyInputIsSafe
    <3> QED BY <3>1, <3>2
  <2> QED BY <1>1, <2>1, FedStays
<1>11. Written'
  BY <1>1, <1>6, <1>9, WrittenStays DEF RInv
<1>12. UserWritten'
  <2>1. plan' = plan /\ gen' = gen
    BY <1>1 DEF schedVars
  <2>2. \A y : PlaceOf(G, plan, y).b = Own
    BY DEF PlaceOf, Original
  <2>3. \A y \in UserTensors(G) : Value(mem, PlaceOf(G, plan, y)) = gen
    BY <1>2 DEF RInv, UserWritten
  <2> QED BY <1>1, <1>6, <1>9, <2>1, <2>2, <2>3, UserWrittenIs
<1>13. Homes' /\ IdsTyped'
  BY <1>1, HomesStay DEF schedVars
<1>14. done < gen /\ (gen \notin excused => SettledUpTo(split - 1))
  BY <1>2 DEF RInv, Computed
<1>15. Computed'
  <2>1. ASSUME SettledUpTo(split - 1), NEW k \in 1 .. split - 1, NEW i \in 1 .. Len(plan.items[k])
        PROVE  Settled(plan.splits[k].backend_id, plan.items[k][i].to)'
    <3>1. k \in 1 .. split
      BY <1>2
    <3>2. plan.items[k][i].to.b = Own
      BY <1>1, <3>1, BeforeIs DEF IsResult
    <3>3. Value(mem', plan.items[k][i].to) = Value(mem, plan.items[k][i].to)
      BY <1>6, <1>9, <3>2
    <3>4. Settled(plan.splits[k].backend_id, plan.items[k][i].to)
      BY <2>1 DEF SettledUpTo
    <3>5. Settled(plan.splits[k].backend_id, plan.items[k][i].to)
            => (Settled(plan.splits[k].backend_id, plan.items[k][i].to))'
      <4>1. ASSUME NEW loc, NEW b, Value(mem', loc) = Value(mem, loc), Settled(b, loc)
            PROVE  Settled(b, loc)'
        BY <1>1, <4>1, SettledStays
      <4> QED BY <1>1, <3>3, <3>4, <4>1 DEF schedVars
    <3> QED BY <3>4, <3>5
  <2> QED BY <1>1, <1>14, <2>1 DEF Computed, SettledUpTo, schedVars
<1>16. Finished'
  <2>1. done' = done /\ gen' = gen /\ built' = built /\ is_alloc' = is_alloc
    BY <1>1 DEF schedVars
  <2>2. done' # gen'
    BY <1>2, <1>14, <2>1
  <2> QED BY <2>1, <2>2 DEF RInv, Finished
<1>17. InputsCopied'
  <2> SUFFICES ASSUME gen \notin excused, NEW k \in 1 .. Len(plan.splits),
                      NEW i \in 1 .. Len(plan.splits[k].inputs),
                      k < split \/ (k = split /\ i < input + 1),
                      NEW loc, loc = CopyOf(plan.splits[k].inputs[i], plan.splits[k].backend_id, cur_copy)
               PROVE  Right(mem', loc, gen)
    BY <1>1, SameValue DEF InputsCopied, schedVars
  <2>1. CASE loc = L
    BY <1>8, <1>9, <2>1 DEF Right, value
  <2>2. CASE loc # L
    <3>1. ~(k = split /\ i = input)
      BY <2>2 DEF L, x, Cur
    <3>2. i \in Nat /\ input \in Nat
      BY <1>4
    <3>3. k < split \/ (k = split /\ i < input)
      BY <3>1, <3>2
    <3>4. Right(mem, loc, gen)
      BY <1>2, <3>3 DEF RInv, InputsCopied
    <3> QED BY <1>9, <2>2, <3>4 DEF Right
  <2> QED BY <2>1, <2>2
<1>18. wrong' \subseteq excused'
  BY <1>1 DEF RInv
<1> QED BY <1>10, <1>11, <1>12, <1>13, <1>15, <1>16, <1>17, <1>18 DEF RInv

\* Weights are not results.
LEMMA NoLeaf ==
  ASSUME TypeOK, NEW p \in GoodPlans, NEW x \in Operations
  PROVE  x \notin Range(G.leafs)
<1>1. SoundFlow(G, p)
  BY FlowFacts
<1>2. \E k \in 1 .. Len(p.splits) : \E i \in 1 .. Len(p.items[k]) :
        p.items[k][i].to = PlaceOf(G, p, x)
  BY <1>1, Zenon DEF SoundFlow, Operations
<1>3. PICK k \in 1 .. Len(p.splits) : \E i \in 1 .. Len(p.items[k]) :
        p.items[k][i].to = PlaceOf(G, p, x)
  BY <1>2
<1>4. PICK i \in 1 .. Len(p.items[k]) : p.items[k][i].to = PlaceOf(G, p, x)
  BY <1>3
<1>5. IsResult(p.items[k][i].to)
  BY ItemFacts
<1>6. PlaceOf(G, p, x).t = x
  BY DEF PlaceOf, Original
<1> QED BY <1>4, <1>5, <1>6 DEF IsResult

\* What a split gives to a queue uses the memory of its backend.
LEMMA GivenLives ==
  ASSUME TypeOK, NEW p \in GoodPlans, NEW k \in 1 .. Len(p.splits),
         NEW i \in 1 .. Len(p.items[k]), NEW B \in Async, p.splits[k].backend_id = B
  PROVE  Lives(p, p.items[k][i], B)
<1> DEFINE item == p.items[k][i]
<1>1. SoundItem(G, p, k, i) /\ IsResult(item.to)
  BY ItemFacts
<1>2. p.ids[item.to.t] = B
  BY <1>1 DEF SoundItem
<1>3. ASSUME NEW loc \in Range(item.from), loc.b = Own
      PROVE  loc.t \notin UserTensors(G) /\ (loc.t \in Operations => p.ids[loc.t] = B)
  <2>1. CASE AtRest(G, loc)
    BY <2>1, NoLeaf DEF AtRest
  <2>2. ASSUME NEW k1 \in Writers(p, k, i, loc), p.splits[k1].backend_id = B
        PROVE  loc.t \notin UserTensors(G) /\ p.ids[loc.t] = B
    <3>1. k1 \in 1 .. Len(p.splits)
      <4>1. k1 \in 1 .. k /\ Len(p.splits) \in Nat
        BY PlanTypes DEF Writers
      <4> QED BY <4>1
    <3>2. PICK i1 \in 1 .. Len(p.items[k1]) : p.items[k1][i1].to = loc
      BY DEF Writers
    <3>3. SoundItem(G, p, k1, i1) /\ IsResult(p.items[k1][i1].to)
      BY <3>1, ItemFacts
    <3>4. p.ids[loc.t] = B
      BY <2>2, <3>2, <3>3 DEF SoundItem
    <3> QED BY <3>2, <3>3, <3>4 DEF IsResult
  <2> QED BY <1>1, <1>3, <2>1, <2>2 DEF SoundItem
<1> QED BY <1>1, <1>2, <1>3 DEF Lives, IsResult

LEMMA PresentLives ==
  ASSUME SInv, RInv, InSplit
  PROVE  LaidOut(plan) /\ AllLive(plan)
BY AtSplit DEF RInv, Homes

\* Another queue does not use what the present split computes.
LEMMA Unused ==
  ASSUME SInv, RInv, InSplit, NEW B, B = Cur.backend_id, B \notin Async \/ queue[B] = <<>>,
         NEW i \in 1 .. Len(plan.items[split]), NEW b \in Async, NEW j \in 1 .. Len(queue[b])
  PROVE  plan.items[split][i].to \notin {queue[b][j].item.to} \cup Range(queue[b][j].item.from)
<1> SUFFICES ASSUME NEW loc \in {queue[b][j].item.to} \cup Range(queue[b][j].item.from),
                    loc = plan.items[split][i].to
             PROVE  FALSE
  OBVIOUS
<1>1. plan \in GoodPlans /\ split \in 1 .. Len(plan.splits)
  BY AtSplit
<1>2. SoundItem(G, plan, split, i) /\ IsResult(loc)
  BY <1>1, ItemFacts DEF SInv
<1>3. plan.ids[loc.t] = B
  BY <1>2 DEF SoundItem, Cur
<1>4. Lives(plan, queue[b][j].item, b)
  BY PresentLives DEF AllLive
<1>5. B = b
  BY <1>2, <1>3, <1>4 DEF Lives, IsResult
<1> QED BY <1>5

\* A part of the present split.
PartOf(items) ==
  /\ items \in Seq(Items) /\ Len(items) <= Len(plan.items[split])
  /\ \A j \in 1 .. Len(items) : items[j] = plan.items[split][j]

\* What an operation of an earlier split writes the present one does not.
LEMMA EarlierApart ==
  ASSUME SInv, InSplit, NEW items, PartOf(items),
         NEW k \in 1 .. split - 1, NEW i \in 1 .. Len(plan.items[k]), NEW j \in 1 .. Len(items)
  PROVE  items[j].to # plan.items[k][i].to
<1>1. plan \in GoodPlans /\ split \in 1 .. Len(plan.splits) /\ Len(plan.splits) \in Nat
  BY AtSplit
<1>2. k \in 1 .. Len(plan.splits) /\ k # split
  BY <1>1
<1>3. j \in 1 .. Len(plan.items[split]) /\ items[j] = plan.items[split][j]
  BY <1>1, SplitFacts DEF PartOf, SInv
<1> QED BY <1>1, <1>2, <1>3, OneWriter DEF SInv

LEMMA WholeSplit ==
  ASSUME SInv, InSplit
  PROVE  PartOf(plan.items[split])
BY AtSplit, SplitFacts DEF SInv, PartOf

LEMMA UpToSplit ==
  ASSUME SInv, InSplit, NEW k \in 1 .. split
  PROVE  k \in 1 .. split - 1 \/ k = split
<1>1. split \in Nat
  BY AtSplit
<1> QED BY <1>1

\* A split, or a part of it, is put into the queue of its backend.
LEMMA EnqueueRight ==
  ASSUME SInv, RInv, Ready, UNCHANGED <<fixed, mem, plan, gen, backend_ids, is_alloc>>,
         excused \subseteq excused', NEW B \in Async, B = Cur.backend_id,
         NEW items, PartOf(items), Enqueue(B, items)
  PROVE  /\ Fed' /\ Ordered' /\ Homes' /\ IdsTyped'
         /\ gen \notin excused =>
              \A k \in 1 .. split : \A i \in 1 .. Len(plan.items[k]) :
                k < split \/ i <= Len(items) =>
                  Settled(plan.splits[k].backend_id, plan.items[k][i].to)'
<1> DEFINE n == Len(queue[B])
<1>1. /\ InSplit /\ plan \in GoodPlans /\ split \in 1 .. Len(plan.splits)
      /\ Len(plan.splits) \in Nat /\ gen \in 1 .. MaxComputes /\ gen \in Nat /\ is_alloc
      /\ phase = "splits"
  BY AtSplit, Constants DEF Ready, InSplit
<1>2. items \in Seq(Items) /\ Len(items) \in Nat
  BY DEF PartOf
<1>3. /\ Len(queue'[B]) = n + Len(items)
      /\ \A i \in 1 .. n : queue'[B][i] = queue[B][i]
      /\ \A i \in 1 .. Len(items) : queue'[B][n + i] = [item |-> items[i], gen |-> gen]
      /\ \A d \in Async \ {B} : queue'[d] = queue[d]
  BY <1>1, <1>2, EnqueueEffect
<1>4. n \in Nat /\ \A d \in Async : Len(queue[d]) \in Nat
  BY QueueFacts DEF SInv
<1>5. ASSUME NEW j \in 1 .. Len(items)
      PROVE  j \in 1 .. Len(plan.items[split]) /\ items[j] = plan.items[split][j]
  BY <1>1, SplitFacts DEF PartOf, SInv
<1> DEFINE Old(d, i) == i \in 1 .. Len(queue[d]) /\ queue'[d][i] = queue[d][i]
           New(d, i, j) == d = B /\ i = n + j /\ j \in 1 .. Len(items)
                           /\ queue'[d][i].item = items[j] /\ queue'[d][i].gen = gen
<1>6. ASSUME NEW d \in Async, NEW i \in 1 .. Len(queue'[d])
      PROVE  Old(d, i) \/ \E j \in 1 .. Len(items) : New(d, i, j)
  <2>1. CASE d # B
    BY <1>3, <2>1
  <2>2. CASE d = B /\ i <= n
    BY <1>3, <1>4, <2>2
  <2>3. CASE d = B /\ i > n
    <3>1. i - n \in 1 .. Len(items) /\ i = n + (i - n)
      BY <1>2, <1>3, <1>4, <2>3
    <3>2. queue'[B][i] = [item |-> items[i - n], gen |-> gen]
      BY <1>3, <3>1
    <3>3. New(d, i, i - n)
      BY <2>3, <3>1, <3>2
    <3> QED BY <3>1, <3>3
  <2> QED BY <1>2, <1>3, <1>4, <2>1, <2>2, <2>3
<1>7. \A d \in Async : \A i \in 1 .. Len(queue[d]) :
        i \in 1 .. Len(queue'[d]) /\ queue'[d][i] = queue[d][i]
  BY <1>2, <1>3, <1>4
<1>8. ASSUME NEW i \in 1 .. Len(items)
      PROVE  n + i \in 1 .. Len(queue'[B]) /\ queue'[B][n + i].item = items[i]
               /\ queue'[B][n + i].gen = gen
  <2>1. n + i \in 1 .. Len(queue'[B])
    BY <1>2, <1>3, <1>4
  <2>2. queue'[B][n + i] = [item |-> items[i], gen |-> gen]
    BY <1>3
  <2> QED BY <2>1, <2>2
<1>9. Fed'
  <2> SUFFICES ASSUME NEW d \in Async, NEW i \in 1 .. Len(queue'[d]), queue'[d][i].gen \notin excused',
                      NEW loc \in Range(queue'[d][i].item.from)
               PROVE  \/ \E m \in 1 .. i - 1 : queue'[d][m].item.to = loc
                                               /\ queue'[d][m].gen = queue'[d][i].gen
                      \/ Right(mem, loc, queue'[d][i].gen)
                         /\ \A m \in 1 .. i - 1 : queue'[d][m].item.to # loc
    BY SameValue DEF Fed, FedBy
  <2>1. CASE Old(d, i)
    <3>1. FedBy(d, i, loc)
      BY <2>1 DEF RInv, Fed
    <3>2. \A m \in 1 .. i - 1 : queue'[d][m] = queue[d][m]
      BY <1>4, <1>7, <2>1
    <3> QED BY <2>1, <3>1, <3>2 DEF FedBy
  <2>2. ASSUME NEW j \in 1 .. Len(items), New(d, i, j)
        PROVE  \/ \E m \in 1 .. i - 1 : queue'[d][m].item.to = loc
                                        /\ queue'[d][m].gen = queue'[d][i].gen
               \/ Right(mem, loc, queue'[d][i].gen)
                  /\ \A m \in 1 .. i - 1 : queue'[d][m].item.to # loc
    <3>1. gen \notin excused /\ queue'[d][i].gen = gen /\ d = B /\ i = n + j
      BY <2>2
    <3>2. /\ loc \in Range(plan.items[split][j].from)
          /\ j \in 1 .. Len(plan.items[split])
      BY <1>5, <2>2
    <3>3. \/ \E m \in 1 .. j - 1 : plan.items[split][m].to = loc
          \/ \E m \in 1 .. n : queue[B][m].item.to = loc /\ queue[B][m].gen = gen
          \/ Right(mem, loc, gen) /\ Quiet(loc)
      BY <3>1, <3>2, OperandsReady, SMTT(60)
    <3>4. CASE \E m \in 1 .. j - 1 : plan.items[split][m].to = loc
      <4>1. PICK m \in 1 .. j - 1 : plan.items[split][m].to = loc
        BY <3>4
      <4>2. m \in 1 .. Len(items) /\ n + m \in 1 .. i - 1
        BY <1>2, <1>4, <3>1, <4>1
      <4>3. items[m].to = loc
        BY <1>5, <4>1, <4>2
      <4> QED BY <1>8, <3>1, <4>2, <4>3
    <3>5. CASE \E m \in 1 .. n : queue[B][m].item.to = loc /\ queue[B][m].gen = gen
      <4>1. PICK m \in 1 .. n : queue[B][m].item.to = loc /\ queue[B][m].gen = gen
        BY <3>5
      <4>2. m \in 1 .. i - 1
        BY <1>4, <3>1, <4>1
      <4> QED BY <1>7, <3>1, <4>1, <4>2, SMTT(60)
    <3>6. CASE Right(mem, loc, gen) /\ Quiet(loc)
      <4> SUFFICES ASSUME NEW m \in 1 .. i - 1, queue'[d][m].item.to = loc
                   PROVE  queue'[d][m].gen = gen
        BY <3>1, <3>6
      <4>1. m \in 1 .. Len(queue'[d])
        BY <1>2, <1>3, <1>4, <3>1
      <4>2. ~Old(d, m)
        BY <3>6 DEF Quiet
      <4> QED BY <1>6, <4>1, <4>2
    <3> QED BY <3>3, <3>4, <3>5, <3>6
  <2> QED BY <1>6, <2>1, <2>2
<1>10. Ordered'
  <2> SUFFICES ASSUME NEW d \in Async, NEW j \in 1 .. Len(queue'[d]), NEW i \in 1 .. j
               PROVE  queue'[d][i].gen <= queue'[d][j].gen
    BY DEF Ordered
  <2>1. Len(queue'[d]) \in Nat
    BY <1>2, <1>3, <1>4
  <2>2. i \in 1 .. Len(queue'[d]) /\ i <= j
    BY <2>1
  <2>3. CASE Old(d, i) /\ Old(d, j)
    BY <2>2, <2>3 DEF RInv, Ordered
  <2>4. CASE ~Old(d, j)
    <3>1. queue'[d][j].gen = gen
      BY <1>6, <2>4
    <3>2. queue'[d][i].gen <= gen
      <4>1. CASE Old(d, i)
        BY <4>1 DEF SInv, QueueReads
      <4>2. CASE ~Old(d, i)
        <5>1. queue'[d][i].gen = gen /\ gen \in Nat
          BY <1>1, <1>6, <2>2, <4>2
        <5> QED BY <5>1
      <4> QED BY <4>1, <4>2
    <3> QED BY <3>1, <3>2
  <2>5. CASE Old(d, j) /\ ~Old(d, i)
    <3>1. PICK m \in 1 .. Len(items) : New(d, i, m)
      BY <1>6, <2>2, <2>5
    <3>2. i > n /\ j <= n
      BY <1>2, <1>4, <2>5, <3>1
    <3> QED BY <1>4, <2>1, <2>2, <3>2
  <2> QED BY <2>3, <2>4, <2>5
<1>11. Homes' /\ IdsTyped'
  <2>1. LaidOut(plan) /\ AllLive(plan)
    BY <1>1, PresentLives
  <2>2. ASSUME NEW d \in Async, NEW i \in 1 .. Len(queue'[d])
        PROVE  Lives(plan, queue'[d][i].item, d)
    <3>1. CASE Old(d, i)
      BY <2>1, <3>1 DEF AllLive
    <3>2. ASSUME NEW j \in 1 .. Len(items), New(d, i, j)
          PROVE  Lives(plan, queue'[d][i].item, d)
      <4>1. Lives(plan, plan.items[split][j], B)
        BY <1>1, <1>5, GivenLives DEF SInv, Cur
      <4> QED BY <1>5, <3>2, <4>1
    <3> QED BY <1>6, <3>1, <3>2
  <2>3. AllLive(plan)'
    BY <2>2, SameValue DEF AllLive, Lives
  <2>4. GoodPlans' = GoodPlans /\ plan' = plan /\ LaidOut(plan)' /\ IdsTyped'
    BY <2>1, Same DEF LaidOut, RInv, IdsTyped
  <2> QED BY <1>1, <2>3, <2>4 DEF Homes
<1>12. ASSUME gen \notin excused, NEW j \in 1 .. Len(items)
       PROVE  Settled(B, items[j].to)'
  <2>1. \E m \in 1 .. Len(queue'[B]) : queue'[B][m].item.to = items[j].to /\ queue'[B][m].gen = gen
    BY <1>8
  <2> QED BY <2>1 DEF Settled
<1>13. ASSUME gen \notin excused, NEW k \in 1 .. split - 1, NEW i \in 1 .. Len(plan.items[k])
       PROVE  Settled(plan.splits[k].backend_id, plan.items[k][i].to)'
  <2>1. PICK b : b = plan.splits[k].backend_id
    OBVIOUS
  <2>2. PICK loc : loc = plan.items[k][i].to
    OBVIOUS
  <2>3. Settled(b, loc)
    BY <1>1, <1>13, <2>1, <2>2 DEF RInv, Computed, SettledUpTo
  <2>4. Settled(b, loc)'
    <3>1. CASE b \in Async /\ \E j \in 1 .. Len(queue[b]) :
                                queue[b][j].item.to = loc /\ queue[b][j].gen = gen
      <4>1. b \in Async /\ \E j \in 1 .. Len(queue'[b]) :
                             queue'[b][j].item.to = loc /\ queue'[b][j].gen = gen
        BY <1>7, <3>1
      <4> QED BY <4>1 DEF Settled
    <3>2. CASE Right(mem, loc, gen) /\ Quiet(loc)
      <4>1. ASSUME NEW d \in Async, NEW m \in 1 .. Len(queue'[d])
            PROVE  queue'[d][m].item.to # loc
        <5>1. CASE Old(d, m)
          BY <3>2, <5>1 DEF Quiet
        <5>2. ASSUME NEW j \in 1 .. Len(items), New(d, m, j) PROVE queue'[d][m].item.to # loc
          BY <1>1, <1>13, <2>2, <5>2, EarlierApart
        <5> QED BY <1>6, <5>1, <5>2
      <4>2. Right(mem, loc, gen)'
        BY <3>2, SameValue
      <4> QED BY <4>1, <4>2 DEF Settled, Quiet
    <3> QED BY <2>3, <3>1, <3>2 DEF Settled
  <2> QED BY <2>1, <2>2, <2>4
<1>14. ASSUME gen \notin excused, NEW k \in 1 .. split, NEW i \in 1 .. Len(plan.items[k]),
              k < split \/ i <= Len(items)
       PROVE  Settled(plan.splits[k].backend_id, plan.items[k][i].to)'
  <2>1. CASE k \in 1 .. split - 1
    BY <1>13, <1>14, <2>1
  <2>2. CASE k = split
    <3>1. i \in 1 .. Len(items)
      BY <1>1, <1>14, <2>2, SplitFacts DEF SInv
    <3>2. items[i].to = plan.items[k][i].to /\ B = plan.splits[k].backend_id
      BY <1>5, <2>2, <3>1 DEF Cur
    <3> QED BY <1>12, <1>14, <3>1, <3>2
  <2> QED BY <1>1, <2>1, <2>2, UpToSplit
<1> QED BY <1>9, <1>10, <1>11, <1>14

\* A split, or a part of it, is computed by a backend with nothing queued.
LEMMA RunsRight ==
  ASSUME SInv, RInv, Ready, UNCHANGED <<fixed, queue, plan, gen>>, excused \subseteq excused',
         NEW B, B = Cur.backend_id, B \notin Async \/ queue[B] = <<>>,
         NEW items, PartOf(items), RunAll(items)
  PROVE  /\ Fed' /\ Ordered' /\ Written' /\ UserWritten' /\ wrong' \subseteq excused'
         /\ \A loc : loc.b # Own => Value(mem', loc) = Value(mem, loc)
         /\ gen \notin excused =>
              \A k \in 1 .. split : \A i \in 1 .. Len(plan.items[k]) :
                k < split \/ i <= Len(items) =>
                  Settled(plan.splits[k].backend_id, plan.items[k][i].to)'
<1>1. /\ InSplit /\ plan \in GoodPlans /\ split \in 1 .. Len(plan.splits)
      /\ Len(plan.splits) \in Nat /\ phase = "splits" /\ Len(items) \in Nat
  BY AtSplit DEF Ready, InSplit, PartOf
<1>2. ASSUME NEW j \in 1 .. Len(items)
      PROVE  /\ j \in 1 .. Len(plan.items[split]) /\ items[j] = plan.items[split][j]
             /\ IsResult(items[j].to)
  <2>1. j \in 1 .. Len(plan.items[split]) /\ items[j] = plan.items[split][j]
    BY <1>1, SplitFacts DEF PartOf, SInv
  <2> QED BY <1>1, <2>1, ItemFacts DEF SInv
<1>3. /\ \A loc : (\A i \in 1 .. Len(items) : items[i].to # loc) => Value(mem', loc) = Value(mem, loc)
      /\ \A loc \in DOMAIN mem' \ DOMAIN mem : \E i \in 1 .. Len(items) : items[i].to = loc
      /\ wrong' \subseteq wrong \cup {gen}
      /\ (\A i \in 1 .. Len(items) : \A loc \in Range(items[i].from) :
            Right(mem, loc, gen) \/ \E j \in 1 .. i - 1 : items[j].to = loc) =>
           /\ \A i \in 1 .. Len(items) : Right(mem', items[i].to, gen)
           /\ wrong' = wrong
  BY <1>1, RunAllRight
<1>4. Fed' /\ Ordered'
  <2>1. ASSUME NEW b \in Async, NEW i \in 1 .. Len(queue[b]), NEW loc \in Range(queue[b][i].item.from)
        PROVE  Value(mem', loc) = Value(mem, loc)
    <3>1. ASSUME NEW j \in 1 .. Len(items) PROVE items[j].to # loc
      <4>1. j \in 1 .. Len(plan.items[split]) /\ items[j] = plan.items[split][j]
        BY <1>2
      <4>2. plan.items[split][j].to \notin Range(queue[b][i].item.from)
        BY <1>1, <2>1, <4>1, Unused
      <4> QED BY <2>1, <4>1, <4>2
    <3> QED BY <1>3, <3>1
  <2> QED BY <2>1, FedStays
<1>5. Written'
  <2>1. ASSUME NEW loc \in DOMAIN mem' \ DOMAIN mem PROVE loc.t \notin Range(G.leafs)
    BY <1>2, <1>3 DEF IsResult
  <2> QED BY <2>1, WrittenStays DEF RInv
<1>6. UserWritten'
  <2>1. \A x \in UserTensors(G) : Value(mem, PlaceOf(G, plan, x)) = gen
    BY <1>1 DEF RInv, UserWritten
  <2>2. \A x \in UserTensors(G) : PlaceOf(G, plan, x).t = x
    BY DEF PlaceOf, Original
  <2>3. \A x \in UserTensors(G) : Value(mem', PlaceOf(G, plan, x)) = gen
    BY <1>2, <1>3, <2>1, <2>2 DEF IsResult
  <2> QED BY <2>3, UserWrittenIs
<1>7. \A loc : loc.b # Own => Value(mem', loc) = Value(mem, loc)
  BY <1>2, <1>3 DEF IsResult
<1>8. ASSUME gen \notin excused
      PROVE  (\A i \in 1 .. Len(items) : Right(mem', items[i].to, gen)) /\ wrong' = wrong
  <2>1. ASSUME NEW i \in 1 .. Len(items), NEW loc \in Range(items[i].from)
        PROVE  Right(mem, loc, gen) \/ \E j \in 1 .. i - 1 : items[j].to = loc
    <3>1. loc \in Range(plan.items[split][i].from) /\ i \in 1 .. Len(plan.items[split])
      BY <1>2
    <3>2. \/ \E j \in 1 .. i - 1 : plan.items[split][j].to = loc
          \/ Right(mem, loc, gen)
      <4>1. \/ \E j \in 1 .. i - 1 : plan.items[split][j].to = loc
            \/ B \in Async /\ \E j \in 1 .. Len(queue[B]) :
                                queue[B][j].item.to = loc /\ queue[B][j].gen = gen
            \/ Right(mem, loc, gen) /\ Quiet(loc)
        BY <1>8, <3>1, OperandsReady
      <4>2. B \in Async => 1 .. Len(queue[B]) = {}
        OBVIOUS
      <4> QED BY <4>1, <4>2
    <3>3. \A j \in 1 .. i - 1 : j \in 1 .. Len(items)
      BY <1>1
    <3> QED BY <1>2, <3>2, <3>3
  <2> QED BY <1>3, <2>1
<1>9. wrong' \subseteq excused'
  BY <1>3, <1>8 DEF RInv
<1>10. ASSUME gen \notin excused, NEW j \in 1 .. Len(items)
       PROVE  Settled(B, items[j].to)'
  <2>1. Right(mem', items[j].to, gen)
    BY <1>8, <1>10
  <2>2. ASSUME NEW d \in Async, NEW m \in 1 .. Len(queue[d])
        PROVE  queue[d][m].item.to # items[j].to
    <3>1. j \in 1 .. Len(plan.items[split]) /\ items[j] = plan.items[split][j]
      BY <1>2, <1>10
    <3>2. plan.items[split][j].to # queue[d][m].item.to
      BY <1>1, <2>2, <3>1, Unused
    <3> QED BY <3>1, <3>2
  <2>3. Right(mem, items[j].to, gen)'
    BY <2>1, SameValue DEF Right, Value
  <2> QED BY <2>2, <2>3 DEF Settled, Quiet
<1>11. ASSUME gen \notin excused, NEW k \in 1 .. split - 1, NEW i \in 1 .. Len(plan.items[k])
       PROVE  Settled(plan.splits[k].backend_id, plan.items[k][i].to)'
  <2>1. Settled(plan.splits[k].backend_id, plan.items[k][i].to)
    BY <1>1, <1>11 DEF RInv, Computed, SettledUpTo
  <2>2. Value(mem', plan.items[k][i].to) = Value(mem, plan.items[k][i].to)
    BY <1>1, <1>3, EarlierApart
  <2>3. ASSUME NEW loc, NEW b, Value(mem', loc) = Value(mem, loc), Settled(b, loc)
        PROVE  Settled(b, loc)'
    BY <2>3, SettledStays
  <2> QED BY <2>1, <2>2, <2>3
<1>12. ASSUME gen \notin excused, NEW k \in 1 .. split, NEW i \in 1 .. Len(plan.items[k]),
              k < split \/ i <= Len(items)
       PROVE  Settled(plan.splits[k].backend_id, plan.items[k][i].to)'
  <2>1. CASE k \in 1 .. split - 1
    BY <1>11, <1>12, <2>1
  <2>2. CASE k = split
    <3>1. i \in 1 .. Len(items)
      BY <1>1, <1>12, <2>2, SplitFacts DEF SInv
    <3>2. items[i].to = plan.items[k][i].to /\ B = plan.splits[k].backend_id
      BY <1>2, <2>2, <3>1 DEF Cur
    <3> QED BY <1>10, <1>12, <3>1, <3>2
  <2> QED BY <1>1, <2>1, <2>2, UpToSplit
<1> QED BY <1>4, <1>5, <1>6, <1>7, <1>9, <1>12

\* A split has been launched.
LEMMA SplitEnds ==
  ASSUME SInv, RInv, Ready, UNCHANGED <<fixed, schedVars, phase, built, gen, done>>,
         split' = split + 1, input' = 1, excused \subseteq excused',
         Fed', Ordered', Homes', IdsTyped', Written', UserWritten', wrong' \subseteq excused',
         \A loc : loc.b # Own => Value(mem', loc) = Value(mem, loc),
         gen \notin excused' =>
           \A k \in 1 .. split : \A i \in 1 .. Len(plan.items[k]) :
             Settled(plan.splits[k].backend_id, plan.items[k][i].to)'
  PROVE  RInv'
<1>1. /\ InSplit /\ plan \in GoodPlans /\ split \in 1 .. Len(plan.splits)
      /\ Len(plan.splits) \in Nat /\ phase = "splits" /\ gen \in Nat
  BY AtSplit DEF Ready, InSplit
<1>2. plan' = plan /\ cur_copy' = cur_copy
  BY DEF schedVars
<1>3. Computed'
  <2>1. done' < gen'
    BY <1>1 DEF RInv, Computed
  <2>2. split' - 1 = split
    BY <1>1
  <2>3. gen' \notin excused' => SettledUpTo(split - 1)'
    BY <1>2, <2>2 DEF SettledUpTo
  <2> QED BY <2>1, <2>3 DEF Computed
<1>4. Finished'
  <2>1. done' # gen'
    BY <1>1 DEF RInv, Computed
  <2> QED BY <2>1 DEF RInv, Finished, schedVars
<1>5. InputsCopied'
  <2> SUFFICES ASSUME gen \notin excused', NEW k \in 1 .. Len(plan.splits),
                      NEW i \in 1 .. Len(plan.splits[k].inputs),
                      k < split + 1 \/ (k = split + 1 /\ i < 1),
                      NEW loc, loc = CopyOf(plan.splits[k].inputs[i], plan.splits[k].backend_id, cur_copy)
               PROVE  Right(mem', loc, gen)
    BY <1>2, SameValue DEF InputsCopied
  <2>1. /\ Len(plan.splits[k].inputs) \in Nat /\ Len(plan.splits[split].inputs) \in Nat
        /\ input \in Nat /\ input > Len(plan.splits[split].inputs)
    <3>1. Len(plan.splits[k].inputs) \in Nat /\ Len(plan.splits[split].inputs) \in Nat
      BY <1>1, SplitFacts DEF SInv
    <3>2. input \in Nat
      BY Constants DEF SInv, TypeOK
    <3> QED BY <3>1, <3>2 DEF Ready, Cur
  <2>2. k < split \/ (k = split /\ i < input)
    BY <1>1, <2>1
  <2>3. Right(mem, loc, gen)
    BY <1>1, <2>2 DEF RInv, InputsCopied
  <2>4. loc.b # Own
    <3>1. loc.b = plan.splits[k].backend_id
      BY DEF CopyOf
    <3> QED BY <1>1, <3>1, InputFacts DEF SInv
  <2> QED BY <2>3, <2>4 DEF Right
<1> QED BY <1>3, <1>4, <1>5 DEF RInv

LEMMA LaunchAsyncRight ==
  ASSUME SInv, RInv, LaunchAsync
  PROVE  RInv'
<1> DEFINE B == Cur.backend_id
           items == plan.items[split]
<1>1. /\ Ready /\ InSplit /\ B \in Async /\ Enqueue(B, items)
      /\ split' = split + 1 /\ input' = 1
      /\ UNCHANGED <<fixed, schedVars, phase, async, built, gen, done, mem, wrong, excused>>
  BY DEF LaunchAsync, NextSplit, Ready
<1>2. plan' = plan /\ backend_ids' = backend_ids /\ is_alloc' = is_alloc /\ cur_copy' = cur_copy
  BY <1>1 DEF schedVars
<1>3. PartOf(items)
  BY <1>1, WholeSplit
<1>4. /\ Fed' /\ Ordered' /\ Homes' /\ IdsTyped'
      /\ gen \notin excused =>
           \A k \in 1 .. split : \A i \in 1 .. Len(plan.items[k]) :
             k < split \/ i <= Len(items) =>
               Settled(plan.splits[k].backend_id, plan.items[k][i].to)'
  <2> HIDE DEF B, items
  <2> QED BY <1>1, <1>2, <1>3, EnqueueRight DEF B
<1>5. Written' /\ UserWritten' /\ wrong' \subseteq excused'
  <2>1. UserWritten'
    BY <1>1, <1>2, SameValue DEF RInv, UserWritten, PlaceOf
  <2> QED BY <1>1, <2>1, WrittenStays DEF RInv
<1>6. ASSUME gen \notin excused', NEW k \in 1 .. split, NEW i \in 1 .. Len(plan.items[k])
      PROVE  Settled(plan.splits[k].backend_id, plan.items[k][i].to)'
  <2>1. k < split \/ i <= Len(items)
    <3>1. k \in 1 .. split - 1 \/ k = split
      BY <1>1, UpToSplit
    <3>2. split \in Nat /\ Len(items) \in Nat
      BY <1>1, AtSplit, SplitFacts DEF SInv
    <3> QED BY <3>1, <3>2
  <2> QED BY <1>1, <1>4, <1>6, <2>1
<1> QED BY <1>1, <1>4, <1>5, <1>6, SplitEnds

LEMMA LaunchBlockingRight ==
  ASSUME SInv, RInv, LaunchBlocking
  PROVE  RInv'
<1> DEFINE B == Cur.backend_id
           items == plan.items[split]
<1>1. /\ Ready /\ InSplit /\ B \notin Async /\ RunAll(items)
      /\ split' = split + 1 /\ input' = 1
      /\ UNCHANGED <<fixed, schedVars, phase, async, built, gen, done, queue, event, excused>>
  BY DEF LaunchBlocking, NextSplit, Ready
<1>2. plan' = plan /\ backend_ids' = backend_ids /\ is_alloc' = is_alloc
  BY <1>1 DEF schedVars
<1>3. PartOf(items)
  BY <1>1, WholeSplit
<1>4. /\ Fed' /\ Ordered' /\ Written' /\ UserWritten' /\ wrong' \subseteq excused'
      /\ \A loc : loc.b # Own => Value(mem', loc) = Value(mem, loc)
      /\ gen \notin excused =>
           \A k \in 1 .. split : \A i \in 1 .. Len(plan.items[k]) :
             k < split \/ i <= Len(items) =>
               Settled(plan.splits[k].backend_id, plan.items[k][i].to)'
  <2> HIDE DEF B, items
  <2> QED BY <1>1, <1>2, <1>3, RunsRight DEF B
<1>5. Homes' /\ IdsTyped'
  BY <1>1, <1>2, HomesStay
<1>6. ASSUME gen \notin excused', NEW k \in 1 .. split, NEW i \in 1 .. Len(plan.items[k])
      PROVE  Settled(plan.splits[k].backend_id, plan.items[k][i].to)'
  <2>1. k < split \/ i <= Len(items)
    <3>1. k \in 1 .. split - 1 \/ k = split
      BY <1>1, UpToSplit
    <3>2. split \in Nat /\ Len(items) \in Nat
      BY <1>1, AtSplit, SplitFacts DEF SInv
    <3> QED BY <3>1, <3>2
  <2> QED BY <1>1, <1>4, <1>6, <2>1
<1> QED BY <1>1, <1>4, <1>5, <1>6, SplitEnds

LEMMA PartOfSplit ==
  ASSUME SInv, InSplit, NEW n \in 0 .. Len(plan.items[split])
  PROVE  PartOf(SubSeq(plan.items[split], 1, n)) /\ Len(SubSeq(plan.items[split], 1, n)) = n
<1>1. plan.items[split] \in Seq(Items) /\ Len(plan.items[split]) \in Nat
  BY AtSplit, SplitFacts DEF SInv
<1>2. n <= Len(plan.items[split])
  BY <1>1
<1> QED BY <1>1, <1>2, PrefixIs DEF PartOf

LEMMA LaunchObservedRight ==
  ASSUME SInv, RInv, LaunchObserved
  PROVE  RInv'
<1> DEFINE B == Cur.backend_id
<1>1. PICK last \in 1 .. Len(plan.items[split]) :
         /\ RunAll(SubSeq(plan.items[split], 1, last))
         /\ excused' = IF last < Len(plan.items[split]) THEN excused \cup {gen} ELSE excused
  BY DEF LaunchObserved
<1> DEFINE items == SubSeq(plan.items[split], 1, last)
<1>2. /\ Ready /\ InSplit /\ QueueOf(B) = <<>> /\ queue' = queue
      /\ split' = split + 1 /\ input' = 1
      /\ UNCHANGED <<fixed, schedVars, phase, async, built, gen, done>>
  BY DEF LaunchObserved, NextSplit, Ready
<1>3. plan' = plan /\ backend_ids' = backend_ids /\ is_alloc' = is_alloc /\ excused \subseteq excused'
  BY <1>1, <1>2 DEF schedVars
<1>4. Len(plan.items[split]) \in Nat /\ split \in Nat
  BY <1>2, AtSplit, SplitFacts DEF SInv
<1>5. PartOf(items) /\ Len(items) = last
  BY <1>2, <1>4, PartOfSplit
<1>6. B \notin Async \/ queue[B] = <<>>
  BY <1>2 DEF QueueOf
<1>7. RunAll(items)
  BY <1>1
<1>8. /\ Fed' /\ Ordered' /\ Written' /\ UserWritten' /\ wrong' \subseteq excused'
      /\ \A loc : loc.b # Own => Value(mem', loc) = Value(mem, loc)
      /\ gen \notin excused =>
           \A k \in 1 .. split : \A i \in 1 .. Len(plan.items[k]) :
             k < split \/ i <= Len(items) =>
               Settled(plan.splits[k].backend_id, plan.items[k][i].to)'
  <2> HIDE DEF B, items
  <2> QED BY <1>2, <1>3, <1>5, <1>6, <1>7, RunsRight DEF B
<1>9. Homes' /\ IdsTyped'
  BY <1>2, <1>3, HomesStay
<1>10. ASSUME gen \notin excused', NEW k \in 1 .. split, NEW i \in 1 .. Len(plan.items[k])
       PROVE  Settled(plan.splits[k].backend_id, plan.items[k][i].to)'
  <2>1. gen \notin excused /\ last = Len(plan.items[split])
    BY <1>1, <1>3, <1>4, <1>10
  <2>2. k < split \/ i <= Len(items)
    <3>1. k \in 1 .. split - 1 \/ k = split
      BY <1>2, UpToSplit
    <3>2. k = split => i <= Len(items)
      BY <1>4, <1>5, <2>1
    <3> QED BY <1>4, <3>1, <3>2
  <2> QED BY <1>8, <2>1, <2>2
<1> QED BY <1>2, <1>3, <1>8, <1>9, <1>10, SplitEnds

LEMMA LaunchFailsRight ==
  ASSUME SInv, RInv, LaunchFails
  PROVE  RInv'
<1> DEFINE B == Cur.backend_id
<1>1. /\ Ready /\ InSplit /\ phase' # "splits" /\ excused \subseteq excused'
      /\ UNCHANGED <<fixed, schedVars, split, input, async, built, gen, done, event>>
  BY DEF LaunchFails, Return, Ready
<1>2. PICK begun \in 0 .. Len(plan.items[split]) :
        LET items == SubSeq(plan.items[split], 1, begun)
        IN  \/ B \in Async /\ Enqueue(B, items) /\ UNCHANGED <<mem, wrong>>
            \/ (begun > 0 => QueueOf(B) = <<>>) /\ RunAll(items) /\ queue' = queue
  BY DEF LaunchFails
<1> DEFINE items == SubSeq(plan.items[split], 1, begun)
<1>3. plan' = plan /\ backend_ids' = backend_ids /\ is_alloc' = is_alloc
  BY <1>1 DEF schedVars
<1>4. PartOf(items) /\ Len(items) = begun
  BY <1>1, PartOfSplit
<1>5. CASE B \in Async /\ Enqueue(B, items) /\ UNCHANGED <<mem, wrong>>
  <2>1. Fed' /\ Ordered' /\ Homes' /\ IdsTyped'
    <3> HIDE DEF B, items
    <3> QED BY <1>1, <1>3, <1>4, <1>5, EnqueueRight DEF B
  <2>2. Written' /\ wrong' \subseteq excused'
    BY <1>1, <1>5, WrittenStays DEF RInv
  <2> HIDE DEF B, items
  <2>3. Fed' /\ Ordered' /\ Homes' /\ IdsTyped' /\ Written' /\ wrong' \subseteq excused'
    BY <2>1, <2>2
  <2> QED BY <1>1, <1>3, <2>3, AtSplit DEF RInv, UserWritten, Computed, Finished, InputsCopied, InSplit
<1>6. CASE (begun > 0 => QueueOf(B) = <<>>) /\ RunAll(items) /\ queue' = queue
  <2>1. Fed' /\ Ordered' /\ Written' /\ wrong' \subseteq excused'
    <3>1. CASE begun > 0
      <4>1. B \notin Async \/ queue[B] = <<>>
        BY <1>6, <3>1 DEF QueueOf
      <4> HIDE DEF B, items
      <4> QED BY <1>1, <1>3, <1>4, <1>6, <4>1, RunsRight DEF B
    <3>2. CASE begun = 0
      <4>1. Len(items) = 0 /\ RunAll(items)
        BY <1>4, <1>6, <3>2
      <4> HIDE DEF items
      <4>2. /\ \A loc : Value(mem', loc) = Value(mem, loc)
            /\ DOMAIN mem' \ DOMAIN mem = {} /\ wrong' = wrong
        BY <4>1, RunAllRight
      <4> QED BY <1>1, <1>6, <4>2, FedStays, WrittenStays DEF RInv
    <3> QED BY <3>1, <3>2
  <2>2. Homes' /\ IdsTyped'
    BY <1>1, <1>3, <1>6, HomesStay
  <2> HIDE DEF B, items
  <2>3. Fed' /\ Ordered' /\ Homes' /\ IdsTyped' /\ Written' /\ wrong' \subseteq excused'
    BY <2>1, <2>2
  <2> QED BY <1>1, <1>3, <2>3, AtSplit DEF RInv, UserWritten, Computed, Finished, InputsCopied, InSplit
<1> HIDE DEF B
<1> QED BY <1>2, <1>5, <1>6

LEMMA FinishSplitsRight ==
  ASSUME SInv, RInv, FinishSplits
  PROVE  RInv'
<1>1. /\ phase = "splits" /\ split > Len(plan.splits) /\ done' = gen /\ phase' # "splits"
      /\ UNCHANGED <<fixed, is_reset, is_alloc, hv_ids, hv_copies, plan, backend_ids,
                     split, input, async, built, gen, queue, event, mem, wrong, excused>>
  BY DEF FinishSplits, Return
<1>2. is_alloc /\ built # "fresh"
  BY <1>1 DEF SInv, InSplits, RInv, Finished
<1>3. \A b, loc : Settled(b, loc)' <=> Settled(b, loc)
  BY <1>1, SettledSame
<1>4. ASSUME gen \notin excused PROVE SettledUpTo(Len(plan.splits))'
  <2>1. SettledUpTo(split - 1)
    BY <1>1, <1>4 DEF RInv, Computed
  <2>2. Len(plan.splits) \in Nat /\ split \in Nat
    BY <1>2, PlanTypes, GraphFacts DEF SInv, TablesKnown, TypeOK
  <2>3. \A k \in 1 .. Len(plan.splits) : k \in 1 .. split - 1
    BY <1>1, <2>2
  <2> QED BY <1>1, <1>3, <2>1, <2>3 DEF SettledUpTo
<1>5. Finished'
  BY <1>1, <1>2, <1>4 DEF Finished
<1> QED BY <1>1, <1>5, RestStep

\* A backend computes the head e of its queue.
Executed(b, e) ==
  /\ queue[b] # <<>> /\ e = queue[b][1] /\ IsResult(e.item.to)
  /\ UNCHANGED fixed /\ UNCHANGED <<schedVars, callVars, built, done>>
  /\ gen' = gen /\ excused' = excused
  /\ \A d \in Async \ {b} : queue'[d] = queue[d]
  /\ Len(queue[b]) \in Nat \ {0} /\ Len(queue'[b]) = Len(queue[b]) - 1
  /\ \A i \in 1 .. Len(queue[b]) - 1 : queue'[b][i] = queue[b][i + 1]
  /\ \A loc : loc # e.item.to => Value(mem', loc) = Value(mem, loc)
  /\ DOMAIN mem' = DOMAIN mem \cup {e.item.to}
  /\ wrong' \subseteq wrong \cup {e.gen}
  /\ e.gen \notin excused => Right(mem', e.item.to, e.gen) /\ wrong' = wrong

LEMMA ExecuteEffect ==
  ASSUME SInv, RInv, NEW b \in Async, Execute(b)
  PROVE  Executed(b, Head(queue[b]))
<1>0. PICK e : e = Head(queue[b])
  OBVIOUS
<1> DEFINE s == [mem |-> mem, wrong |-> wrong]
<1>1. /\ queue[b] # <<>> /\ queue' = [queue EXCEPT ![b] = Tail(@)]
      /\ mem' = Run(s, e.item, e.gen).mem /\ wrong' = Run(s, e.item, e.gen).wrong
      /\ UNCHANGED fixed /\ UNCHANGED <<schedVars, callVars, built, done>>
      /\ gen' = gen /\ excused' = excused
  BY <1>0 DEF Execute
<1>2. queue[b] \in Seq(Entries) /\ queue \in [Async -> Seq(Entries)]
  BY QueueFacts DEF SInv, Shapes
<1>3. e = queue[b][1] /\ Len(queue[b]) \in Nat \ {0} /\ 1 \in 1 .. Len(queue[b])
  BY <1>0, <1>1, <1>2
<1>4. IsResult(e.item.to)
  BY <1>3, EntryFacts
<1>5. queue'[b] = Tail(queue[b]) /\ \A d \in Async \ {b} : queue'[d] = queue[d]
  BY <1>1, <1>2
<1>6. Len(queue'[b]) = Len(queue[b]) - 1
      /\ \A i \in 1 .. Len(queue[b]) - 1 : queue'[b][i] = queue[b][i + 1]
  BY <1>1, <1>2, <1>5, HeadTailProperties
<1>7. e.gen \notin excused => \A loc \in Range(e.item.from) : Right(mem, loc, e.gen)
  <2> SUFFICES ASSUME e.gen \notin excused, NEW loc \in Range(e.item.from)
               PROVE  Right(mem, loc, e.gen)
    OBVIOUS
  <2>1. FedBy(b, 1, loc)
    BY <1>3 DEF RInv, Fed
  <2> QED BY <1>0, <1>3, <2>1 DEF FedBy
<1> HIDE DEF s
<1>8. /\ \A loc : loc # e.item.to => Value(mem', loc) = Value(s.mem, loc)
      /\ DOMAIN mem' = DOMAIN s.mem \cup {e.item.to}
      /\ wrong' \subseteq s.wrong \cup {e.gen}
      /\ (\A loc \in Range(e.item.from) : Right(s.mem, loc, e.gen)) =>
           Right(mem', e.item.to, e.gen) /\ wrong' = s.wrong
  BY <1>1, RunRight
<1>9. s.mem = mem /\ s.wrong = wrong
  BY DEF s
<1> QED BY <1>0, <1>1, <1>3, <1>4, <1>5, <1>6, <1>7, <1>8, <1>9 DEF Executed

\* What stays queued is what was behind the head.
LEMMA Remains ==
  ASSUME SInv, RInv, NEW b \in Async, Execute(b), NEW d \in Async, NEW i \in 1 .. Len(queue'[d]),
         NEW n, n = IF d = b THEN i + 1 ELSE i
  PROVE  n \in 1 .. Len(queue[d]) /\ queue'[d][i] = queue[d][n] /\ i \in Nat
<1>0. PICK e : Executed(b, e)
  BY ExecuteEffect
<1>1. /\ \A c \in Async \ {b} : queue'[c] = queue[c]
      /\ Len(queue[b]) \in Nat \ {0} /\ Len(queue'[b]) = Len(queue[b]) - 1
      /\ \A m \in 1 .. Len(queue[b]) - 1 : queue'[b][m] = queue[b][m + 1]
  BY <1>0 DEF Executed
<1>2. Len(queue[d]) \in Nat
  BY QueueFacts DEF SInv
<1>3. CASE d = b
  BY <1>1, <1>3
<1>4. CASE d # b
  BY <1>1, <1>2, <1>4
<1> QED BY <1>3, <1>4

\* Where the head has written: what comes behind it and writes there too is of
\* the same computation.
LEMMA BehindHead ==
  ASSUME SInv, RInv, NEW b \in Async, NEW j \in 1 .. Len(queue[b]), NEW k,
         NEW i \in 1 .. j, queue[b][i].gen = k, queue[b][j].gen <= k
  PROVE  queue[b][j].gen = k
<1>1. queue[b][i].gen <= queue[b][j].gen
  BY DEF RInv, Ordered
<1>2. Len(queue[b]) \in Nat /\ i \in 1 .. Len(queue[b])
  BY QueueFacts DEF SInv
<1>3. queue[b][i].gen \in 1 .. MaxComputes /\ queue[b][j].gen \in 1 .. MaxComputes
  BY <1>2, QueueFacts DEF SInv
<1>4. queue[b][i].gen \in Int /\ queue[b][j].gen \in Int
  BY <1>3
<1> HIDE DEF Entries
<1> QED BY <1>1, <1>4

LEMMA ExecuteFed ==
  ASSUME SInv, RInv, NEW b \in Async, Execute(b)
  PROVE  Fed' /\ Ordered'
<1>0. PICK e : Executed(b, e)
  BY ExecuteEffect
<1>1. /\ e = queue[b][1] /\ excused' = excused /\ UNCHANGED fixed
      /\ Len(queue[b]) \in Nat \ {0}
      /\ \A loc : loc # e.item.to => Value(mem', loc) = Value(mem, loc)
      /\ e.gen \notin excused => Right(mem', e.item.to, e.gen)
  BY <1>0 DEF Executed
<1> DEFINE After(d, i) == IF d = b THEN i + 1 ELSE i
<1>2. ASSUME NEW d \in Async, NEW i \in 1 .. Len(queue'[d])
      PROVE  /\ After(d, i) \in 1 .. Len(queue[d]) /\ queue'[d][i] = queue[d][After(d, i)]
             /\ i \in Nat
  BY Remains
<1>3. ASSUME NEW d \in Async, NEW i \in 1 .. Len(queue'[d]),
             NEW m \in 1 .. After(d, i) - 1, d # b \/ m # 1
      PROVE  \E j \in 1 .. i - 1 : queue'[d][j] = queue[d][m]
  <2>1. i \in Nat /\ i <= Len(queue'[d]) /\ Len(queue'[d]) \in Nat
    <3>1. Len(queue'[d]) \in Nat
      <4>1. SInv'
        BY ExecuteStep
      <4>2. Shapes'
        BY <4>1 DEF SInv
      <4>3. queue'[d] \in Seq(Entries')
        BY <4>2 DEF Shapes
      <4> QED BY <4>3
    <3> QED BY <1>2, <3>1
  <2> DEFINE j == IF d = b THEN m - 1 ELSE m
  <2>2. j \in 1 .. i - 1 /\ After(d, j) = m
    BY <1>3, <2>1
  <2>3. j \in 1 .. Len(queue'[d])
    BY <2>1, <2>2
  <2> QED BY <1>2, <2>2, <2>3
<1>4. Ordered'
  <2> SUFFICES ASSUME NEW d \in Async, NEW j \in 1 .. Len(queue'[d]), NEW i \in 1 .. j
               PROVE  queue'[d][i].gen <= queue'[d][j].gen
    BY DEF Ordered
  <2>1. After(d, j) \in 1 .. Len(queue[d]) /\ j \in Nat
    BY <1>2
  <2>2. i = j \/ i \in 1 .. j - 1
    BY <2>1
  <2>3. i \in 1 .. Len(queue'[d])
    BY <2>1, <2>2
  <2>4. After(d, i) \in 1 .. After(d, j)
    BY <1>2, <2>1, <2>3
  <2>5. queue[d][After(d, i)].gen <= queue[d][After(d, j)].gen
    <3> HIDE DEF After
    <3> QED BY <2>1, <2>4 DEF RInv, Ordered
  <2> HIDE DEF After
  <2> QED BY <1>2, <2>3, <2>5
<1>5. ASSUME NEW d \in Async, NEW i \in 1 .. Len(queue'[d]), queue'[d][i].gen \notin excused,
             NEW loc \in Range(queue'[d][i].item.from), NEW k, k = queue'[d][i].gen
      PROVE  \/ \E j \in 1 .. i - 1 : queue'[d][j].item.to = loc /\ queue'[d][j].gen = k
             \/ Right(mem', loc, k) /\ \A j \in 1 .. i - 1 : queue'[d][j].item.to # loc
  <2> DEFINE n == After(d, i)
  <2>1. n \in 1 .. Len(queue[d]) /\ queue'[d][i] = queue[d][n]
    BY <1>2
  <2>2. \A j \in 1 .. i - 1 : j \in 1 .. Len(queue'[d])
    BY <1>2, ExecuteEffect, QueueFacts DEF SInv
  <2>3. \A j \in 1 .. i - 1 : After(d, j) \in 1 .. n - 1 /\ queue'[d][j] = queue[d][After(d, j)]
    BY <1>2, <2>2
  <2> HIDE DEF n
  <2>4. FedBy(d, n, loc) /\ queue[d][n].gen = k
    BY <1>5, <2>1 DEF RInv, Fed
  <2>5. CASE \E m \in 1 .. n - 1 : (d # b \/ m # 1) /\ queue[d][m].item.to = loc /\ queue[d][m].gen = k
    <3>1. PICK m \in 1 .. n - 1 : /\ d # b \/ m # 1
                                  /\ queue[d][m].item.to = loc /\ queue[d][m].gen = k
      BY <2>5
    <3>2. \E j \in 1 .. i - 1 : queue'[d][j] = queue[d][m]
      BY <1>3, <3>1 DEF n
    <3> QED BY <3>1, <3>2
  <2>6. CASE d = b /\ e.item.to = loc /\ e.gen = k
    <3>1. Right(mem', loc, k)
      BY <1>1, <1>5, <2>6
    <3>2. ASSUME NEW j \in 1 .. i - 1, queue'[d][j].item.to = loc
          PROVE  queue'[d][j].gen = k
      <4>1. After(d, j) \in 1 .. Len(queue[b]) /\ 1 \in 1 .. After(d, j)
            /\ queue'[d][j] = queue[b][After(d, j)] /\ After(d, j) \in 1 .. n
        BY <2>1, <2>3, <2>6
      <4> HIDE DEF After
      <4>2. queue[b][After(d, j)].gen <= k
        BY <2>1, <2>4, <2>6, <4>1 DEF RInv, Ordered
      <4> QED BY <1>1, <2>6, <4>1, <4>2, BehindHead
    <3> QED BY <3>1, <3>2
  <2>7. CASE Right(mem, loc, k) /\ \A m \in 1 .. n - 1 : queue[d][m].item.to # loc
    <3>1. loc # e.item.to
      <4>1. CASE d = b
        <5>1. 1 \in 1 .. n - 1
          BY <1>2, <4>1 DEF n
        <5> QED BY <1>1, <2>7, <4>1, <5>1
      <4>2. CASE d # b
        <5> SUFFICES ASSUME loc = e.item.to PROVE FALSE
          OBVIOUS
        <5>1. 1 \in 1 .. Len(queue[b]) /\ queue[b][1].item.to = loc
          BY <1>1
        <5>2. loc \in Range(queue[d][n].item.from) /\ n \in 1 .. Len(queue[d]) /\ d \in Async
          BY <1>5, <2>1
        <5> HIDE DEF n
        <5>3. queue[b][1].item.to \in {queue[d][n].item.to} \cup Range(queue[d][n].item.from)
          BY <5>1, <5>2
        <5>4. d = b
          BY <1>1, <5>1, <5>2, <5>3, Apart
        <5> QED BY <4>2, <5>4
      <4> QED BY <4>1, <4>2
    <3>2. Right(mem', loc, k)
      BY <1>1, <2>7, <3>1 DEF Right
    <3> QED BY <2>3, <2>7, <3>2
  <2>8. \/ \E m \in 1 .. n - 1 : queue[d][m].item.to = loc /\ queue[d][m].gen = k
        \/ Right(mem, loc, k) /\ \A m \in 1 .. n - 1 : queue[d][m].item.to # loc
    BY <2>4 DEF FedBy
  <2> QED BY <1>1, <2>5, <2>6, <2>7, <2>8
<1>6. Fed'
  BY <1>1, <1>5, SameValue DEF Fed, FedBy
<1> QED BY <1>4, <1>6

LEMMA ExecuteSettled ==
  ASSUME SInv, RInv, NEW b \in Async, Execute(b), gen \notin excused, NEW d, NEW loc, Settled(d, loc)
  PROVE  Settled(d, loc)'
<1>0. PICK e : Executed(b, e)
  BY ExecuteEffect
<1>1. /\ e = queue[b][1] /\ gen' = gen /\ UNCHANGED fixed
      /\ Len(queue[b]) \in Nat \ {0} /\ Len(queue'[b]) = Len(queue[b]) - 1
      /\ \A c \in Async \ {b} : queue'[c] = queue[c]
      /\ \A m \in 1 .. Len(queue[b]) - 1 : queue'[b][m] = queue[b][m + 1]
      /\ \A l : l # e.item.to => Value(mem', l) = Value(mem, l)
      /\ e.gen \notin excused => Right(mem', e.item.to, e.gen)
  BY <1>0 DEF Executed
<1>2. ASSUME NEW c \in Async, NEW m \in 1 .. Len(queue[c]), c # b \/ m # 1
      PROVE  \E j \in 1 .. Len(queue'[c]) : queue'[c][j] = queue[c][m]
  <2>1. CASE c # b
    BY <1>1, <2>1
  <2>2. CASE c = b
    <3>1. m - 1 \in 1 .. Len(queue'[b]) /\ m - 1 \in 1 .. Len(queue[b]) - 1 /\ (m - 1) + 1 = m
      BY <1>1, <1>2, <2>2
    <3> QED BY <1>1, <2>2, <3>1
  <2> QED BY <2>1, <2>2
<1>3. ASSUME NEW c \in Async, NEW j \in 1 .. Len(queue'[c])
      PROVE  \E m \in 1 .. Len(queue[c]) : queue'[c][j] = queue[c][m]
  <2>1. \A n : n = (IF c = b THEN j + 1 ELSE j) =>
          n \in 1 .. Len(queue[c]) /\ queue'[c][j] = queue[c][n]
    BY Remains
  <2> QED BY <2>1
<1> DEFINE Will == d \in Async /\ \E j \in 1 .. Len(queue'[d]) :
                                    queue'[d][j].item.to = loc /\ queue'[d][j].gen = gen
           Calm == \A c \in Async : \A j \in 1 .. Len(queue'[c]) : queue'[c][j].item.to # loc
<1>4. Will \/ (Right(mem', loc, gen) /\ Calm)
  <2>1. CASE d \in Async /\ \E m \in 1 .. Len(queue[d]) : /\ d # b \/ m # 1
                               /\ queue[d][m].item.to = loc /\ queue[d][m].gen = gen
    <3>1. PICK m \in 1 .. Len(queue[d]) : /\ d # b \/ m # 1
                                        /\ queue[d][m].item.to = loc /\ queue[d][m].gen = gen
      BY <2>1
    <3>2. \E j \in 1 .. Len(queue'[d]) : queue'[d][j] = queue[d][m]
      BY <1>2, <2>1, <3>1
    <3> QED BY <2>1, <3>1, <3>2
  <2>2. CASE d = b /\ e.item.to = loc /\ e.gen = gen
    <3>1. Right(mem', loc, gen)
      BY <1>1, <2>2
    <3>2. CASE \E m \in 1 .. Len(queue[b]) : m # 1 /\ queue[b][m].item.to = loc
      <4>1. PICK m \in 1 .. Len(queue[b]) : m # 1 /\ queue[b][m].item.to = loc
        BY <3>2
      <4>2. queue[b][m].gen <= gen
        BY DEF SInv, QueueReads
      <4>3. 1 \in 1 .. m
        BY <4>1
      <4>4. queue[b][m].gen = gen
        BY <1>1, <2>2, <4>2, <4>3, BehindHead
      <4> QED BY <2>1, <2>2, <4>1, <4>4
    <3>3. CASE \A m \in 1 .. Len(queue[b]) : m # 1 => queue[b][m].item.to # loc
      <4>1. ASSUME NEW c \in Async, NEW j \in 1 .. Len(queue'[c]), queue'[c][j].item.to = loc
            PROVE  FALSE
        <5> DEFINE n == IF c = b THEN j + 1 ELSE j
        <5>1. n \in 1 .. Len(queue[c]) /\ queue'[c][j] = queue[c][n] /\ j \in Nat
          BY Remains
        <5>2. c = b => n # 1
          BY <5>1
        <5>3. 1 \in 1 .. Len(queue[b]) /\ queue[b][1].item.to = loc
          BY <1>1, <2>2
        <5> HIDE DEF n
        <5>4. c = b
          BY <4>1, <5>1, <5>3, Apart
        <5> QED BY <3>3, <4>1, <5>1, <5>2, <5>4
      <4> QED BY <3>1, <4>1
    <3> QED BY <3>2, <3>3
  <2>3. CASE Right(mem, loc, gen) /\ Quiet(loc)
    <3>1. loc # e.item.to
      <4>1. 1 \in 1 .. Len(queue[b])
        BY <1>1
      <4> QED BY <1>1, <2>3, <4>1 DEF Quiet
    <3>2. Right(mem', loc, gen)
      BY <1>1, <2>3, <3>1 DEF Right
    <3>3. Calm
      BY <1>3, <2>3 DEF Quiet
    <3> QED BY <3>2, <3>3
  <2> QED BY <1>1, <2>1, <2>2, <2>3 DEF Settled
<1>5. Right(mem, loc, gen)' <=> Right(mem', loc, gen)
  BY <1>1, SameValue DEF Right, Value
<1> QED BY <1>1, <1>4, <1>5 DEF Settled, Quiet

LEMMA ExecuteRight ==
  ASSUME SInv, RInv, NEW b \in Async, Execute(b)
  PROVE  RInv'
<1>1. PICK e : Executed(b, e)
  BY ExecuteEffect
<1>2. /\ UNCHANGED <<fixed, backend_ids>> /\ gen' = gen /\ excused' = excused
      /\ plan' = plan /\ is_alloc' = is_alloc /\ cur_copy' = cur_copy
      /\ phase' = phase /\ split' = split /\ input' = input /\ built' = built /\ done' = done
  BY <1>1 DEF Executed, schedVars, callVars
<1>3. /\ IsResult(e.item.to) /\ DOMAIN mem' = DOMAIN mem \cup {e.item.to}
      /\ \A loc : loc # e.item.to => Value(mem', loc) = Value(mem, loc)
  BY <1>1 DEF Executed
<1>4. Fed' /\ Ordered'
  BY ExecuteFed
<1>5. Written'
  BY <1>2, <1>3, WrittenStays DEF RInv, IsResult
<1>6. UserWritten'
  <2> SUFFICES ASSUME phase = "splits", NEW x \in UserTensors(G)
               PROVE  Value(mem', PlaceOf(G, plan, x)) = gen
    BY <1>2, SameValue DEF UserWritten, Value, PlaceOf
  <2>1. PlaceOf(G, plan, x).t = x
    BY DEF PlaceOf, Original
  <2> QED BY <1>3, <2>1 DEF RInv, UserWritten, IsResult
<1>7. Homes' /\ IdsTyped'
  <2>1. PICK q \in GoodPlans : LaidOut(q) /\ AllLive(q) /\ (is_alloc => q = plan)
    <3>1. ~AllIdle
      BY <1>1 DEF Executed, AllIdle
    <3> QED BY <3>1 DEF RInv, Homes
  <2>2. ASSUME NEW d \in Async, NEW i \in 1 .. Len(queue'[d])
        PROVE  Lives(q, queue'[d][i].item, d)
    <3>1. \A n : n = (IF d = b THEN i + 1 ELSE i) =>
            n \in 1 .. Len(queue[d]) /\ queue'[d][i] = queue[d][n]
      BY Remains
    <3> QED BY <2>1, <3>1 DEF AllLive
  <2>3. AllLive(q)'
    BY <1>2, <2>2, SameValue DEF AllLive, Lives
  <2>4. GoodPlans' = GoodPlans /\ LaidOut(q)' /\ IdsTyped'
    BY <1>2, <2>1, Same DEF LaidOut, RInv, IdsTyped
  <2> QED BY <1>2, <2>1, <2>3, <2>4 DEF Homes
<1>8. ASSUME gen \notin excused, NEW n, SettledUpTo(n),
             NEW k \in 1 .. n, NEW i \in 1 .. Len(plan.items[k])
      PROVE  Settled(plan.splits[k].backend_id, plan.items[k][i].to)'
  <2>1. Settled(plan.splits[k].backend_id, plan.items[k][i].to)
    BY <1>8 DEF SettledUpTo
  <2>2. \A d, loc : Settled(d, loc) => Settled(d, loc)'
    BY <1>8, ExecuteSettled
  <2> QED BY <1>2, <2>1, <2>2
<1>9. Computed'
  <2>1. phase = "splits" /\ gen \notin excused => SettledUpTo(split - 1)'
    BY <1>2, <1>8 DEF RInv, Computed, SettledUpTo
  <2> QED BY <1>2, <2>1 DEF RInv, Computed
<1>10. Finished'
  <2>1. done > 0 /\ done = gen /\ gen \notin excused => is_alloc /\ SettledUpTo(Len(plan.splits))'
    BY <1>2, <1>8 DEF RInv, Finished, SettledUpTo
  <2> QED BY <1>2, <2>1 DEF RInv, Finished
<1>11. InputsCopied'
  <2> SUFFICES ASSUME phase = "splits", gen \notin excused, NEW k \in 1 .. Len(plan.splits),
                      NEW i \in 1 .. Len(plan.splits[k].inputs),
                      k < split \/ (k = split /\ i < input),
                      NEW loc, loc = CopyOf(plan.splits[k].inputs[i], plan.splits[k].backend_id, cur_copy)
               PROVE  Right(mem', loc, gen)
    BY <1>2, SameValue DEF InputsCopied
  <2>1. Right(mem, loc, gen)
    BY DEF RInv, InputsCopied
  <2>2. plan \in GoodPlans
    BY DEF SInv, InSplits, TablesKnown
  <2>3. loc.b # Own
    <3>1. loc.b = plan.splits[k].backend_id
      BY DEF CopyOf
    <3> QED BY <2>2, <3>1, InputFacts DEF SInv
  <2> QED BY <1>3, <2>1, <2>3 DEF Right, IsResult
<1>12. wrong' \subseteq excused'
  <2>1. wrong' \subseteq wrong \cup {e.gen} /\ (e.gen \notin excused => wrong' = wrong)
    BY <1>1 DEF Executed
  <2> QED BY <1>2, <2>1 DEF RInv
<1> QED BY <1>4, <1>5, <1>6, <1>7, <1>9, <1>10, <1>11, <1>12 DEF RInv

LEMMA StutterRight ==
  ASSUME SInv, RInv, UNCHANGED vars
  PROVE  RInv'
<1>1. /\ UNCHANGED <<fixed, queue, mem, gen, excused, wrong, backend_ids>>
      /\ UNCHANGED <<is_alloc, plan, cur_copy, phase, split, input, built, done>>
  BY DEF vars, schedVars, callVars
<1>2. Homes' /\ IdsTyped'
  BY <1>1, HomesStay
<1>3. Fed' /\ Ordered'
  BY <1>1, FedStays
<1>4. Written' /\ Finished'
  BY <1>1, WrittenStays, FinishedSame DEF RInv
<1>5. UserWritten' /\ InputsCopied'
  BY <1>1, SameValue DEF RInv, UserWritten, InputsCopied, PlaceOf
<1>6. \A b, loc : Settled(b, loc)' <=> Settled(b, loc)
  BY <1>1, SettledSame
<1>7. Computed'
  BY <1>1, <1>6 DEF RInv, Computed, SettledUpTo
<1>8. wrong' \subseteq excused'
  BY <1>1 DEF RInv
<1> QED BY <1>2, <1>3, <1>4, <1>5, <1>7, <1>8 DEF RInv

-----------------------------------------------------------------------------
(* Every step keeps the invariant.                                           *)

LEMMA NextRInv == SInv /\ RInv /\ [Next]_vars => RInv'
<1> SUFFICES ASSUME SInv, RInv, [Next]_vars PROVE RInv'
  OBVIOUS
<1>1. CASE NewGraph
  BY <1>1, NewGraphRight
<1>2. CASE Reserve
  BY <1>2, ReserveRight
<1>3. CASE AllocGraph
  BY <1>3, AllocGraphRight
<1>4. CASE Compute
  BY <1>4, ComputeRight
<1>5. CASE ComputeUnallocated
  BY <1>5, ComputeUnallocatedRight
<1>6. ASSUME NEW a \in G.asks, SetTensorBackend(a[1], a[2]) PROVE RInv'
  BY <1>6, SetTensorBackendRight
<1>7. CASE CopyInput
  BY <1>7, CopyInputRight
<1>8. CASE LaunchAsync
  BY <1>8, LaunchAsyncRight
<1>9. CASE LaunchBlocking
  BY <1>9, LaunchBlockingRight
<1>10. CASE LaunchObserved
  BY <1>10, LaunchObservedRight
<1>11. CASE LaunchFails
  BY <1>11, LaunchFailsRight
<1>12. CASE FinishSplits
  BY <1>12, FinishSplitsRight
<1>13. CASE Synchronize
  BY <1>13, SynchronizeRight
<1>14. ASSUME NEW b \in Async, Execute(b) PROVE RInv'
  BY <1>14, ExecuteRight
<1>15. CASE UNCHANGED vars
  BY <1>15, StutterRight
<1> QED
  BY <1>1, <1>2, <1>3, <1>4, <1>5, <1>6, <1>7, <1>8, <1>9, <1>10, <1>11, <1>12, <1>13, <1>14, <1>15
     DEF Next, ComputeSplits

\* When everything is idle and the computation has returned, each node of the
\* graph has been computed by one of the splits.
LEMMA ResultsFollow == SInv /\ RInv => ResultsRight
<1> SUFFICES ASSUME SInv, RInv PROVE ResultsRight
  OBVIOUS
<1>1. wrong \subseteq excused
  BY DEF RInv
<1>2. ASSUME AllIdle, gen > 0, done = gen, gen \notin excused, NEW x \in OpNodes(G)
      PROVE  Value(mem, PlaceOf(G, plan, x)) \in {Weight, gen}
  <2>1. is_alloc /\ SettledUpTo(Len(plan.splits))
    BY <1>2 DEF RInv, Finished
  <2>2. plan \in GoodPlans
    BY <2>1 DEF SInv, TablesKnown
  <2>3. SoundFlow(G, plan)
    BY <2>2, FlowFacts DEF SInv
  <2>4. \E k \in 1 .. Len(plan.splits) : \E i \in 1 .. Len(plan.items[k]) :
          plan.items[k][i].to = PlaceOf(G, plan, x)
    BY <2>3, Zenon DEF SoundFlow
  <2>5. PICK k \in 1 .. Len(plan.splits) : \E i \in 1 .. Len(plan.items[k]) :
          plan.items[k][i].to = PlaceOf(G, plan, x)
    BY <2>4
  <2>6. PICK i \in 1 .. Len(plan.items[k]) : plan.items[k][i].to = PlaceOf(G, plan, x)
    BY <2>5
  <2>7. Settled(plan.splits[k].backend_id, plan.items[k][i].to)
    BY <2>1 DEF SettledUpTo
  <2>8. \A b \in Async : 1 .. Len(queue[b]) = {}
    BY <1>2 DEF AllIdle
  <2>9. Right(mem, plan.items[k][i].to, gen)
    BY <2>7, <2>8 DEF Settled
  <2> QED BY <2>6, <2>9 DEF Right
<1> QED BY <1>1, <1>2 DEF ResultsRight

\* ResultsRight, for any graphs, any number of backends, copies and computations,
\* and any plans that split the graph in an order that respects what its nodes
\* read: whatever the backends with queues have done and not done yet when
\* compute_splits (ggml-backend.cpp:1355) copies, launches and goes on, every
\* node is computed from operands of its own computation, and when the call has
\* returned and the queues are empty, every node has its result.
THEOREM ResultsAreRight == Spec => []ResultsRight
<1>1. Init => RInv
  BY InitRInv
<1>2. SInv /\ RInv /\ [Next]_vars => RInv'
  BY NextRInv
<1>3. SInv /\ RInv => ResultsRight
  BY ResultsFollow
<1> QED BY <1>1, <1>2, <1>3, Invariance, PTL DEF Spec
=============================================================================
