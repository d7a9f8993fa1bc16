----------------------------- MODULE SchedProofs -----------------------------
(* Proofs, checked by TLAPS, about Sched for any graphs, any number of       *)
(* backends, copies and computations, and any plans that satisfy             *)
(* PlanAssumption: the waits, the events and the rotation of compute_splits  *)
(* keep the copies that queued operations are still to read.                 *)
(*                                                                           *)
(* An operation that is queued reads copies.  It is guarded by the event of  *)
(* their turn, or the computation is still in its splits and one of the      *)
(* splits to come will record that event.  Until then no other tensor is     *)
(* copied over what it reads, since a tensor is copied to a backend once.    *)
EXTENDS SplitProofs

\* What the user may have had split for the present graph, and its operations.
GoodPlans ==
  {p \in {PlanTable[graph][ids][n_copies][c] : ids \in Asked(G), c \in Copies} : ~p.abort}
Items   == UNION {UNION {Range(p.items[k]) : k \in 1 .. Len(p.splits)} : p \in GoodPlans}
Entries == [item : Items, gen : 1 .. MaxComputes]

Shapes ==
  /\ queue \in [Async -> Seq(Entries)]
  /\ event \in [Async -> [Copies -> Nat]]

\* The tables are those of an assignment of the user, or of a plan.
TablesKnown ==
  /\ is_reset => hv_ids = Blank /\ hv_copies = {}
  /\ built = "fresh" => hv_ids \in Asked(G)
  /\ is_alloc => plan \in GoodPlans

InSplits ==
  phase = "splits" =>
    /\ is_alloc /\ gen > 0
    /\ gen \notin excused => plan.copy = cur_copy /\ EventsCover(plan)

\* What is queued on a backend is of a computation that has begun and reads
\* originals and copies of this backend.
QueueReads ==
  \A b \in Async : \A i \in 1 .. Len(queue[b]) :
    LET e == queue[b][i]
    IN  /\ e.gen <= gen
        /\ \A loc \in Range(e.item.from) : loc.b # Own => loc.b = b /\ loc.c \in Copies

\* An event is still to be recorded for what computation k reads at loc, which
\* has been copied already.
Pending(b, loc, k) ==
  /\ phase = "splits" /\ k = gen /\ loc.c = cur_copy
  /\ \E later \in split .. Len(plan.splits) :
       plan.splits[later].backend_id = b /\ plan.splits[later].inputs # <<>>
  /\ \E j \in 1 .. split - 1 :
       plan.splits[j].backend_id = b /\ loc.t \in Range(plan.splits[j].inputs)

Guarded ==
  n_copies > 1 =>
    \A b \in Async : \A i \in 1 .. Len(queue[b]) :
      LET e == queue[b][i]
      IN  e.gen \notin excused =>
            \A loc \in Range(e.item.from) :
              loc.b # Own => i <= event[b][loc.c] \/ Pending(b, loc, e.gen)

SInv == TypeOK /\ Shapes /\ TablesKnown /\ InSplits /\ QueueReads /\ Guarded

-----------------------------------------------------------------------------
(* Constants, graphs and plans.                                              *)

LEMMA Constants ==
  /\ Backends \subseteq Nat /\ Own \notin Backends /\ Unassigned = -1
  /\ Async \subseteq Backends /\ MaxCopies \in Nat \ {0} /\ MaxComputes \in Nat
  /\ MaxSplitInputs \in Nat \ {0}
BY SchedAssumption, PlanAssumption DEF Backends, Own, Unassigned

\* What does not change, as long as the user has the same graph.
LEMMA Same ==
  ASSUME UNCHANGED fixed
  PROVE  /\ graph' = graph /\ n_copies' = n_copies /\ callback_eval' = callback_eval
         /\ G' = G /\ Copies' = Copies /\ Blank' = Blank /\ GoodPlans' = GoodPlans
         /\ Items' = Items /\ Entries' = Entries
         /\ \A b : HasEvent(b)' = HasEvent(b)
         /\ \A p : EventsCover(p)' = EventsCover(p)
BY DEF fixed, G, Copies, Blank, GoodPlans, Items, Entries, HasEvent, EventsCover

LEMMA GraphFacts ==
  ASSUME TypeOK
  PROVE  /\ G = Graphs[graph] /\ graph \in DOMAIN Graphs
         /\ SoundGraph(G) /\ G.asks \subseteq Tensors(G) \X Backends /\ Len(G.nodes) \in Nat
         /\ n_copies \in {1, MaxCopies} /\ n_copies \in Nat \ {0}
         /\ Copies = 0 .. n_copies - 1 /\ cur_copy \in Copies
         /\ gen \in Nat /\ gen <= MaxComputes
<1>1. graph \in DOMAIN Graphs /\ G = Graphs[graph] /\ SoundGraph(G)
  BY GraphAssumption DEF TypeOK, G, GraphTable
<1>2. G.asks \subseteq Tensors(G) \X Backends /\ G.nodes \in Seq(Tensors(G))
  BY <1>1, GraphAssumption, Zenon DEF SoundGraph
<1>3. Len(G.nodes) \in Nat
  BY <1>2
<1> QED BY <1>1, <1>2, <1>3, Constants DEF TypeOK, Copies

LEMMA GoodPlan ==
  ASSUME TypeOK, NEW p \in GoodPlans
  PROVE  /\ SoundPlan(G, p, p.copy) /\ p.copy \in Copies
         /\ \E ids \in Asked(G) : IsPlan(G, p, Split(G, ids, n_copies, p.copy))
<1>1. PICK ids \in Asked(G), c \in Copies : p = PlanTable[graph][ids][n_copies][c] /\ ~p.abort
  BY DEF GoodPlans
<1>2. p = Plans[graph][ids][n_copies][c]
  BY <1>1 DEF PlanTable
<1>3. IsPlan(G, p, Split(G, ids, n_copies, c)) /\ c \in Nat
  BY <1>1, <1>2, GraphFacts, PlanAssumption
<1>4. SoundPlan(G, p, c)
  BY <1>1, <1>3, GraphFacts, PlanCopies
<1>5. p.copy = c
  BY <1>4 DEF SoundPlan
<1> QED BY <1>1, <1>3, <1>4, <1>5

LEMMA NewIsGood ==
  ASSUME TypeOK, NEW ids \in Asked(G), ~NewSplit(ids).abort
  PROVE  /\ NewSplit(ids) \in GoodPlans /\ NewSplit(ids).copy = cur_copy
         /\ IsPlan(G, NewSplit(ids), Split(G, ids, n_copies, cur_copy))
<1>1. NewSplit(ids) \in GoodPlans
  BY GraphFacts DEF NewSplit, GoodPlans
<1>2. IsPlan(G, NewSplit(ids), Split(G, ids, n_copies, cur_copy))
  BY GraphFacts, PlanAssumption DEF NewSplit, PlanTable
<1>3. SoundPlan(G, NewSplit(ids), cur_copy)
  BY <1>2, GraphFacts, PlanCopies
<1> QED BY <1>1, <1>2, <1>3 DEF SoundPlan

LEMMA AskedFacts ==
  ASSUME TypeOK
  PROVE  /\ Blank \in Asked(G)
         /\ \A ids \in Asked(G) :
              /\ ids \in [Tensors(G) -> Backends \cup {Unassigned}]
              /\ \A x, b : <<x, b>> \in G.asks => [ids EXCEPT ![x] = b] \in Asked(G)
<1>1. G.asks \subseteq Tensors(G) \X Backends
  BY GraphFacts
<1>2. Asked(G) = {ids \in [Tensors(G) -> Backends \cup {Unassigned}] :
                    \A x \in Tensors(G) : ids[x] # Unassigned => <<x, ids[x]>> \in G.asks}
  BY <1>1, AskedIs
<1>3. Blank \in Asked(G)
  BY <1>2 DEF Blank
<1>4. ASSUME NEW ids \in Asked(G), NEW x, NEW b, <<x, b>> \in G.asks
      PROVE  [ids EXCEPT ![x] = b] \in Asked(G)
  <2>1. x \in Tensors(G) /\ b \in Backends
    BY <1>1, <1>4
  <2> QED BY <1>2, <1>4, <2>1
<1> QED BY <1>2, <1>3, <1>4

-----------------------------------------------------------------------------
(* Memory.                                                                   *)

\* Memory that holds results of computations 1 to n, of weights, or nothing.
Typed(m, n) == \A loc \in DOMAIN m : m[loc] \in -1 .. n

LEMMA ValueTyped ==
  ASSUME NEW m, NEW n \in Nat, Typed(m, n), NEW loc
  PROVE  Value(m, loc) \in -1 .. n
<1>1. CASE loc \in DOMAIN m
  BY <1>1 DEF Value, Typed
<1>2. CASE loc \notin DOMAIN m
  BY <1>2 DEF Value, Weight, Unset
<1> QED BY <1>1, <1>2

LEMMA CombineTyped ==
  ASSUME NEW n \in Nat, NEW S \in SUBSET (-1 .. n)
  PROVE  Combine(S) \in -1 .. n
<1> DEFINE from == S \ {Weight}
<1>1. IsFiniteSet(-1 .. n)
  BY FS_Interval
<1>2. IsFiniteSet(from)
  BY <1>1, FS_Subset
<1>3. CASE from = {}
  <2>1. Cardinality(from) = 0
    BY <1>3, FS_EmptySet
  <2> QED BY <1>3, <2>1 DEF Combine, Weight
<1>4. CASE from # {} /\ Cardinality(from) = 1
  <2>1. (CHOOSE v \in from : TRUE) \in from
    BY <1>4
  <2>2. Combine(S) = CHOOSE v \in from : TRUE
    BY <1>4 DEF Combine
  <2> QED BY <2>1, <2>2
<1>5. CASE from # {} /\ Cardinality(from) # 1
  BY <1>5 DEF Combine, Unset
<1> QED BY <1>3, <1>4, <1>5

LEMMA StoreTyped ==
  ASSUME NEW m, NEW n \in Nat, Typed(m, n), NEW locs, NEW v \in -1 .. n
  PROVE  Typed(Store(m, locs, v), n)
BY DEF Typed, Store

LEMMA StoreElsewhere ==
  ASSUME NEW m, NEW locs, NEW v, NEW loc, loc \notin locs
  PROVE  Value(Store(m, locs, v), loc) = Value(m, loc)
<1>1. CASE loc \in DOMAIN m
  BY <1>1 DEF Value, Store
<1>2. CASE loc \notin DOMAIN m
  <2>1. loc \notin DOMAIN Store(m, locs, v)
    BY <1>2 DEF Store
  <2> QED BY <1>2, <2>1 DEF Value
<1> QED BY <1>1, <1>2

\* One operation stores a result, or nothing, at its place and nowhere else.
LEMMA RunTyped ==
  ASSUME NEW s, NEW n \in Nat, Typed(s.mem, n), s.wrong \subseteq 1 .. n,
         NEW item, NEW k \in 1 .. n
  PROVE  /\ Typed(Run(s, item, k).mem, n) /\ Run(s, item, k).wrong \subseteq 1 .. n
         /\ \A loc : loc # item.to => Value(Run(s, item, k).mem, loc) = Value(s.mem, loc)
<1> DEFINE S == {Value(s.mem, loc) : loc \in Range(item.from)}
           v == Combine(S)
<1>1. S \subseteq -1 .. n
  BY ValueTyped
<1>2. v \in -1 .. n
  BY <1>1, CombineTyped
<1>3. /\ Run(s, item, k).mem = Store(s.mem, {item.to}, v)
      /\ Run(s, item, k).wrong = IF v \in {Weight, k} THEN s.wrong ELSE s.wrong \cup {k}
  BY DEF Run
<1> HIDE DEF v
<1> QED BY <1>2, <1>3, StoreTyped, StoreElsewhere

\* The operations of a list, one after the other. The function by which RunAll
\* is defined exists for every list: if not there would be a shortest one.
LEMMA RunAllRuns ==
  ASSUME NEW items, Len(items) \in Nat, RunAll(items)
  PROVE  \E f : /\ f[0] = [mem |-> mem, wrong |-> wrong]
                /\ \A i \in 1 .. Len(items) : f[i] = Run(f[i - 1], items[i], gen)
                /\ mem' = f[Len(items)].mem /\ wrong' = f[Len(items)].wrong
<1> DEFINE N == Len(items)
           s == [mem |-> mem, wrong |-> wrong]
           Runs(f, n) == /\ DOMAIN f = 0 .. n /\ f[0] = s
                         /\ \A i \in 1 .. n : f[i] = Run(f[i - 1], items[i], gen)
           Bad == {n \in Nat : n <= N /\ \A f : ~Runs(f, n)}
<1>1. Bad = {}
  <2> SUFFICES ASSUME Bad # {} PROVE FALSE
    OBVIOUS
  <2>1. PICK n \in Bad : \A y \in Bad : n <= y
    BY Least
  <2>2. n # 0
    <3> DEFINE f == [i \in 0 .. 0 |-> s]
    <3>1. Runs(f, 0)
      OBVIOUS
    <3> QED BY <3>1
  <2>3. n - 1 \notin Bad /\ n - 1 \in Nat /\ n - 1 <= N
    <3>1. n \in Nat /\ n <= N
      OBVIOUS
    <3> HIDE DEF Bad
    <3> QED BY <2>1, <2>2, <3>1
  <2>4. PICK f : Runs(f, n - 1)
    BY <2>3
  <2> DEFINE g == [i \in 0 .. n |-> IF i = n THEN Run(f[n - 1], items[n], gen) ELSE f[i]]
  <2>5. Runs(g, n)
    <3>1. g[0] = s
      BY <2>2, <2>4
    <3>2. ASSUME NEW i \in 1 .. n PROVE g[i] = Run(g[i - 1], items[i], gen)
      <4>1. g[i - 1] = f[i - 1]
        BY <2>4
      <4>2. CASE i = n
        BY <4>1, <4>2
      <4>3. CASE i # n
        <5>1. i \in 1 .. n - 1
          BY <4>3
        <5> QED BY <2>4, <4>1, <5>1
      <4> QED BY <4>2, <4>3
    <3> QED BY <3>1, <3>2
  <2> QED BY <2>1, <2>5
<1>2. PICK f : Runs(f, N)
  BY <1>1
<1> DEFINE F(h) == [i \in 0 .. N |-> IF i = 0 THEN s ELSE Run(h[i - 1], items[i], gen)]
           after == CHOOSE h : h = F(h)
<1>3. \E h : h = F(h)
  <2> DEFINE h == [i \in 0 .. N |-> f[i]]
  <2>1. ASSUME NEW i \in 0 .. N PROVE h[i] = F(h)[i]
    <3>1. CASE i = 0
      BY <1>2, <3>1
    <3>2. CASE i # 0
      <4>1. i \in 1 .. N /\ i - 1 \in 0 .. N
        BY <3>2
      <4> QED BY <1>2, <4>1
    <3> QED BY <3>1, <3>2
  <2>2. h = F(h)
    BY <2>1
  <2> QED BY <2>2
<1>4. after = F(after)
  BY <1>3
<1>5. mem' = after[N].mem /\ wrong' = after[N].wrong
  BY DEF RunAll
<1>6. after[0] = s /\ \A i \in 1 .. N : after[i] = Run(after[i - 1], items[i], gen)
  <2> HIDE DEF after, s
  <2>1. \A i \in 0 .. N : after[i] = IF i = 0 THEN s ELSE Run(after[i - 1], items[i], gen)
    BY <1>4
  <2> QED BY <2>1
<1> QED BY <1>5, <1>6

\* What RunAll leaves is typed, and copies are as they were.
LEMMA RunAllEffect ==
  ASSUME NEW items, Len(items) \in Nat, RunAll(items),
         \A i \in 1 .. Len(items) : items[i].to.b = Own,
         gen \in Nat \ {0}, Typed(mem, gen), wrong \subseteq 1 .. gen
  PROVE  /\ Typed(mem', gen) /\ wrong' \subseteq 1 .. gen
         /\ \A loc : loc.b # Own => Value(mem', loc) = Value(mem, loc)
<1> DEFINE N == Len(items)
           OK(s) == /\ Typed(s.mem, gen) /\ s.wrong \subseteq 1 .. gen
                    /\ \A loc : loc.b # Own => Value(s.mem, loc) = Value(mem, loc)
<1>1. PICK f : /\ f[0] = [mem |-> mem, wrong |-> wrong]
               /\ \A i \in 1 .. N : f[i] = Run(f[i - 1], items[i], gen)
               /\ mem' = f[N].mem /\ wrong' = f[N].wrong
  BY RunAllRuns
<1> DEFINE Bad == {n \in Nat : n <= N /\ ~OK(f[n])}
<1>2. OK(f[0])
  BY <1>1
<1>3. ASSUME NEW n \in 1 .. N, OK(f[n - 1]) PROVE OK(f[n])
  <2>1. f[n] = Run(f[n - 1], items[n], gen) /\ items[n].to.b = Own
    BY <1>1
  <2>2. gen \in 1 .. gen
    OBVIOUS
  <2>3. /\ Typed(f[n].mem, gen) /\ f[n].wrong \subseteq 1 .. gen
        /\ \A loc : loc # items[n].to => Value(f[n].mem, loc) = Value(f[n - 1].mem, loc)
    <3>1. gen \in Nat /\ Typed(f[n - 1].mem, gen) /\ f[n - 1].wrong \subseteq 1 .. gen
      BY <1>3
    <3> QED BY <2>1, <2>2, <3>1, RunTyped, SMTT(30)
  <2> QED BY <1>3, <2>1, <2>3
<1> HIDE DEF OK
<1>4. Bad = {}
  <2> SUFFICES ASSUME Bad # {} PROVE FALSE
    OBVIOUS
  <2>1. PICK n \in Bad : \A y \in Bad : n <= y
    BY Least
  <2>2. n \in Nat /\ n <= N /\ ~OK(f[n]) /\ n # 0
    BY <1>2
  <2>3. n - 1 \in Nat /\ n - 1 <= N /\ n - 1 \notin Bad
    <3> HIDE DEF Bad
    <3> QED BY <2>1, <2>2
  <2> QED BY <1>3, <2>2, <2>3
<1>5. OK(f[N])
  BY <1>4
<1> QED BY <1>1, <1>5 DEF OK

LEMMA PrefixIs ==
  ASSUME NEW S, NEW s \in Seq(S), NEW n \in 0 .. Len(s)
  PROVE  /\ SubSeq(s, 1, n) \in Seq(S) /\ Len(SubSeq(s, 1, n)) = n
         /\ \A i \in 1 .. n : SubSeq(s, 1, n)[i] = s[i]
OBVIOUS

\* What a backend is given of a split.
LEMMA SplitFacts ==
  ASSUME TypeOK, NEW p \in GoodPlans, NEW k \in 1 .. Len(p.splits)
  PROVE  LET sp == p.splits[k]
         IN  /\ Len(sp.inputs) \in Nat /\ Len(sp.inputs) <= MaxSplitInputs
             /\ DOMAIN sp.inputs = 1 .. Len(sp.inputs)
             /\ p.items[k] \in Seq(Items) /\ Len(p.items[k]) \in Nat
             /\ \A i \in 1 .. Len(p.items[k]) :
                  LET item == p.items[k][i]
                  IN  /\ item.to.b = Own /\ item \in Range(p.items[k])
                      /\ \A loc \in Range(item.from) :
                           loc.b # Own =>
                             /\ loc.b = sp.backend_id /\ loc.c = p.copy
                             /\ \E j \in 1 .. k : /\ p.splits[j].backend_id = loc.b
                                                  /\ loc.t \in Range(p.splits[j].inputs)
             /\ \A j \in 1 .. k - 1 : p.splits[j].backend_id = sp.backend_id =>
                  Range(p.splits[j].inputs) \cap Range(sp.inputs) = {}
<1> DEFINE sp == p.splits[k]
           earlier == {j \in 1 .. k : p.splits[j].backend_id = sp.backend_id}
           copied == UNION {Range(p.splits[j].inputs) : j \in earlier}
<1>1. /\ sp.inputs \in Seq(Range(sp.inputs)) /\ Len(sp.inputs) <= MaxSplitInputs
      /\ p.items[k] \in Seq(Range(p.items[k]))
      /\ \A item \in Range(p.items[k]) :
           /\ item.to.b = Own
           /\ \A loc \in Range(item.from) :
                loc.b # Own => loc.b = sp.backend_id /\ loc.c = p.copy /\ loc.t \in copied
      /\ \A j \in earlier \ {k} : Range(p.splits[j].inputs) \cap Range(sp.inputs) = {}
  <2>1. SoundPlan(G, p, p.copy)
    BY GoodPlan
  <2> QED BY <2>1, Zenon DEF SoundPlan
<1>2. Len(sp.inputs) \in Nat /\ DOMAIN sp.inputs = 1 .. Len(sp.inputs)
  BY <1>1
<1>3. Range(p.items[k]) \subseteq Items
  BY DEF Items
<1>4. p.items[k] \in Seq(Items) /\ Len(p.items[k]) \in Nat
  BY <1>1, <1>3
<1>5. \A i \in 1 .. Len(p.items[k]) : p.items[k][i] \in Range(p.items[k])
  BY <1>1 DEF Range
<1>6. ASSUME NEW t \in copied
      PROVE  \E j \in 1 .. k : p.splits[j].backend_id = sp.backend_id
                               /\ t \in Range(p.splits[j].inputs)
  OBVIOUS
<1>7. \A j \in 1 .. k - 1 : p.splits[j].backend_id = sp.backend_id => j \in earlier \ {k}
  OBVIOUS
<1> HIDE DEF earlier, copied
<1> QED BY <1>1, <1>2, <1>4, <1>5, <1>6, <1>7

-----------------------------------------------------------------------------
(* The initial states, and the steps of the user.                            *)

LEMMA InitSInv == Init => SInv
<1> SUFFICES ASSUME Init PROVE SInv
  OBVIOUS
<1>1. graph \in DOMAIN Graphs /\ G = Graphs[graph] /\ Len(G.nodes) \in Nat
  <2>1. graph \in DOMAIN Graphs /\ G = Graphs[graph]
    BY DEF Init, G, GraphTable
  <2>2. SoundGraph(G)
    BY <2>1, GraphAssumption
  <2> QED BY <2>1, <2>2, GraphIs
<1>2. n_copies \in Nat \ {0} /\ Copies = 0 .. n_copies - 1
  BY Constants DEF Init, Copies
<1>3. TypeOK
  <2>1. hv_ids \in [Tensors(G) -> Backends \cup {Unassigned}]
    BY DEF Init, Blank
  <2>2. \A b \in Async : \A c \in Copies : event[b][c] \in 0 .. Len(queue[b])
    BY DEF Init
  <2>3. DOMAIN mem = {}
    BY DEF Init
  <2>4. cur_copy \in Copies /\ split \in 1 .. Len(G.nodes) + 1 /\ input \in 1 .. MaxSplitInputs + 1
    BY <1>1, <1>2, Constants DEF Init
  <2>5. gen \in 0 .. MaxComputes /\ done \in 0 .. gen /\ wrong \cup excused \subseteq 1 .. gen
    BY Constants DEF Init
  <2>6. {is_reset, is_alloc, async, callback_eval} \subseteq BOOLEAN
    BY DEF Init
  <2> QED BY <2>1, <2>2, <2>3, <2>4, <2>5, <2>6 DEF Init, TypeOK
<1>4. Shapes
  BY <1>2 DEF Init, Shapes
<1>5. TablesKnown
  BY <1>3, AskedFacts DEF Init, TablesKnown
<1>6. InSplits /\ QueueReads /\ Guarded
  BY DEF Init, InSplits, QueueReads, Guarded
<1> QED BY <1>3, <1>4, <1>5, <1>6 DEF SInv

LEMMA QueueFacts ==
  ASSUME Shapes, NEW b \in Async
  PROVE  /\ queue[b] \in Seq(Entries) /\ Len(queue[b]) \in Nat
         /\ DOMAIN queue[b] = 1 .. Len(queue[b])
         /\ \A i \in 1 .. Len(queue[b]) :
              queue[b][i].item \in Items /\ queue[b][i].gen \in 1 .. MaxComputes
         /\ event[b] \in [Copies -> Nat]
<1>1. queue[b] \in Seq(Entries) /\ event[b] \in [Copies -> Nat]
  BY DEF Shapes
<1>2. \A e \in Entries : e.item \in Items /\ e.gen \in 1 .. MaxComputes
  BY DEF Entries
<1> QED BY <1>1, <1>2

\* Outside of compute_splits everything that is queued has its event.
LEMMA QueueStays ==
  ASSUME SInv, UNCHANGED <<fixed, queue, event>>, gen' \in Nat, gen <= gen',
         excused \subseteq excused', phase # "splits"
  PROVE  Shapes' /\ QueueReads' /\ Guarded'
<1>1. /\ n_copies' = n_copies /\ Copies' = Copies /\ Entries' = Entries
      /\ queue' = queue /\ event' = event
  BY Same
<1>2. Shapes'
  BY <1>1 DEF SInv, Shapes
<1>3. QueueReads'
  <2> SUFFICES ASSUME NEW b \in Async, NEW i \in 1 .. Len(queue[b])
               PROVE  /\ queue[b][i].gen <= gen'
                      /\ \A loc \in Range(queue[b][i].item.from) :
                           loc.b # Own => loc.b = b /\ loc.c \in Copies
    BY <1>1 DEF QueueReads
  <2>1. queue[b][i].gen \in Nat
    BY QueueFacts, Constants DEF SInv
  <2> QED BY <2>1, GraphFacts DEF SInv, QueueReads
<1>4. Guarded'
  <2> SUFFICES ASSUME n_copies > 1, NEW b \in Async, NEW i \in 1 .. Len(queue[b]),
                      queue[b][i].gen \notin excused',
                      NEW loc \in Range(queue[b][i].item.from), loc.b # Own
               PROVE  i <= event[b][loc.c]
    BY <1>1 DEF Guarded
  <2> QED BY DEF SInv, Guarded, Pending
<1> QED BY <1>2, <1>3, <1>4

LEMMA PlanTypes ==
  ASSUME TypeOK, NEW p \in GoodPlans
  PROVE  /\ p.ids \in [Tensors(G) -> Backends \cup {Unassigned}]
         /\ p.copies \subseteq Tensors(G) \X Backends
         /\ Len(p.splits) \in Nat /\ Len(p.splits) <= Len(G.nodes)
         /\ DOMAIN p.splits = 1 .. Len(p.splits)
<1>1. SoundPlan(G, p, p.copy)
  BY GoodPlan
<1>2. /\ p.ids \in [Tensors(G) -> Backends \cup {Unassigned}]
      /\ p.copies \subseteq Tensors(G) \X Backends
      /\ p.splits \in Seq(Range(p.splits)) /\ Len(p.splits) <= Len(G.nodes)
  BY <1>1, Zenon DEF SoundPlan
<1> QED BY <1>2

LEMMA AbortStep ==
  ASSUME SInv, phase = "user", Abort
  PROVE  SInv'
<1>1. Shapes' /\ QueueReads' /\ Guarded'
  BY QueueStays, GraphFacts DEF SInv, Abort, schedVars
<1>2. TypeOK' /\ TablesKnown' /\ InSplits'
  <2>1. /\ G' = G /\ Copies' = Copies /\ Blank' = Blank /\ GoodPlans' = GoodPlans
    BY Same DEF Abort
  <2> QED BY <2>1 DEF SInv, Abort, schedVars, fixed, TypeOK, TablesKnown, InSplits
<1> QED BY <1>1, <1>2 DEF SInv

LEMMA NewGraphStep ==
  ASSUME SInv, NewGraph
  PROVE  SInv'
<1>1. Shapes' /\ QueueReads' /\ Guarded'
  BY QueueStays, GraphFacts DEF SInv, NewGraph
<1>2. /\ G' = G /\ Copies' = Copies /\ Blank' = Blank /\ GoodPlans' = GoodPlans
  BY Same DEF NewGraph
<1>3. hv_ids' = Blank /\ hv_copies' = {} /\ is_reset' = TRUE /\ is_alloc' = FALSE
  BY DEF NewGraph, SchedReset, SInv, TablesKnown
<1>4. Blank \in Asked(G) /\ Blank \in [Tensors(G) -> Backends \cup {Unassigned}]
  BY AskedFacts DEF SInv
<1>5. TypeOK'
  <2>1. done' = 0 /\ done' \in 0 .. gen
    BY GraphFacts DEF SInv, NewGraph
  <2>2. hv_ids' \in [Tensors(G) -> Backends \cup {Unassigned}] /\ hv_copies' = {}
        /\ {is_reset', is_alloc', async', callback_eval'} \subseteq BOOLEAN
    BY <1>3, <1>4 DEF SInv, NewGraph, callVars, fixed, TypeOK
  <2> QED BY <1>2, <2>1, <2>2 DEF SInv, NewGraph, callVars, fixed, TypeOK
<1>6. TablesKnown' /\ InSplits'
  BY <1>2, <1>3, <1>4 DEF SInv, NewGraph, callVars, TablesKnown, InSplits
<1> QED BY <1>1, <1>5, <1>6 DEF SInv

LEMMA SetTensorBackendStep ==
  ASSUME SInv, NEW a \in G.asks, SetTensorBackend(a[1], a[2])
  PROVE  SInv'
<1>1. Shapes' /\ QueueReads' /\ Guarded'
  BY QueueStays, GraphFacts DEF SInv, SetTensorBackend
<1>2. /\ G' = G /\ Copies' = Copies /\ Blank' = Blank /\ GoodPlans' = GoodPlans
  BY Same DEF SetTensorBackend
<1>3. hv_ids' \in Asked(G) /\ hv_ids' \in [Tensors(G) -> Backends \cup {Unassigned}]
  BY AskedFacts DEF SInv, SetTensorBackend, TablesKnown
<1>4. TypeOK'
  BY <1>2, <1>3 DEF SInv, SetTensorBackend, callVars, fixed, TypeOK
<1>5. TablesKnown' /\ InSplits'
  BY <1>2, <1>3 DEF SInv, SetTensorBackend, callVars, TablesKnown, InSplits
<1> QED BY <1>1, <1>4, <1>5 DEF SInv

\* Memory after the allocator has moved, or not.
LEMMA ForgetTyped ==
  ASSUME NEW m, NEW n, Typed(m, n)
  PROVE  Typed(Forget(m), n)
BY DEF Typed, Forget

LEMMA ReserveStep ==
  ASSUME SInv, Reserve
  PROVE  SInv'
<1> DEFINE p == NewSplit(hv_ids)
<1>1. hv_ids \in Asked(G) /\ phase = "user"
  BY DEF SInv, Reserve, TablesKnown
<1>2. CASE Abort
  BY <1>1, <1>2, AbortStep
<1>3. CASE ~Abort
  <2>1. /\ ~p.abort
        /\ \/ is_reset' = TRUE /\ hv_ids' = Blank /\ hv_copies' = {}
           \/ is_reset' = FALSE /\ hv_ids' = p.ids /\ hv_copies' = p.copies
        /\ is_alloc' = FALSE /\ built' = "used" /\ mem' = Forget(mem)
        /\ UNCHANGED <<fixed, callVars, cur_copy, gen, done, queue, event, wrong, excused>>
    BY <1>3 DEF Reserve
  <2>2. p \in GoodPlans
    BY <1>1, <2>1, NewIsGood DEF SInv
  <2> HIDE DEF p
  <2>3. Shapes' /\ QueueReads' /\ Guarded'
    BY <1>1, <2>1, QueueStays, GraphFacts DEF SInv
  <2>4. /\ G' = G /\ Copies' = Copies /\ Blank' = Blank /\ GoodPlans' = GoodPlans
    BY <2>1, Same
  <2>5. Blank \in [Tensors(G) -> Backends \cup {Unassigned}]
    BY AskedFacts DEF SInv
  <2>6. /\ hv_ids' \in [Tensors(G) -> Backends \cup {Unassigned}]
        /\ hv_copies' \subseteq Tensors(G) \X Backends /\ is_reset' \in BOOLEAN
    BY <2>1, <2>2, <2>5, PlanTypes DEF SInv
  <2>7. Typed(mem', gen)
    BY <2>1, ForgetTyped DEF SInv, TypeOK, Typed
  <2>8. TypeOK'
    BY <2>1, <2>4, <2>6, <2>7 DEF SInv, callVars, fixed, TypeOK, Typed
  <2>9. TablesKnown' /\ InSplits'
    BY <1>1, <2>1, <2>4 DEF SInv, callVars, TablesKnown, InSplits
  <2> QED BY <2>3, <2>8, <2>9 DEF SInv
<1> QED BY <1>2, <1>3

LEMMA AllocEffect ==
  ASSUME NEW p, NEW m, NEW n, Typed(m, n), SplitGraph(p), AllocSplits(p, m)
  PROVE  /\ is_reset' = FALSE /\ hv_ids' = p.ids /\ hv_copies' = p.copies /\ plan' = p
         /\ is_alloc' \in BOOLEAN /\ Typed(mem', n)
BY ForgetTyped DEF SplitGraph, AllocSplits

\* The tables hold what a plan says.
LEMMA TakePlan ==
  ASSUME SInv, NEW p \in GoodPlans, UNCHANGED fixed,
         is_reset' = FALSE, hv_ids' = p.ids, hv_copies' = p.copies, plan' = p,
         is_alloc' \in BOOLEAN, built' = "used"
  PROVE  /\ TablesKnown' /\ G' = G /\ Copies' = Copies
         /\ hv_ids' \in [Tensors(G) -> Backends \cup {Unassigned}]
         /\ hv_copies' \subseteq Tensors(G) \X Backends
         /\ {is_reset', is_alloc'} \subseteq BOOLEAN
<1>1. G' = G /\ Copies' = Copies /\ GoodPlans' = GoodPlans
  BY Same
<1>2. TablesKnown'
  BY <1>1 DEF TablesKnown
<1> QED BY <1>1, <1>2, PlanTypes DEF SInv

LEMMA AllocGraphStep ==
  ASSUME SInv, AllocGraph
  PROVE  SInv'
<1> DEFINE p == NewSplit(hv_ids)
<1>1. hv_ids \in Asked(G) /\ phase = "user"
  BY DEF SInv, AllocGraph, TablesKnown
<1>2. CASE Abort
  BY <1>1, <1>2, AbortStep
<1>3. CASE ~Abort
  <2>1. /\ ~p.abort /\ SplitGraph(p) /\ AllocSplits(p, mem) /\ built' = "used"
        /\ UNCHANGED <<fixed, callVars, cur_copy, gen, done, queue, event, wrong, excused>>
    BY <1>3 DEF AllocGraph
  <2>2. p \in GoodPlans
    BY <1>1, <2>1, NewIsGood DEF SInv
  <2> HIDE DEF p
  <2>3. Shapes' /\ QueueReads' /\ Guarded'
    BY <1>1, <2>1, QueueStays, GraphFacts DEF SInv
  <2>4. /\ is_reset' = FALSE /\ hv_ids' = p.ids /\ hv_copies' = p.copies /\ plan' = p
        /\ is_alloc' \in BOOLEAN /\ Typed(mem', gen)
    <3>1. Typed(mem, gen)
      BY DEF SInv, TypeOK, Typed
    <3> QED BY <2>1, <3>1, AllocEffect
  <2>5. /\ TablesKnown' /\ G' = G /\ Copies' = Copies
        /\ hv_ids' \in [Tensors(G) -> Backends \cup {Unassigned}]
        /\ hv_copies' \subseteq Tensors(G) \X Backends
        /\ {is_reset', is_alloc'} \subseteq BOOLEAN
    BY <2>1, <2>2, <2>4, TakePlan
  <2>6. TypeOK'
    BY <2>1, <2>4, <2>5 DEF SInv, callVars, fixed, TypeOK, Typed
  <2>7. InSplits'
    BY <1>1, <2>1 DEF callVars, InSplits
  <2> QED BY <2>3, <2>5, <2>6, <2>7 DEF SInv
<1> QED BY <1>2, <1>3

\* A computation begins.
LEMMA BeginEffect ==
  ASSUME SInv, NEW p, Begin(p), p = plan', UNCHANGED fixed, cur_copy' = cur_copy,
         gen < MaxComputes, is_alloc'
  PROVE  /\ InSplits' /\ gen' \in Nat /\ gen' = gen + 1 /\ gen' <= MaxComputes
         /\ excused \subseteq excused' /\ excused' \subseteq excused \cup {gen'}
         /\ phase' = "splits" /\ split' = 1 /\ input' = 1
<1>1. /\ gen' = gen + 1 /\ phase' = "splits" /\ split' = 1 /\ input' = 1
      /\ excused' = IF p.copy = cur_copy /\ EventsCover(p) THEN excused ELSE excused \cup {gen'}
  BY DEF Begin
<1>2. gen \in Nat /\ gen' \in Nat /\ gen' > 0 /\ gen' <= MaxComputes
  BY <1>1, GraphFacts, Constants DEF SInv
<1>3. gen' \notin excused' => p.copy = cur_copy /\ EventsCover(p)
  BY <1>1
<1>4. EventsCover(p) => EventsCover(plan)'
  BY Same DEF EventsCover, HasEvent
<1>5. InSplits'
  BY <1>1, <1>2, <1>3, <1>4 DEF InSplits
<1> QED BY <1>1, <1>2, <1>5

LEMMA WriteTyped ==
  ASSUME NEW m, NEW p, NEW n \in Nat, Typed(m, n)
  PROVE  Typed(WriteInputs(m, p, n + 1), n + 1)
<1>1. Typed(m, n + 1) /\ n + 1 \in Nat /\ n + 1 \in -1 .. n + 1
  BY DEF Typed
<1> QED BY <1>1, StoreTyped DEF WriteInputs

LEMMA ComputeStep ==
  ASSUME SInv, Compute
  PROVE  SInv'
<1>1. /\ phase = "user" /\ is_alloc /\ gen < MaxComputes /\ Begin(plan)
      /\ async' \in BOOLEAN /\ mem' = WriteInputs(mem, plan, gen')
      /\ UNCHANGED <<fixed, schedVars, built, done, queue, event, wrong>>
  BY DEF Compute
<1>2. /\ InSplits' /\ gen' \in Nat /\ gen' = gen + 1 /\ gen' <= MaxComputes
      /\ excused \subseteq excused' /\ excused' \subseteq excused \cup {gen'}
      /\ phase' = "splits" /\ split' = 1 /\ input' = 1
  BY <1>1, BeginEffect DEF schedVars
<1>3. gen \in Nat
  BY GraphFacts DEF SInv
<1>4. Shapes' /\ QueueReads' /\ Guarded'
  BY <1>1, <1>2, <1>3, QueueStays
<1>5. Typed(mem', gen')
  <2>1. Typed(mem, gen)
    BY DEF SInv, TypeOK, Typed
  <2> QED BY <1>1, <1>2, <1>3, <2>1, WriteTyped
<1>6. /\ G' = G /\ Copies' = Copies /\ Blank' = Blank /\ GoodPlans' = GoodPlans
  BY <1>1, Same
<1>7. /\ split' \in 1 .. Len(G.nodes) + 1 /\ input' \in 1 .. MaxSplitInputs + 1
      /\ gen' \in 0 .. MaxComputes /\ done' \in 0 .. gen' /\ wrong' \cup excused' \subseteq 1 .. gen'
  <2>1. done \in 0 .. gen /\ wrong \cup excused \subseteq 1 .. gen
    BY DEF SInv, TypeOK
  <2> QED BY <1>1, <1>2, <1>3, <2>1, GraphFacts, Constants DEF SInv
<1>8. TypeOK'
  BY <1>1, <1>2, <1>5, <1>6, <1>7 DEF SInv, schedVars, fixed, TypeOK, Typed
<1>9. TablesKnown'
  BY <1>1, <1>6 DEF SInv, schedVars, TablesKnown
<1> QED BY <1>2, <1>4, <1>8, <1>9 DEF SInv

LEMMA ComputeUnallocatedStep ==
  ASSUME SInv, ComputeUnallocated
  PROVE  SInv'
<1> DEFINE ids == IF is_reset THEN hv_ids ELSE Blank
           p == NewSplit(ids)
<1>1. ids \in Asked(G) /\ phase = "user" /\ gen < MaxComputes
  BY AskedFacts DEF SInv, ComputeUnallocated, TablesKnown
<1>2. CASE Abort
  BY <1>1, <1>2, AbortStep
<1>3. CASE ~Abort
  <2>1. /\ ~p.abort /\ SplitGraph(p) /\ AllocSplits(p, WriteInputs(mem, p, gen + 1))
        /\ built' = "used" /\ async' \in BOOLEAN
        /\ \/ is_alloc' /\ Begin(p)
           \/ ~is_alloc' /\ gen' = gen + 1 /\ UNCHANGED <<phase, split, input, excused>>
        /\ UNCHANGED <<fixed, cur_copy, done, queue, event, wrong>>
    BY <1>3 DEF ComputeUnallocated
  <2>2. p \in GoodPlans
    BY <1>1, <2>1, NewIsGood DEF SInv
  <2> HIDE DEF p
  <2>3. gen \in Nat
    BY GraphFacts DEF SInv
  <2>4. /\ is_reset' = FALSE /\ hv_ids' = p.ids /\ hv_copies' = p.copies /\ plan' = p
        /\ is_alloc' \in BOOLEAN /\ Typed(mem', gen + 1)
    <3>1. Typed(mem, gen)
      BY DEF SInv, TypeOK, Typed
    <3>2. Typed(WriteInputs(mem, p, gen + 1), gen + 1)
      BY <2>3, <3>1, WriteTyped
    <3> QED BY <2>1, <3>2, AllocEffect
  <2>5. /\ TablesKnown' /\ G' = G /\ Copies' = Copies
        /\ hv_ids' \in [Tensors(G) -> Backends \cup {Unassigned}]
        /\ hv_copies' \subseteq Tensors(G) \X Backends
        /\ {is_reset', is_alloc'} \subseteq BOOLEAN
    BY <2>1, <2>2, <2>4, TakePlan
  <2>6. /\ InSplits' /\ gen' \in Nat /\ gen' = gen + 1 /\ gen' <= MaxComputes
        /\ excused \subseteq excused' /\ excused' \subseteq excused \cup {gen'}
        /\ phase' \in {"user", "splits"}
        /\ split' \in {1, split} /\ input' \in {1, input}
    <3>1. CASE is_alloc' /\ Begin(p)
      BY <1>1, <2>1, <2>4, <3>1, BeginEffect
    <3>2. CASE ~is_alloc' /\ gen' = gen + 1 /\ UNCHANGED <<phase, split, input, excused>>
      BY <1>1, <2>3, <3>2, Constants DEF InSplits
    <3> QED BY <2>1, <3>1, <3>2
  <2>7. Shapes' /\ QueueReads' /\ Guarded'
    BY <1>1, <2>1, <2>3, <2>6, QueueStays
  <2>8. /\ split' \in 1 .. Len(G.nodes) + 1 /\ input' \in 1 .. MaxSplitInputs + 1
        /\ gen' \in 0 .. MaxComputes /\ done' \in 0 .. gen'
        /\ wrong' \cup excused' \subseteq 1 .. gen'
    <3>1. /\ done \in 0 .. gen /\ wrong \cup excused \subseteq 1 .. gen
          /\ split \in 1 .. Len(G.nodes) + 1 /\ input \in 1 .. MaxSplitInputs + 1
      BY DEF SInv, TypeOK
    <3> QED BY <2>1, <2>3, <2>6, <3>1, GraphFacts, Constants DEF SInv
  <2>9. TypeOK'
    BY <2>1, <2>4, <2>5, <2>6, <2>8 DEF SInv, fixed, TypeOK, Typed
  <2> QED BY <2>5, <2>6, <2>7, <2>9 DEF SInv
<1> QED BY <1>2, <1>3

-----------------------------------------------------------------------------
(* The steps of compute_splits.                                              *)

\* The split that compute_splits is at.
LEMMA AtSplit ==
  ASSUME SInv, InSplit
  PROVE  /\ plan \in GoodPlans /\ is_alloc /\ gen \in Nat \ {0} /\ gen <= MaxComputes
         /\ split \in 1 .. Len(plan.splits) /\ Len(plan.splits) \in Nat
         /\ Len(plan.splits) <= Len(G.nodes) /\ plan.copy \in Copies
         /\ DOMAIN plan.splits = 1 .. Len(plan.splits)
         /\ gen \notin excused => plan.copy = cur_copy /\ EventsCover(plan)
<1>1. /\ plan \in GoodPlans /\ is_alloc /\ gen > 0 /\ phase = "splits"
      /\ gen \notin excused => plan.copy = cur_copy /\ EventsCover(plan)
  BY DEF SInv, InSplit, InSplits, TablesKnown
<1>2. split \in Nat \ {0}
  BY GraphFacts DEF SInv, TypeOK
<1>3. split <= Len(plan.splits)
  BY DEF InSplit
<1>4. /\ Len(plan.splits) \in Nat /\ Len(plan.splits) <= Len(G.nodes) /\ plan.copy \in Copies
      /\ DOMAIN plan.splits = 1 .. Len(plan.splits)
  BY <1>1, PlanTypes, GoodPlan DEF SInv
<1>5. gen \in Nat \ {0} /\ gen <= MaxComputes
  BY <1>1, GraphFacts DEF SInv
<1> QED BY <1>1, <1>2, <1>3, <1>4, <1>5

LEMMA CopyInputStep ==
  ASSUME SInv, CopyInput
  PROVE  SInv'
<1>1. /\ InSplit /\ input <= Len(Cur.inputs) /\ input' = input + 1
      /\ \E loc, x : mem' = Store(mem, {loc}, Value(mem, x))
      /\ UNCHANGED <<fixed, schedVars, phase, split, async, built, gen, done, queue, event, wrong, excused>>
  BY DEF CopyInput
<1>2. /\ split \in 1 .. Len(plan.splits) /\ plan \in GoodPlans /\ gen \in Nat
  BY <1>1, AtSplit
<1>3. Len(Cur.inputs) \in Nat /\ Len(Cur.inputs) <= MaxSplitInputs
  BY <1>2, SplitFacts DEF SInv, Cur
<1>4. Typed(mem', gen)
  <2>1. Typed(mem, gen)
    BY DEF SInv, TypeOK, Typed
  <2> QED BY <1>1, <1>2, <2>1, ValueTyped, StoreTyped
<1>5. /\ G' = G /\ Copies' = Copies /\ Blank' = Blank /\ GoodPlans' = GoodPlans
      /\ Entries' = Entries /\ EventsCover(plan)' = EventsCover(plan)
  BY <1>1, Same DEF EventsCover, HasEvent, schedVars
<1>6. input' \in 1 .. MaxSplitInputs + 1
  BY <1>1, <1>3, Constants DEF SInv, TypeOK
<1>7. TypeOK'
  BY <1>1, <1>4, <1>5, <1>6 DEF SInv, schedVars, fixed, TypeOK, Typed
<1>8. Shapes' /\ TablesKnown' /\ InSplits'
  BY <1>1, <1>5 DEF SInv, schedVars, Shapes, TablesKnown, InSplits
<1>9. QueueReads' /\ Guarded'
  BY <1>1, <1>5 DEF SInv, schedVars, fixed, QueueReads, Guarded, Pending
<1> QED BY <1>7, <1>8, <1>9 DEF SInv

LEMMA EnqueueEffect ==
  ASSUME SInv, NEW b \in Async, NEW items \in Seq(Items), gen \in 1 .. MaxComputes,
         Enqueue(b, items)
  PROVE  /\ queue' \in [Async -> Seq(Entries)]
         /\ Len(queue'[b]) = Len(queue[b]) + Len(items) /\ Len(items) \in Nat
         /\ \A i \in 1 .. Len(queue[b]) : queue'[b][i] = queue[b][i]
         /\ \A i \in 1 .. Len(items) :
              queue'[b][Len(queue[b]) + i] = [item |-> items[i], gen |-> gen]
         /\ \A d \in Async \ {b} : queue'[d] = queue[d]
<1> DEFINE new == [i \in DOMAIN items |-> [item |-> items[i], gen |-> gen]]
<1>1. queue \in [Async -> Seq(Entries)] /\ queue' = [queue EXCEPT ![b] = @ \o new]
  BY DEF SInv, Shapes, Enqueue
<1>2. new \in Seq(Entries) /\ Len(new) = Len(items)
      /\ \A i \in 1 .. Len(items) : new[i] = [item |-> items[i], gen |-> gen]
  <2>1. DOMAIN items = 1 .. Len(items) /\ Len(items) \in Nat
        /\ \A i \in 1 .. Len(items) : items[i] \in Items
    OBVIOUS
  <2>2. \A i \in 1 .. Len(items) : [item |-> items[i], gen |-> gen] \in Entries
    BY <2>1 DEF Entries
  <2> QED BY <2>1, <2>2
<1> HIDE DEF new
<1>3. queue[b] \in Seq(Entries) /\ Len(items) \in Nat
  BY <1>1
<1>4. queue[b] \o new \in Seq(Entries)
  BY <1>2, <1>3
<1>5. Len(queue[b] \o new) = Len(queue[b]) + Len(items)
  BY <1>2, <1>3, SMTT(30)
<1>6. \A i \in 1 .. Len(queue[b]) : (queue[b] \o new)[i] = queue[b][i]
  BY <1>2, <1>3
<1>7. ASSUME NEW i \in 1 .. Len(items)
      PROVE  (queue[b] \o new)[Len(queue[b]) + i] = [item |-> items[i], gen |-> gen]
  <2>1. (queue[b] \o new)[Len(queue[b]) + i] = new[i]
    BY <1>2, <1>3
  <2> QED BY <1>2, <2>1
<1>8. queue'[b] = queue[b] \o new /\ \A d \in Async \ {b} : queue'[d] = queue[d]
  BY <1>1
<1>9. queue' \in [Async -> Seq(Entries)]
  BY <1>1, <1>4
<1> QED BY <1>3, <1>5, <1>6, <1>7, <1>8, <1>9

\* Every entry of queue b after a launch was there, or is an operation of the split.
LEMMA Launched ==
  ASSUME SInv, NEW b \in Async, NEW items \in Seq(Items), gen \in 1 .. MaxComputes,
         Enqueue(b, items), NEW i \in 1 .. Len(queue'[b])
  PROVE  \/ i \in 1 .. Len(queue[b]) /\ queue'[b][i] = queue[b][i]
         \/ /\ i > Len(queue[b])
            /\ \E j \in 1 .. Len(items) : queue'[b][i] = [item |-> items[j], gen |-> gen]
<1>1. Len(queue[b]) \in Nat
  BY QueueFacts DEF SInv
<1>2. /\ Len(queue'[b]) = Len(queue[b]) + Len(items) /\ Len(items) \in Nat
      /\ \A k \in 1 .. Len(queue[b]) : queue'[b][k] = queue[b][k]
      /\ \A j \in 1 .. Len(items) :
           queue'[b][Len(queue[b]) + j] = [item |-> items[j], gen |-> gen]
  BY EnqueueEffect
<1>3. i \in Nat \ {0} /\ i <= Len(queue[b]) + Len(items)
  BY <1>1, <1>2
<1>4. CASE i <= Len(queue[b])
  <2>1. i \in 1 .. Len(queue[b])
    BY <1>1, <1>3, <1>4
  <2> QED BY <1>2, <2>1
<1>5. CASE i > Len(queue[b])
  <2>1. i - Len(queue[b]) \in 1 .. Len(items) /\ Len(queue[b]) + (i - Len(queue[b])) = i
    BY <1>1, <1>2, <1>3, <1>5
  <2>2. queue'[b][Len(queue[b]) + (i - Len(queue[b]))]
          = [item |-> items[i - Len(queue[b])], gen |-> gen]
    BY <1>2, <2>1
  <2> QED BY <1>5, <2>1, <2>2
<1> QED BY <1>1, <1>3, <1>4, <1>5

\* Going on to the next split keeps the guard of what was queued before.
LEMMA GuardStays ==
  ASSUME SInv, InSplit, n_copies > 1, split' = split + 1, RecordEvent(Cur.backend_id),
         UNCHANGED <<plan, cur_copy, phase, gen>>,
         NEW b \in Async, Len(queue'[b]) \in Nat, Len(queue[b]) <= Len(queue'[b]),
         NEW i \in 1 .. Len(queue[b]), NEW loc, loc.c \in Copies, NEW k,
         i <= event[b][loc.c] \/ Pending(b, loc, k)
  PROVE  i <= event'[b][loc.c] \/ Pending(b, loc, k)'
<1> DEFINE B == Cur.backend_id
<1>1. event' = IF Cur.inputs # <<>> /\ HasEvent(B)
                 THEN [event EXCEPT ![B][cur_copy] = Len(queue'[B])] ELSE event
  BY DEF RecordEvent
<1>2. /\ event \in [Async -> [Copies -> Nat]] /\ cur_copy \in Copies
      /\ Len(queue[b]) \in Nat /\ Cur = plan.splits[split]
      /\ split \in 1 .. Len(plan.splits) /\ Len(plan.splits) \in Nat
  BY AtSplit, QueueFacts, GraphFacts DEF SInv, Shapes, Cur
<1>3. CASE b = B /\ Cur.inputs # <<>> /\ loc.c = cur_copy
  <2>1. HasEvent(B)
    BY <1>3 DEF HasEvent
  <2>2. event'[b][loc.c] = Len(queue'[b])
    BY <1>1, <1>2, <1>3, <2>1
  <2> QED BY <1>2, <2>2
<1>4. CASE ~(b = B /\ Cur.inputs # <<>> /\ loc.c = cur_copy)
  <2>1. event'[b][loc.c] = event[b][loc.c]
    BY <1>1, <1>2, <1>4
  <2>2. Pending(b, loc, k) => Pending(b, loc, k)'
    <3> SUFFICES ASSUME Pending(b, loc, k) PROVE Pending(b, loc, k)'
      OBVIOUS
    <3>1. PICK later \in split .. Len(plan.splits) :
             plan.splits[later].backend_id = b /\ plan.splits[later].inputs # <<>>
      BY DEF Pending
    <3>2. later # split
      BY <1>2, <1>4, <3>1 DEF Pending
    <3>3. later \in split' .. Len(plan.splits) /\ 1 .. split - 1 \subseteq 1 .. split' - 1
      BY <1>2, <3>1, <3>2
    <3> QED BY <3>1, <3>3 DEF Pending
  <2> QED BY <2>1, <2>2
<1> QED BY <1>3, <1>4

\* The types after a launch, or one that failed.
LEMMA LaunchTypes ==
  ASSUME SInv, InSplit, UNCHANGED <<fixed, schedVars, async, built, gen, done>>,
         split' \in {split, split + 1}, input' \in {input, 1},
         phase' \in {"splits", "user", "synchronize"},
         Typed(mem', gen), wrong' \subseteq 1 .. gen,
         excused \subseteq excused', excused' \subseteq excused \cup {gen},
         queue' \in [Async -> Seq(Entries)], event' \in [Async -> [Copies -> Nat]],
         \A b \in Async : \A c \in Copies : event'[b][c] <= Len(queue'[b])
  PROVE  TypeOK' /\ Shapes' /\ TablesKnown' /\ InSplits'
<1>1. /\ G' = G /\ Copies' = Copies /\ Blank' = Blank /\ GoodPlans' = GoodPlans
      /\ Entries' = Entries /\ EventsCover(plan)' = EventsCover(plan)
  BY Same DEF EventsCover, HasEvent, schedVars
<1>2. /\ gen \in Nat \ {0} /\ split \in 1 .. Len(plan.splits) /\ Len(plan.splits) \in Nat
      /\ Len(plan.splits) <= Len(G.nodes) /\ is_alloc
      /\ gen \notin excused => plan.copy = cur_copy /\ EventsCover(plan)
  BY AtSplit
<1>3. split' \in 1 .. Len(G.nodes) + 1 /\ input' \in 1 .. MaxSplitInputs + 1
  BY <1>2, GraphFacts, Constants DEF SInv, TypeOK
<1>4. wrong' \cup excused' \subseteq 1 .. gen
  <2>1. excused \subseteq 1 .. gen
    BY DEF SInv, TypeOK
  <2>2. gen \in 1 .. gen
    BY <1>2
  <2> QED BY <2>1, <2>2
<1>5. \A b \in Async : \A c \in Copies : event'[b][c] \in 0 .. Len(queue'[b])
  <2> SUFFICES ASSUME NEW b \in Async, NEW c \in Copies
               PROVE  event'[b][c] \in 0 .. Len(queue'[b])
    OBVIOUS
  <2>1. event'[b][c] \in Nat /\ Len(queue'[b]) \in Nat
    OBVIOUS
  <2> QED BY <2>1
<1>6. TypeOK'
  BY <1>1, <1>3, <1>4, <1>5 DEF SInv, schedVars, fixed, TypeOK, Typed
<1>7. Shapes' /\ TablesKnown'
  BY <1>1 DEF SInv, schedVars, Shapes, TablesKnown
<1>8. InSplits'
  BY <1>1, <1>2 DEF schedVars, InSplits
<1> QED BY <1>6, <1>7, <1>8

\* The event is recorded behind everything that is queued.
LEMMA EventTypes ==
  ASSUME SInv, InSplit, RecordEvent(Cur.backend_id), queue' \in [Async -> Seq(Entries)],
         \A b \in Async : Len(queue[b]) <= Len(queue'[b])
  PROVE  /\ event' \in [Async -> [Copies -> Nat]]
         /\ \A b \in Async : \A c \in Copies : event'[b][c] <= Len(queue'[b])
<1>1. \A b \in Async : Len(queue[b]) \in Nat /\ Len(queue'[b]) \in Nat
  BY QueueFacts DEF SInv
<1>2. event \in [Async -> [Copies -> Nat]] /\ cur_copy \in Copies
  BY GraphFacts DEF SInv, Shapes
<1>3. ASSUME NEW b \in Async, NEW c \in Copies
      PROVE  event[b][c] \in Nat /\ event[b][c] <= Len(queue'[b])
  <2>1. event[b][c] \in 0 .. Len(queue[b])
    BY DEF SInv, TypeOK
  <2> QED BY <1>1, <2>1
<1>4. CASE event' = event
  BY <1>2, <1>3, <1>4
<1>5. CASE event' # event
  <2> DEFINE B == Cur.backend_id
  <2>1. B \in Async /\ event' = [event EXCEPT ![B][cur_copy] = Len(queue'[B])]
    BY <1>5 DEF RecordEvent, HasEvent
  <2>2. Len(queue'[B]) \in Nat
    BY <1>1, <2>1
  <2>3. event' \in [Async -> [Copies -> Nat]]
    BY <1>2, <2>1, <2>2
  <2>4. ASSUME NEW b \in Async, NEW c \in Copies PROVE event'[b][c] <= Len(queue'[b])
    <3>1. event'[b][c] = IF b = B /\ c = cur_copy THEN Len(queue'[B]) ELSE event[b][c]
      BY <1>2, <2>1
    <3> QED BY <1>1, <1>3, <3>1
  <2> QED BY <2>3, <2>4
<1> QED BY <1>4, <1>5

\* What the operations of the present split read.
LEMMA NewEntry ==
  ASSUME SInv, InSplit, NEW j \in 1 .. Len(plan.items[split]),
         NEW loc \in Range(plan.items[split][j].from), loc.b # Own
  PROVE  /\ loc.b = Cur.backend_id /\ loc.c = plan.copy /\ loc.c \in Copies
         /\ plan.items[split][j] \in Range(plan.items[split])
         /\ \E k \in 1 .. split : /\ plan.splits[k].backend_id = loc.b
                                  /\ loc.t \in Range(plan.splits[k].inputs)
<1>1. plan \in GoodPlans /\ split \in 1 .. Len(plan.splits) /\ plan.copy \in Copies
  BY AtSplit
<1>2. /\ plan.items[split][j] \in Range(plan.items[split])
      /\ loc.b = Cur.backend_id /\ loc.c = plan.copy
      /\ \E k \in 1 .. split : /\ plan.splits[k].backend_id = loc.b
                               /\ loc.t \in Range(plan.splits[k].inputs)
  BY <1>1, SplitFacts, SMTT(40) DEF SInv, Cur
<1> QED BY <1>1, <1>2

\* What is queued after a launch is of computations that have begun, and reads
\* originals and copies of its backend.
LEMMA EnqueueReads ==
  ASSUME SInv, InSplit, UNCHANGED <<fixed, gen>>, Cur.backend_id \in Async,
         NEW items \in Seq(Items), Len(items) <= Len(plan.items[split]),
         \A j \in 1 .. Len(items) : items[j] = plan.items[split][j],
         Enqueue(Cur.backend_id, items)
  PROVE  QueueReads'
<1> DEFINE B == Cur.backend_id
           n == Len(items)
<1>1. /\ gen \in 1 .. MaxComputes /\ Copies' = Copies
      /\ plan.items[split] \in Seq(Items) /\ Len(plan.items[split]) \in Nat
  BY AtSplit, SplitFacts, Same, Constants DEF SInv
<1>2. n \in Nat
  OBVIOUS
<1> HIDE DEF n
<1> SUFFICES ASSUME NEW b \in Async, NEW i \in 1 .. Len(queue'[b])
             PROVE  /\ queue'[b][i].gen <= gen
                    /\ \A loc \in Range(queue'[b][i].item.from) :
                         loc.b # Own => loc.b = b /\ loc.c \in Copies
  BY <1>1 DEF QueueReads
<1>3. \A d \in Async \ {B} : queue'[d] = queue[d]
  BY <1>1, EnqueueEffect
<1>4. CASE i \in 1 .. Len(queue[b]) /\ queue'[b][i] = queue[b][i]
  BY <1>4 DEF SInv, QueueReads
<1>5. CASE b = B /\ \E j \in 1 .. n : queue'[b][i] = [item |-> items[j], gen |-> gen]
  <2>1. PICK j \in 1 .. n : queue'[b][i] = [item |-> items[j], gen |-> gen]
    BY <1>5
  <2>2. queue'[b][i].gen = gen /\ queue'[b][i].item = plan.items[split][j]
        /\ j \in 1 .. Len(plan.items[split])
    BY <1>1, <1>2, <2>1 DEF n
  <2> QED BY <1>1, <1>5, <2>2, NewEntry
<1>6. CASE b = B
  <2>1. \/ i \in 1 .. Len(queue[B]) /\ queue'[B][i] = queue[B][i]
        \/ \E j \in 1 .. Len(items) : queue'[B][i] = [item |-> items[j], gen |-> gen]
    BY <1>1, <1>6, Launched
  <2> QED BY <1>4, <1>5, <1>6, <2>1 DEF n
<1>7. CASE b # B
  BY <1>3, <1>4, <1>7
<1> QED BY <1>6, <1>7

LEMMA LaunchAsyncStep ==
  ASSUME SInv, LaunchAsync
  PROVE  SInv'
<1> DEFINE B == Cur.backend_id
           items == plan.items[split]
<1>1. /\ InSplit /\ B \in Async /\ Enqueue(B, items) /\ RecordEvent(B)
      /\ split' = split + 1 /\ input' = 1
      /\ UNCHANGED <<fixed, schedVars, phase, async, built, gen, done, mem, wrong, excused>>
  BY DEF LaunchAsync, Ready, NextSplit
<1>2. /\ plan \in GoodPlans /\ split \in 1 .. Len(plan.splits) /\ Len(plan.splits) \in Nat
      /\ DOMAIN plan.splits = 1 .. Len(plan.splits)
      /\ gen \in 1 .. MaxComputes /\ gen \in Nat /\ phase = "splits"
      /\ gen \notin excused => plan.copy = cur_copy /\ EventsCover(plan)
  BY <1>1, AtSplit, Constants DEF InSplit
<1>3. items \in Seq(Items) /\ Len(items) \in Nat
  BY <1>2, SplitFacts DEF SInv
<1>4. /\ queue' \in [Async -> Seq(Entries)]
      /\ Len(queue'[B]) = Len(queue[B]) + Len(items)
      /\ \A i \in 1 .. Len(queue[B]) : queue'[B][i] = queue[B][i]
      /\ \A d \in Async \ {B} : queue'[d] = queue[d]
  BY <1>1, <1>2, <1>3, EnqueueEffect
<1>5. \A b \in Async : Len(queue[b]) \in Nat /\ Len(queue'[b]) \in Nat
                         /\ Len(queue[b]) <= Len(queue'[b])
  <2> SUFFICES ASSUME NEW b \in Async
               PROVE  /\ Len(queue[b]) \in Nat /\ Len(queue'[b]) \in Nat
                      /\ Len(queue[b]) <= Len(queue'[b])
    OBVIOUS
  <2>1. Len(queue[b]) \in Nat
    BY QueueFacts DEF SInv
  <2>2. CASE b = B
    <3>1. Len(queue'[b]) = Len(queue[b]) + Len(items)
      BY <1>4, <2>2
    <3> HIDE DEF items
    <3> QED BY <1>3, <2>1, <3>1
  <2>3. CASE b # B
    BY <1>4, <2>1, <2>3
  <2> QED BY <2>2, <2>3
<1>6. /\ event' \in [Async -> [Copies -> Nat]]
      /\ \A b \in Async : \A c \in Copies : event'[b][c] <= Len(queue'[b])
  BY <1>1, <1>4, <1>5, EventTypes
<1>7. TypeOK' /\ Shapes' /\ TablesKnown' /\ InSplits'
  <2>1. Typed(mem', gen) /\ wrong' \subseteq 1 .. gen
    BY <1>1 DEF SInv, TypeOK, Typed
  <2> QED BY <1>1, <1>2, <1>4, <1>6, <2>1, LaunchTypes
<1>8. QueueReads'
  BY <1>1, <1>3, EnqueueReads
<1>9. Guarded'
  <2>0. n_copies' = n_copies /\ excused' = excused
    BY <1>1 DEF fixed
  <2> SUFFICES ASSUME n_copies > 1, NEW b \in Async, NEW i \in 1 .. Len(queue'[b]),
                      NEW e, e = queue'[b][i], e.gen \notin excused,
                      NEW loc \in Range(e.item.from), loc.b # Own
               PROVE  i <= event'[b][loc.c] \/ Pending(b, loc, e.gen)'
    BY <2>0 DEF Guarded
  <2>1. loc.b = b /\ loc.c \in Copies
    BY <1>1, <1>8, Same DEF QueueReads
  <2>2. CASE i \in 1 .. Len(queue[b]) /\ queue'[b][i] = queue[b][i]
    <3>1. i <= event[b][loc.c] \/ Pending(b, loc, e.gen)
      BY <2>2 DEF SInv, Guarded
    <3> QED BY <1>1, <1>5, <2>1, <2>2, <3>1, GuardStays DEF schedVars
  <2>3. CASE b = B /\ \E j \in 1 .. Len(items) : queue'[b][i] = [item |-> items[j], gen |-> gen]
    <3>1. PICK j \in 1 .. Len(items) : queue'[b][i] = [item |-> items[j], gen |-> gen]
      BY <2>3
    <3>2. e.gen = gen /\ loc \in Range(items[j].from)
      BY <3>1
    <3>3. plan.copy = cur_copy /\ EventsCover(plan)
      BY <1>2, <3>2
    <3>4. /\ loc.c = plan.copy /\ items[j] \in Range(items)
          /\ \E k \in 1 .. split : /\ plan.splits[k].backend_id = b
                                   /\ loc.t \in Range(plan.splits[k].inputs)
      BY <1>1, <2>1, <3>2, NewEntry
    <3>5. HasEvent(B)
      BY <1>1 DEF HasEvent
    <3>6. PICK later \in split .. Len(plan.splits) :
             plan.splits[later].backend_id = B /\ plan.splits[later].inputs # <<>>
      BY <1>2, <2>1, <2>3, <3>2, <3>3, <3>4, <3>5 DEF EventsCover, Cur
    <3>7. CASE later = split
      <4>1. event' = [event EXCEPT ![B][cur_copy] = Len(queue'[B])]
        BY <1>1, <3>5, <3>6, <3>7 DEF RecordEvent, Cur
      <4>2. event'[B][cur_copy] = Len(queue'[B])
        BY <1>1, <4>1, GraphFacts DEF SInv, Shapes
      <4> QED BY <1>5, <2>3, <3>3, <3>4, <4>2
    <3>8. CASE later # split
      <4>1. later \in split + 1 .. Len(plan.splits) /\ (split + 1) - 1 = split
        BY <1>2, <3>6, <3>8
      <4>2. split' = split + 1 /\ plan' = plan /\ cur_copy' = cur_copy /\ phase' = "splits"
              /\ gen' = gen
        BY <1>1, <1>2 DEF schedVars
      <4>3. \E k \in 1 .. split' - 1 : /\ plan.splits[k].backend_id = b
                                      /\ loc.t \in Range(plan.splits[k].inputs)
        BY <3>4, <4>1, <4>2
      <4>4. later \in split' .. Len(plan.splits) /\ plan.splits[later].backend_id = b
              /\ plan.splits[later].inputs # <<>>
        BY <2>3, <3>6, <4>1, <4>2
      <4> QED BY <3>2, <3>3, <3>4, <4>2, <4>3, <4>4 DEF Pending
    <3> QED BY <3>7, <3>8
  <2>4. CASE b = B
    <3>1. \/ i \in 1 .. Len(queue[B]) /\ queue'[B][i] = queue[B][i]
          \/ \E j \in 1 .. Len(items) : queue'[B][i] = [item |-> items[j], gen |-> gen]
      BY <1>1, <1>2, <1>3, <2>4, Launched
    <3> QED BY <2>2, <2>3, <2>4, <3>1
  <2>5. CASE b # B
    BY <1>4, <2>2, <2>5
  <2> QED BY <2>4, <2>5
<1> QED BY <1>7, <1>8, <1>9 DEF SInv

\* A split that is computed before the host goes on.
LEMMA SplitComputed ==
  ASSUME SInv, InSplit, NEW items, Len(items) \in 0 .. Len(plan.items[split]),
         \A i \in 1 .. Len(items) : items[i] = plan.items[split][i], RunAll(items)
  PROVE  /\ Typed(mem', gen) /\ wrong' \subseteq 1 .. gen
         /\ \A loc : loc.b # Own => Value(mem', loc) = Value(mem, loc)
<1>1. plan \in GoodPlans /\ split \in 1 .. Len(plan.splits) /\ gen \in Nat \ {0}
  BY AtSplit
<1>2. /\ Len(plan.items[split]) \in Nat
      /\ \A i \in 1 .. Len(plan.items[split]) : plan.items[split][i].to.b = Own
  BY <1>1, SplitFacts DEF SInv
<1>3. Len(items) \in Nat /\ \A i \in 1 .. Len(items) : items[i].to.b = Own
  BY <1>2
<1>4. Typed(mem, gen) /\ wrong \subseteq 1 .. gen
  BY DEF SInv, TypeOK, Typed
<1> QED BY <1>1, <1>3, <1>4, RunAllEffect

\* Going on to the next split without queuing anything.
LEMMA GoOn ==
  ASSUME SInv, InSplit, split' = split + 1, input' = 1, RecordEvent(Cur.backend_id), queue' = queue,
         UNCHANGED <<fixed, schedVars, phase, async, built, gen, done>>,
         Typed(mem', gen), wrong' \subseteq 1 .. gen,
         excused \subseteq excused', excused' \subseteq excused \cup {gen}
  PROVE  SInv'
<1>1. queue' \in [Async -> Seq(Entries)] /\ \A b \in Async : Len(queue[b]) \in Nat
  BY QueueFacts DEF SInv, Shapes
<1>2. /\ event' \in [Async -> [Copies -> Nat]]
      /\ \A b \in Async : \A c \in Copies : event'[b][c] <= Len(queue'[b])
  BY <1>1, EventTypes
<1>3. phase' \in {"splits", "user", "synchronize"}
  BY DEF InSplit
<1>4. TypeOK' /\ Shapes' /\ TablesKnown' /\ InSplits'
  BY <1>1, <1>2, <1>3, LaunchTypes
<1>5. QueueReads'
  BY Same DEF SInv, QueueReads
<1>6. Guarded'
  <2> SUFFICES ASSUME n_copies > 1, NEW b \in Async, NEW i \in 1 .. Len(queue[b]),
                      queue[b][i].gen \notin excused',
                      NEW loc \in Range(queue[b][i].item.from), loc.b # Own
               PROVE  i <= event'[b][loc.c] \/ Pending(b, loc, queue[b][i].gen)'
    BY Same DEF Guarded
  <2>1. loc.c \in Copies /\ (i <= event[b][loc.c] \/ Pending(b, loc, queue[b][i].gen))
    BY DEF SInv, QueueReads, Guarded
  <2>2. Len(queue'[b]) \in Nat /\ Len(queue[b]) <= Len(queue'[b])
    BY <1>1
  <2> QED BY <2>1, <2>2, GuardStays DEF schedVars
<1> QED BY <1>4, <1>5, <1>6 DEF SInv

LEMMA LaunchBlockingStep ==
  ASSUME SInv, LaunchBlocking
  PROVE  SInv'
<1>1. /\ InSplit /\ Cur.backend_id \notin Async /\ RunAll(plan.items[split])
      /\ split' = split + 1 /\ input' = 1
      /\ UNCHANGED <<fixed, schedVars, phase, async, built, gen, done, queue, event, excused>>
  BY DEF LaunchBlocking, Ready, NextSplit
<1>2. Len(plan.items[split]) \in 0 .. Len(plan.items[split])
  BY <1>1, AtSplit, SplitFacts DEF SInv
<1>3. Typed(mem', gen) /\ wrong' \subseteq 1 .. gen
  BY <1>1, <1>2, SplitComputed
<1>4. RecordEvent(Cur.backend_id)
  BY <1>1 DEF RecordEvent, HasEvent
<1> QED BY <1>1, <1>3, <1>4, GoOn

LEMMA LaunchObservedStep ==
  ASSUME SInv, LaunchObserved
  PROVE  SInv'
<1>1. PICK last \in 1 .. Len(plan.items[split]) :
         /\ RunAll(SubSeq(plan.items[split], 1, last))
         /\ excused' = IF last < Len(plan.items[split]) THEN excused \cup {gen} ELSE excused
  BY DEF LaunchObserved
<1>2. /\ InSplit /\ queue' = queue /\ RecordEvent(Cur.backend_id)
      /\ split' = split + 1 /\ input' = 1
      /\ UNCHANGED <<fixed, schedVars, phase, async, built, gen, done>>
  BY DEF LaunchObserved, Ready, NextSplit
<1> DEFINE items == SubSeq(plan.items[split], 1, last)
<1>3. plan.items[split] \in Seq(Items) /\ Len(plan.items[split]) \in Nat
  BY <1>2, AtSplit, SplitFacts DEF SInv
<1>4. /\ Len(items) \in 0 .. Len(plan.items[split])
      /\ \A i \in 1 .. Len(items) : items[i] = plan.items[split][i]
  BY <1>3, PrefixIs
<1>5. Typed(mem', gen) /\ wrong' \subseteq 1 .. gen
  BY <1>1, <1>2, <1>4, SplitComputed
<1> QED BY <1>1, <1>2, <1>5, GoOn

LEMMA LaunchFailsStep ==
  ASSUME SInv, LaunchFails
  PROVE  SInv'
<1> DEFINE B == Cur.backend_id
<1>1. /\ InSplit /\ Return
      /\ excused' = IF \E b \in Async : Unguarded(b) THEN excused \cup {gen} ELSE excused
      /\ UNCHANGED <<fixed, schedVars, split, input, async, built, gen, done, event>>
  BY DEF LaunchFails, Ready
<1>2. PICK begun \in 0 .. Len(plan.items[split]) :
         LET items == SubSeq(plan.items[split], 1, begun)
         IN  \/ B \in Async /\ Enqueue(B, items) /\ UNCHANGED <<mem, wrong>>
             \/ RunAll(items) /\ queue' = queue
  BY DEF LaunchFails
<1> DEFINE items == SubSeq(plan.items[split], 1, begun)
<1>3. /\ gen \in 1 .. MaxComputes /\ gen \in Nat
      /\ plan.items[split] \in Seq(Items) /\ Len(plan.items[split]) \in Nat
      /\ gen \notin excused => plan.copy = cur_copy
  BY <1>1, AtSplit, SplitFacts, Constants DEF SInv
<1>4. /\ items \in Seq(Items) /\ Len(items) \in 0 .. Len(plan.items[split])
      /\ \A j \in 1 .. Len(items) : items[j] = plan.items[split][j]
  BY <1>3, PrefixIs
<1>5. \/ B \in Async /\ Enqueue(B, items) /\ UNCHANGED <<mem, wrong>>
      \/ RunAll(items) /\ queue' = queue
  BY <1>2
<1> HIDE DEF items
<1>6. Typed(mem', gen) /\ wrong' \subseteq 1 .. gen
  <2>1. CASE UNCHANGED <<mem, wrong>>
    BY <2>1 DEF SInv, TypeOK, Typed
  <2>2. CASE RunAll(items)
    BY <1>1, <1>4, <2>2, SplitComputed
  <2> QED BY <1>5, <2>1, <2>2
<1>7. QueueReads' /\ queue' \in [Async -> Seq(Entries)]
  <2>1. CASE queue' = queue
    BY <1>1, <2>1, Same DEF SInv, Shapes, QueueReads
  <2>2. CASE B \in Async /\ Enqueue(B, items)
    <3>1. QueueReads'
      BY <1>1, <1>3, <1>4, <2>2, EnqueueReads
    <3>2. queue' \in [Async -> Seq(Entries)]
      BY <1>3, <1>4, <2>2, EnqueueEffect
    <3> QED BY <3>1, <3>2
  <2> QED BY <1>5, <2>1, <2>2
\* Each entry was queued before, or is an operation of this split.
<1>8. ASSUME NEW b \in Async, NEW i \in 1 .. Len(queue'[b])
      PROVE  \/ i \in 1 .. Len(queue[b]) /\ queue'[b][i] = queue[b][i]
             \/ b = B /\ \E j \in 1 .. Len(items) : queue'[b][i] = [item |-> items[j], gen |-> gen]
  <2>1. CASE queue' = queue
    BY <2>1
  <2>2. CASE B \in Async /\ Enqueue(B, items) /\ b = B
    BY <1>3, <1>4, <2>2, Launched
  <2>3. CASE B \in Async /\ Enqueue(B, items) /\ b # B
    <3>1. queue'[b] = queue[b]
      BY <1>3, <1>4, <2>3, EnqueueEffect
    <3> QED BY <3>1
  <2> QED BY <1>5, <2>1, <2>2, <2>3
<1>9. ASSUME NEW b \in Async PROVE Len(queue[b]) <= Len(queue'[b])
  <2>1. Len(queue[b]) \in Nat
    BY QueueFacts DEF SInv
  <2>2. CASE queue' = queue
    BY <2>1, <2>2
  <2>3. CASE B \in Async /\ Enqueue(B, items) /\ b = B
    <3>1. Len(queue'[b]) = Len(queue[b]) + Len(items) /\ Len(items) \in Nat
      BY <1>3, <1>4, <2>3, EnqueueEffect
    <3> QED BY <2>1, <3>1
  <2>4. CASE B \in Async /\ Enqueue(B, items) /\ b # B
    <3>1. queue'[b] = queue[b]
      BY <1>3, <1>4, <2>4, EnqueueEffect
    <3> QED BY <2>1, <3>1
  <2> QED BY <1>5, <2>2, <2>3, <2>4
<1>10. TypeOK' /\ Shapes' /\ TablesKnown' /\ InSplits'
  <2>1. event' \in [Async -> [Copies -> Nat]]
    BY <1>1 DEF SInv, Shapes
  <2>2. ASSUME NEW b \in Async, NEW c \in Copies PROVE event'[b][c] <= Len(queue'[b])
    <3>1. event[b][c] \in 0 .. Len(queue[b]) /\ event' = event
      BY <1>1 DEF SInv, TypeOK
    <3>2. Len(queue[b]) \in Nat /\ Len(queue'[b]) \in Nat
      BY <1>7, QueueFacts DEF SInv
    <3> QED BY <1>9, <3>1, <3>2
  <2>3. phase' \in {"splits", "user", "synchronize"}
    BY <1>1 DEF Return
  <2>4. excused \subseteq excused' /\ excused' \subseteq excused \cup {gen}
    BY <1>1
  <2> QED BY <1>1, <1>6, <1>7, <2>1, <2>2, <2>3, <2>4, LaunchTypes
<1>11. Guarded'
  <2>0. n_copies' = n_copies /\ event' = event /\ excused \subseteq excused' /\ cur_copy' = cur_copy
    BY <1>1 DEF fixed, schedVars
  <2> SUFFICES ASSUME n_copies > 1, NEW b \in Async, NEW i \in 1 .. Len(queue'[b]),
                      NEW e, e = queue'[b][i], e.gen \notin excused',
                      NEW loc \in Range(e.item.from), loc.b # Own
               PROVE  i <= event[b][loc.c]
    BY <2>0 DEF Guarded
  <2>1. Len(queue'[b]) \in Nat /\ DOMAIN queue'[b] = 1 .. Len(queue'[b])
    BY <1>7
  <2>2. e.gen = gen => i <= event[b][cur_copy]
    <3> SUFFICES ASSUME e.gen = gen PROVE i <= event[b][cur_copy]
      OBVIOUS
    <3>1. ~Unguarded(b)
      BY <1>1
    <3>2. event[b][cur_copy] \in Nat
      BY GraphFacts DEF SInv, Shapes
    <3>3. ~(i > event[b][cur_copy])
      BY <2>1, <3>1 DEF Unguarded, HasEvent
    <3> QED BY <2>1, <3>2, <3>3
  <2>3. CASE i \in 1 .. Len(queue[b]) /\ queue'[b][i] = queue[b][i]
    <3>1. i <= event[b][loc.c] \/ Pending(b, loc, e.gen)
      BY <2>0, <2>3 DEF SInv, Guarded
    <3> QED BY <2>2, <3>1 DEF Pending
  <2>4. CASE b = B /\ \E j \in 1 .. Len(items) : queue'[b][i] = [item |-> items[j], gen |-> gen]
    <3>1. PICK j \in 1 .. Len(items) : queue'[b][i] = [item |-> items[j], gen |-> gen]
      BY <2>4
    <3>2. e.gen = gen /\ e.item = plan.items[split][j] /\ j \in 1 .. Len(plan.items[split])
      BY <1>3, <1>4, <3>1
    <3>3. loc.c = plan.copy
      BY <1>1, <3>2, NewEntry
    <3>4. plan.copy = cur_copy
      BY <1>3, <2>0, <3>2
    <3> QED BY <2>2, <3>2, <3>3, <3>4
  <2> QED BY <1>8, <2>3, <2>4
<1> QED BY <1>7, <1>10, <1>11 DEF SInv

LEMMA FinishSplitsStep ==
  ASSUME SInv, FinishSplits
  PROVE  SInv'
<1>1. /\ phase = "splits" /\ split > Len(plan.splits)
      /\ cur_copy' = (cur_copy + 1) % n_copies /\ done' = gen /\ Return
      /\ UNCHANGED <<fixed, is_reset, is_alloc, hv_ids, hv_copies, plan, backend_ids,
                     split, input, async, built, gen, queue, event, mem, wrong, excused>>
  BY DEF FinishSplits, NextCopy
<1>2. /\ G' = G /\ Copies' = Copies /\ Blank' = Blank /\ GoodPlans' = GoodPlans
      /\ Entries' = Entries /\ n_copies' = n_copies
  BY <1>1, Same
<1>3. phase' \in {"user", "synchronize"}
  BY <1>1 DEF Return
<1>4. cur_copy' \in Copies
  BY <1>1, GraphFacts DEF SInv
<1>5. TypeOK'
  <2>1. done' \in 0 .. gen
    BY <1>1, GraphFacts DEF SInv
  <2> QED BY <1>1, <1>2, <1>3, <1>4, <2>1 DEF SInv, fixed, TypeOK
<1>6. Shapes' /\ TablesKnown' /\ InSplits' /\ QueueReads'
  BY <1>1, <1>2, <1>3 DEF SInv, Shapes, TablesKnown, InSplits, QueueReads
<1>7. \A b, loc, k : ~Pending(b, loc, k)
  <2>1. plan \in GoodPlans
    BY <1>1 DEF SInv, InSplits, TablesKnown
  <2>2. Len(plan.splits) \in Nat /\ split \in Nat
    BY <2>1, PlanTypes, GraphFacts DEF SInv, TypeOK
  <2>3. split .. Len(plan.splits) = {}
    BY <1>1, <2>2
  <2> QED BY <2>3 DEF Pending
<1>8. Guarded'
  BY <1>1, <1>2, <1>7 DEF SInv, Guarded
<1> QED BY <1>5, <1>6, <1>8 DEF SInv

LEMMA SynchronizeStep ==
  ASSUME SInv, Synchronize
  PROVE  SInv'
<1>1. Shapes' /\ QueueReads' /\ Guarded'
  BY QueueStays, GraphFacts DEF SInv, Synchronize, schedVars
<1>2. /\ G' = G /\ Copies' = Copies /\ Blank' = Blank /\ GoodPlans' = GoodPlans
  BY Same DEF Synchronize
<1>3. TypeOK' /\ TablesKnown' /\ InSplits'
  BY <1>2 DEF SInv, Synchronize, schedVars, fixed, TypeOK, TablesKnown, InSplits
<1> QED BY <1>1, <1>3 DEF SInv

LEMMA ExecuteStep ==
  ASSUME SInv, NEW b \in Async, Execute(b)
  PROVE  SInv'
<1> DEFINE e == Head(queue[b])
           s == [mem |-> mem, wrong |-> wrong]
<1>1. /\ queue[b] # <<>>
      /\ mem' = Run(s, e.item, e.gen).mem /\ wrong' = Run(s, e.item, e.gen).wrong
      /\ queue' = [queue EXCEPT ![b] = Tail(@)]
      /\ event' = [event EXCEPT ![b] = [c \in Copies |-> IF @[c] > 0 THEN @[c] - 1 ELSE 0]]
      /\ UNCHANGED <<fixed, schedVars, callVars, built, gen, done, excused>>
  BY DEF Execute
<1>2. /\ G' = G /\ Copies' = Copies /\ Blank' = Blank /\ GoodPlans' = GoodPlans
      /\ Entries' = Entries /\ n_copies' = n_copies /\ EventsCover(plan)' = EventsCover(plan)
  BY <1>1, Same DEF EventsCover, HasEvent, schedVars
<1>3. /\ queue \in [Async -> Seq(Entries)] /\ queue[b] \in Seq(Entries)
      /\ event \in [Async -> [Copies -> Nat]] /\ event[b] \in [Copies -> Nat]
  BY DEF SInv, Shapes
<1>4. /\ Tail(queue[b]) \in Seq(Entries) /\ Len(Tail(queue[b])) = Len(queue[b]) - 1
      /\ Len(queue[b]) \in Nat \ {0} /\ e = queue[b][1]
  BY <1>1, <1>3
<1>5. \A i \in 1 .. Len(queue[b]) - 1 : Tail(queue[b])[i] = queue[b][i + 1]
  BY <1>1, <1>3
<1>6. queue' \in [Async -> Seq(Entries)] /\ queue'[b] = Tail(queue[b])
      /\ \A d \in Async \ {b} : queue'[d] = queue[d]
  BY <1>1, <1>3, <1>4
<1>7. /\ event'[b] = [c \in Copies |-> IF event[b][c] > 0 THEN event[b][c] - 1 ELSE 0]
      /\ \A d \in Async \ {b} : event'[d] = event[d]
  BY <1>1, <1>3
<1>8. event' \in [Async -> [Copies -> Nat]]
  <2>1. \A c \in Copies : (IF event[b][c] > 0 THEN event[b][c] - 1 ELSE 0) \in Nat
    BY <1>3
  <2> QED BY <1>1, <1>3, <2>1
<1>9. Typed(mem', gen) /\ wrong' \subseteq 1 .. gen
  <2>1. gen \in Nat /\ Typed(s.mem, gen) /\ s.wrong \subseteq 1 .. gen
    BY GraphFacts DEF SInv, TypeOK, Typed
  <2>2. e.gen \in 1 .. gen
    <3>1. 1 \in 1 .. Len(queue[b])
      BY <1>4
    <3>2. e.gen \in 1 .. MaxComputes /\ e.gen <= gen
      BY <1>4, <3>1, QueueFacts DEF SInv, QueueReads
    <3> QED BY <2>1, <3>2, Constants
  <2> HIDE DEF s, e
  <2> QED BY <1>1, <2>1, <2>2, RunTyped
<1>10. ASSUME NEW d \in Async, NEW c \in Copies PROVE event'[d][c] \in 0 .. Len(queue'[d])
  <2>1. event[d][c] \in 0 .. Len(queue[d])
    BY DEF SInv, TypeOK
  <2>2. CASE d = b
    BY <1>4, <1>6, <1>7, <2>1, <2>2
  <2>3. CASE d # b
    BY <1>6, <1>7, <2>1, <2>3
  <2> QED BY <2>2, <2>3
<1>11. TypeOK'
  BY <1>1, <1>2, <1>9, <1>10 DEF SInv, schedVars, callVars, fixed, TypeOK, Typed
<1>12. Shapes' /\ TablesKnown' /\ InSplits'
  BY <1>1, <1>2, <1>6, <1>8 DEF SInv, schedVars, callVars, Shapes, TablesKnown, InSplits
\* What is queued has moved up by one.
<1>13. ASSUME NEW d \in Async, NEW i \in 1 .. Len(queue'[d])
       PROVE  \E j \in 1 .. Len(queue[d]) :
                /\ queue'[d][i] = queue[d][j]
                /\ \A c \in Copies : j <= event[d][c] => i <= event'[d][c]
  <2>1. CASE d = b
    <3>1. i \in 1 .. Len(queue[b]) - 1 /\ i + 1 \in 1 .. Len(queue[b])
      BY <1>4, <1>6, <2>1
    <3>2. queue'[d][i] = queue[d][i + 1]
      BY <1>5, <1>6, <2>1, <3>1
    <3>3. ASSUME NEW c \in Copies, i + 1 <= event[d][c] PROVE i <= event'[d][c]
      <4>1. event[d][c] \in Nat
        BY <1>3, <2>1
      <4> QED BY <1>7, <2>1, <3>1, <3>3, <4>1
    <3> QED BY <2>1, <3>1, <3>2, <3>3
  <2>2. CASE d # b
    BY <1>6, <1>7, <2>2
  <2> QED BY <2>1, <2>2
<1>14. QueueReads'
  <2> SUFFICES ASSUME NEW d \in Async, NEW i \in 1 .. Len(queue'[d])
               PROVE  /\ queue'[d][i].gen <= gen
                      /\ \A loc \in Range(queue'[d][i].item.from) :
                           loc.b # Own => loc.b = d /\ loc.c \in Copies
    BY <1>1, <1>2 DEF QueueReads
  <2> QED BY <1>13, SMTT(40) DEF SInv, QueueReads
<1>15. Guarded'
  <2> SUFFICES ASSUME n_copies > 1, NEW d \in Async, NEW i \in 1 .. Len(queue'[d]),
                      NEW q, q = queue'[d][i], q.gen \notin excused,
                      NEW loc \in Range(q.item.from), loc.b # Own
               PROVE  i <= event'[d][loc.c] \/ Pending(d, loc, q.gen)'
    BY <1>1, <1>2 DEF Guarded
  <2>1. PICK j \in 1 .. Len(queue[d]) :
           q = queue[d][j] /\ \A c \in Copies : j <= event[d][c] => i <= event'[d][c]
    BY <1>13
  <2>2. loc.c \in Copies /\ (j <= event[d][loc.c] \/ Pending(d, loc, q.gen))
    BY <2>1 DEF SInv, QueueReads, Guarded
  <2>3. Pending(d, loc, q.gen) => Pending(d, loc, q.gen)'
    BY <1>1 DEF Pending, schedVars, callVars
  <2> QED BY <2>1, <2>2, <2>3
<1> QED BY <1>11, <1>12, <1>14, <1>15 DEF SInv

-----------------------------------------------------------------------------
(* The theorems.                                                             *)

LEMMA NextSInv == SInv /\ [Next]_vars => SInv'
<1> SUFFICES ASSUME SInv, [Next]_vars PROVE SInv'
  OBVIOUS
<1>1. CASE UNCHANGED vars
  <2>1. /\ G' = G /\ Copies' = Copies /\ Blank' = Blank /\ GoodPlans' = GoodPlans
        /\ Entries' = Entries /\ n_copies' = n_copies /\ EventsCover(plan)' = EventsCover(plan)
    BY <1>1, Same DEF EventsCover, HasEvent, schedVars, vars
  <2>2. TypeOK'
    BY <1>1, <2>1 DEF SInv, vars, fixed, schedVars, callVars, TypeOK
  <2>3. Shapes' /\ TablesKnown' /\ InSplits' /\ QueueReads' /\ Guarded'
    BY <1>1, <2>1 DEF SInv, vars, fixed, schedVars, callVars,
                      Shapes, TablesKnown, InSplits, QueueReads, Guarded, Pending
  <2> QED BY <2>2, <2>3 DEF SInv
<1>2. CASE NewGraph
  BY <1>2, NewGraphStep
<1>3. CASE Reserve
  BY <1>3, ReserveStep
<1>4. CASE AllocGraph
  BY <1>4, AllocGraphStep
<1>5. CASE Compute
  BY <1>5, ComputeStep
<1>6. CASE ComputeUnallocated
  BY <1>6, ComputeUnallocatedStep
<1>7. CASE \E a \in G.asks : SetTensorBackend(a[1], a[2])
  BY <1>7, SetTensorBackendStep
<1>8. CASE ComputeSplits
  <2>1. CASE CopyInput
    BY <2>1, CopyInputStep
  <2>2. CASE LaunchAsync
    BY <2>2, LaunchAsyncStep
  <2>3. CASE LaunchBlocking
    BY <2>3, LaunchBlockingStep
  <2>4. CASE LaunchObserved
    BY <2>4, LaunchObservedStep
  <2>5. CASE LaunchFails
    BY <2>5, LaunchFailsStep
  <2>6. CASE FinishSplits
    BY <2>6, FinishSplitsStep
  <2>7. CASE Synchronize
    BY <2>7, SynchronizeStep
  <2> QED BY <1>8, <2>1, <2>2, <2>3, <2>4, <2>5, <2>6, <2>7 DEF ComputeSplits
<1>9. CASE \E b \in Async : Execute(b)
  BY <1>9, ExecuteStep
<1> QED BY <1>1, <1>2, <1>3, <1>4, <1>5, <1>6, <1>7, <1>8, <1>9 DEF Next

LEMMA Invariance == Spec => []SInv
BY InitSInv, NextSInv, PTL DEF Spec

\* TypeOK, for any graphs, backends, copies and plans: the events of
\* compute_splits (ggml-backend.cpp:1437) never point behind their queue,
\* cur_copy stays a copy, and the tables hold backends.
THEOREM SchedType == Spec => []TypeOK
<1>1. SInv => TypeOK
  BY DEF SInv
<1> QED BY <1>1, Invariance, PTL

\* ResetMeansClean, for any graphs and plans: whoever writes into the tables
\* clears is_reset, so that reset, which skips clean tables
\* (ggml-backend.cpp:1606), leaves nothing of an earlier graph behind.
THEOREM ResetClean == Spec => []ResetMeansClean
<1>1. SInv => ResetMeansClean
  BY DEF SInv, TablesKnown, ResetMeansClean
<1> QED BY <1>1, Invariance, PTL

\* SplitsSound, for any graphs, backends and assignments: what the passes leave
\* for a backend (ggml-backend.cpp:1098) it can compute, from memory it can use.
THEOREM SplitsAreSound == Spec => []SplitsSound
<1>1. SInv => SplitsSound
  <2> SUFFICES ASSUME SInv, is_alloc PROVE SplitsSound
    BY DEF SplitsSound
  <2>1. TypeOK /\ plan \in GoodPlans /\ ~plan.abort
    BY DEF SInv, TablesKnown, GoodPlans
  <2>2. PICK ids \in Asked(G) : IsPlan(G, plan, Split(G, ids, n_copies, plan.copy))
    BY <2>1, GoodPlan
  <2>3. SoundGraph(G) /\ plan.copy \in Nat
    BY <2>1, GoodPlan, GraphFacts
  <2> HIDE DEF G
  <2>4. /\ \A x \in Tensors(G) : plan.ids[x] \in Backends
        /\ \A k, m \in DOMAIN plan.splits : k < m => SplitEnd(G, plan, k) < plan.splits[m].i_start
        /\ \A k \in DOMAIN plan.splits :
             plan.splits[k].i_start .. SplitEnd(G, plan, k) \subseteq DOMAIN G.nodes
        /\ \A i \in DOMAIN G.nodes : \E k \in DOMAIN plan.splits :
             i \in plan.splits[k].i_start .. SplitEnd(G, plan, k)
        /\ \A k \in DOMAIN plan.splits : \A i \in SplitOps(G, plan, k) :
             LET x == G.nodes[i]
                 b == plan.splits[k].backend_id
             IN  /\ b = plan.ids[x] /\ b \in CanCompute(G, x)
                 /\ \A place \in Range(plan.src[x]) : b \in CanUse(BufferAt(G, plan, place))
    BY <2>1, <2>2, <2>3, PlanSplits
  <2> QED BY <2>4, Zenon DEF SplitsSound
<1> QED BY <1>1, Invariance, PTL

\* Only alloc_graph gives a graph memory without computing it.
LEMMA AllocIsAlloc ==
  ASSUME [Next]_vars, ~is_alloc, is_alloc', gen' = gen, gen \in Nat
  PROVE  AllocGraph
<1>1. is_alloc' # is_alloc
  OBVIOUS
<1>2. ~UNCHANGED vars
  BY <1>1 DEF vars, schedVars
<1>3. ~NewGraph /\ ~Reserve /\ ~Compute /\ ~\E b \in Async : Execute(b)
  BY <1>1 DEF NewGraph, SchedReset, Reserve, Abort, Compute, Execute, schedVars
<1>4. \A x, b : ~SetTensorBackend(x, b)
  BY <1>1 DEF SetTensorBackend
<1>5. ~ComputeUnallocated
  <2> SUFFICES ASSUME ComputeUnallocated PROVE FALSE
    OBVIOUS
  <2>1. gen' = gen + 1 \/ (\E p : Abort)
    BY Zenon DEF ComputeUnallocated, Begin
  <2>2. ~Abort
    BY <1>1 DEF Abort, schedVars
  <2> QED BY <2>1, <2>2
<1>6. ~ComputeSplits
  BY <1>1 DEF ComputeSplits, CopyInput, LaunchAsync, LaunchBlocking, LaunchObserved, LaunchFails,
              FinishSplits, Synchronize, schedVars
<1> QED BY <1>2, <1>3, <1>4, <1>5, <1>6 DEF Next

\* AssignmentKept, for any graphs, backends and assignments: no pass of
\* split_graph (ggml-backend.cpp:817) moves a tensor that the user assigned, but
\* for pass 3, up to a backend with the same buffer type.
THEOREM AssignmentsKept == Spec => AssignmentKept
<1>1. ASSUME SInv, [Next]_vars, ~is_alloc, is_alloc', gen' = gen,
             NEW x \in Tensors(G), hv_ids[x] # Unassigned
      PROVE  hv_ids'[x] <= hv_ids[x] /\ bufts[hv_ids'[x]] = bufts[hv_ids[x]]
  <2>1. AllocGraph
    BY <1>1, GraphFacts, AllocIsAlloc DEF SInv
  <2>2. built = "fresh" /\ ~NewSplit(hv_ids).abort /\ hv_ids' = NewSplit(hv_ids).ids
    BY <1>1, <2>1 DEF AllocGraph, SplitGraph, Abort, schedVars
  <2>3. hv_ids \in Asked(G) /\ TypeOK
    BY <1>1, <2>2 DEF SInv, TablesKnown
  <2>4. /\ IsPlan(G, NewSplit(hv_ids), Split(G, hv_ids, n_copies, cur_copy))
        /\ SoundGraph(G) /\ cur_copy \in Nat
    BY <2>2, <2>3, NewIsGood, GraphFacts
  <2> QED BY <1>1, <2>2, <2>3, <2>4, PlanKeeps
<1>2. SInv /\ [Next]_vars =>
        [(~is_alloc /\ is_alloc' /\ gen' = gen) =>
           \A x \in Tensors(G) :
             hv_ids[x] # Unassigned =>
               hv_ids'[x] <= hv_ids[x] /\ bufts[hv_ids'[x]] = bufts[hv_ids[x]]]_vars
  BY <1>1
<1> QED BY <1>2, Invariance, PTL DEF Spec, AssignmentKept

LEMMA Shorter ==
  ASSUME NEW S, NEW s \in Seq(S), s # <<>>
  PROVE  Tail(s) # s
<1>1. PICK n \in Nat : Len(s) = n
  OBVIOUS
<1>2. Len(Tail(s)) = n - 1
  BY <1>1
<1>3. n - 1 # n
  OBVIOUS
<1> QED BY <1>1, <1>2, <1>3, Zenon

\* A host step changes a copy only by copying an input there.
LEMMA CopiesChange ==
  ASSUME SInv, [Next]_vars, phase = "splits", queue' = queue, ~CopyInput,
         NEW loc, loc.b # Own
  PROVE  Value(mem', loc) = Value(mem, loc)
<1>1. CASE mem' = mem
  BY <1>1
<1>2. CASE \E items : /\ InSplit /\ RunAll(items) /\ Len(items) \in 0 .. Len(plan.items[split])
                      /\ \A i \in 1 .. Len(items) : items[i] = plan.items[split][i]
  BY <1>2, SplitComputed
<1>3. ASSUME InSplit, NEW n \in 0 .. Len(plan.items[split]),
             RunAll(SubSeq(plan.items[split], 1, n))
      PROVE  Value(mem', loc) = Value(mem, loc)
  <2>1. plan.items[split] \in Seq(Items) /\ Len(plan.items[split]) \in Nat
    BY <1>3, AtSplit, SplitFacts DEF SInv
  <2>2. /\ Len(SubSeq(plan.items[split], 1, n)) \in 0 .. Len(plan.items[split])
        /\ \A i \in 1 .. Len(SubSeq(plan.items[split], 1, n)) :
             SubSeq(plan.items[split], 1, n)[i] = plan.items[split][i]
    BY <2>1, PrefixIs
  <2> QED BY <1>3, <2>2, SplitComputed
<1>4. CASE LaunchAsync \/ FinishSplits \/ UNCHANGED vars
  BY <1>1, <1>4 DEF LaunchAsync, FinishSplits, vars
<1>5. CASE LaunchBlocking
  <2>1. InSplit /\ RunAll(plan.items[split])
    BY <1>5 DEF LaunchBlocking, Ready
  <2>2. Len(plan.items[split]) \in 0 .. Len(plan.items[split])
    BY <2>1, AtSplit, SplitFacts DEF SInv
  <2> QED BY <1>2, <2>1, <2>2
<1>6. CASE LaunchObserved
  <2>1. InSplit
    BY <1>6 DEF LaunchObserved, Ready
  <2>2. PICK last \in 1 .. Len(plan.items[split]) : RunAll(SubSeq(plan.items[split], 1, last))
    BY <1>6 DEF LaunchObserved
  <2>3. Len(plan.items[split]) \in Nat
    BY <2>1, AtSplit, SplitFacts DEF SInv
  <2> QED BY <1>3, <2>1, <2>2, <2>3
<1>7. CASE LaunchFails
  <2>1. InSplit
    BY <1>7 DEF LaunchFails, Ready
  <2>2. PICK n \in 0 .. Len(plan.items[split]) :
          mem' = mem \/ RunAll(SubSeq(plan.items[split], 1, n))
    BY <1>7 DEF LaunchFails
  <2> QED BY <1>1, <1>3, <2>1, <2>2
<1>8. ASSUME NEW b \in Async PROVE ~Execute(b)
  <2> SUFFICES ASSUME Execute(b) PROVE FALSE
    OBVIOUS
  <2>1. queue \in [Async -> Seq(Entries)] /\ queue[b] # <<>> /\ queue[b] = Tail(queue[b])
    BY DEF Execute, SInv, Shapes
  <2>2. queue[b] \in Seq(Entries)
    BY <2>1
  <2> QED BY <2>1, <2>2, Shorter
<1>9. /\ ~NewGraph /\ ~Reserve /\ ~AllocGraph /\ ~Compute /\ ~ComputeUnallocated /\ ~Synchronize
      /\ \A x, b : ~SetTensorBackend(x, b)
  BY DEF NewGraph, Reserve, AllocGraph, Compute, ComputeUnallocated, Synchronize, SetTensorBackend
<1> QED BY <1>4, <1>5, <1>6, <1>7, <1>8, <1>9 DEF Next, ComputeSplits

\* What is copied goes where nothing that is guarded reads any more.
LEMMA CopyInputIsSafe ==
  ASSUME SInv, CopyInput, NEW b \in Async, NEW i \in 1 .. Len(queue[b]),
         NEW loc \in Range(queue[b][i].item.from), loc.b # Own,
         Value(mem, loc) # Value(mem', loc)
  PROVE  queue[b][i].gen \in excused
<1> DEFINE x == Cur.inputs[input]
           B == Cur.backend_id
<1>1. /\ InSplit /\ input <= Len(Cur.inputs) /\ CopyFree(B)
      /\ \E v : mem' = Store(mem, {CopyOf(x, B, cur_copy)}, v)
  BY DEF CopyInput
<1>2. loc = CopyOf(x, B, cur_copy)
  BY <1>1, StoreElsewhere
<1>3. loc.t = x /\ loc.b = B /\ loc.c = cur_copy
  BY <1>2 DEF CopyOf
<1>4. b = B
  BY <1>3 DEF SInv, QueueReads
<1>5. /\ plan \in GoodPlans /\ split \in 1 .. Len(plan.splits) /\ Len(plan.splits) \in Nat
      /\ n_copies \in Nat \ {0}
  BY <1>1, AtSplit, GraphFacts DEF SInv
<1>6. HasEvent(B)
  <2> SUFFICES ASSUME ~HasEvent(B) PROVE FALSE
    OBVIOUS
  <2>1. queue[b] = <<>>
    BY <1>1, <1>4 DEF CopyFree, QueueOf
  <2> QED BY <2>1
<1>7. n_copies > 1 /\ event[b][loc.c] = 0
  BY <1>1, <1>3, <1>4, <1>6 DEF HasEvent, CopyFree
<1>8. ~Pending(b, loc, queue[b][i].gen)
  <2> SUFFICES ASSUME NEW j \in 1 .. split - 1, plan.splits[j].backend_id = b,
                      loc.t \in Range(plan.splits[j].inputs)
               PROVE  FALSE
    BY DEF Pending
  <2>1. x \in Range(Cur.inputs)
    <3>1. DOMAIN Cur.inputs = 1 .. Len(Cur.inputs) /\ Len(Cur.inputs) \in Nat
      BY <1>5, SplitFacts DEF SInv, Cur
    <3>2. input \in DOMAIN Cur.inputs
      BY <1>1, <3>1 DEF SInv, TypeOK
    <3> QED BY <3>2 DEF Range
  <2>2. Range(plan.splits[j].inputs) \cap Range(Cur.inputs) = {}
    <3>1. TypeOK /\ plan.splits[j].backend_id = plan.splits[split].backend_id
      BY <1>4 DEF SInv, Cur
    <3>2. Range(plan.splits[j].inputs) \cap Range(plan.splits[split].inputs) = {}
      BY <1>5, <3>1, SplitFacts
    <3> QED BY <3>2 DEF Cur
  <2> QED BY <1>3, <2>1, <2>2
<1>9. ~(i <= event[b][loc.c])
  BY <1>7
<1> QED BY <1>7, <1>8, <1>9 DEF SInv, Guarded

\* CopyNotInUse, for any graphs, backends, copies and plans: the host does not
\* overwrite a copy that a queued operation is still to read, whatever it does
\* between the wait for an event (ggml-backend.cpp:1371) and the next one.
THEOREM CopiesKept == Spec => CopyNotInUse
<1>1. ASSUME SInv, [Next]_vars, phase = "splits", queue' = queue,
             NEW b \in Async, NEW q \in Range(queue[b]),
             NEW loc \in Range(q.item.from), loc.b # Own, Value(mem, loc) # Value(mem', loc)
      PROVE  q.gen \in excused
  <2>1. CopyInput
    BY <1>1, CopiesChange
  <2>2. PICK i \in 1 .. Len(queue[b]) : q = queue[b][i]
    BY <1>1, QueueFacts DEF SInv, Range
  <2> QED BY <1>1, <2>1, <2>2, CopyInputIsSafe
<1>2. SInv /\ [Next]_vars =>
        [(phase = "splits" /\ queue' = queue) =>
           \A b \in Async : \A q \in Range(queue[b]) :
             \A loc \in Range(q.item.from) :
               loc.b # Own /\ Value(mem, loc) # Value(mem', loc) => q.gen \in excused]_vars
  BY <1>1
<1> QED BY <1>2, Invariance, PTL DEF Spec, CopyNotInUse
=============================================================================
