---------------------------- MODULE SplitProofs -----------------------------
(* Proofs, checked by TLAPS, about the passes of split_graph for any graph   *)
(* that satisfies SoundGraph and any number of backends: what they assign,   *)
(* where they cut, what they copy, and, for graphs in order and backends     *)
(* whose queues have memory of their own, what the operations find there.    *)
EXTENDS Sched, FiniteSetTheorems, SequenceTheorems, WellFoundedInduction, TLAPS

-----------------------------------------------------------------------------
(* Loops.                                                                    *)

LEMMA Least ==
  ASSUME NEW T \in SUBSET Nat, T # {}
  PROVE  \E x \in T : \A y \in T : x <= y
<1> DEFINE R == OpToRel(<, Nat)
<1>1. IsWellFoundedOn(R, Nat)
  BY NatLessThanWellFounded
<1> HIDE DEF R
<1>2. PICK x \in T : \A y \in T : ~ (<<y, x>> \in R)
  BY <1>1, WFMin
<1>3. \A y \in Nat : y < x => <<y, x>> \in R
  BY DEF R, OpToRel
<1>4. ASSUME NEW y \in T PROVE x <= y
  <2>1. x \in Nat /\ y \in Nat
    OBVIOUS
  <2>2. ~(y < x)
    BY <1>2, <1>3, <2>1
  <2> QED BY <2>1, <2>2
<1> QED BY <1>4

\* What holds before a loop and after each of its turns.
LEMMA Induct ==
  ASSUME NEW N \in Nat, NEW T, 0 \in T, \A i \in 1 .. N : i - 1 \in T => i \in T
  PROVE  0 .. N \subseteq T
<1> DEFINE Bad == {n \in 0 .. N : n \notin T}
<1>1. Bad = {}
  <2> SUFFICES ASSUME Bad # {} PROVE FALSE
    OBVIOUS
  <2>1. PICK n \in Bad : \A y \in Bad : n <= y
    <3>1. Bad \in SUBSET Nat /\ Bad # {}
      OBVIOUS
    <3> HIDE DEF Bad
    <3> QED BY <3>1, Least
  <2>2. n \in 1 .. N /\ n \notin T
    OBVIOUS
  <2>3. n - 1 \notin Bad /\ n - 1 \in 0 .. N
    <3> HIDE DEF Bad
    <3> QED BY <2>1, <2>2
  <2> QED BY <2>2, <2>3
<1> QED BY <1>1

LEMMA Stays ==
  ASSUME NEW N \in Nat, NEW S, NEW f, f[0] \in S[0],
         \A i \in 1 .. N : f[i - 1] \in S[i - 1] => f[i] \in S[i]
  PROVE  \A i \in 0 .. N : f[i] \in S[i]
<1> DEFINE T == {i \in 0 .. N : f[i] \in S[i]}
<1>1. 0 \in T /\ \A i \in 1 .. N : i - 1 \in T => i \in T
  OBVIOUS
<1>2. 0 .. N \subseteq T
  <2> HIDE DEF T
  <2> QED BY <1>1, Induct
<1> QED BY <1>2

\* A loop of n turns, of which H[i] is turn i, and what it has made after each.
Turns(H, n, S) == \A i \in 1 .. n : \A e \in S[i - 1] : H[i][e] \in S[i]
TurnsIn(H, n, E) == \A i \in 1 .. n : \A e \in E : H[i][e] \in E
Made(H, n, base, f) == f[0] = base /\ \A i \in 1 .. n : f[i] = H[i][f[i - 1]]

\* The function by which a loop is defined exists, where S[i] has what the loop
\* can have made after i turns: if not, there would be a shortest loop.
LEMMA Loop ==
  ASSUME NEW N \in Nat, NEW S, NEW base \in S[0], NEW H, Turns(H, N, S)
  PROVE  \E f : Made(H, N, base, f) /\ \A i \in 0 .. N : f[i] \in S[i]
<1> DEFINE T == {n \in Nat : \E f : Made(H, n, base, f)}
<1>1. 0 \in T
  <2> DEFINE f == [i \in 0 .. 0 |-> base]
  <2>1. Made(H, 0, base, f)
    BY DEF Made
  <2> QED BY <2>1
<1>2. ASSUME NEW n \in 1 .. N, n - 1 \in T PROVE n \in T
  <2>1. PICK f : Made(H, n - 1, base, f)
    BY <1>2
  <2> DEFINE e == [i \in 0 .. n |-> IF i = n THEN H[n][f[n - 1]] ELSE f[i]]
  <2>2. e[0] = base
    BY <2>1 DEF Made
  <2>3. ASSUME NEW i \in 1 .. n PROVE e[i] = H[i][e[i - 1]]
    <3>1. e[i - 1] = f[i - 1]
      BY <2>1
    <3>2. CASE i = n
      BY <3>1, <3>2
    <3>3. CASE i # n
      <4>1. i \in 1 .. n - 1
        BY <3>3
      <4> QED BY <2>1, <3>1, <4>1 DEF Made
    <3> QED BY <3>2, <3>3
  <2> HIDE DEF e
  <2>4. Made(H, n, base, e)
    BY <2>2, <2>3 DEF Made
  <2> QED BY <2>4
<1>3. N \in T
  <2> HIDE DEF T
  <2>1. 0 .. N \subseteq T
    BY <1>1, <1>2, Induct
  <2> QED BY <2>1
<1>4. PICK f : Made(H, N, base, f)
  BY <1>3
<1>5. \A i \in 0 .. N : f[i] \in S[i]
  <2>1. \A i \in 1 .. N : f[i - 1] \in S[i - 1] => f[i] \in S[i]
    BY <1>4 DEF Made, Turns
  <2>2. f[0] \in S[0]
    BY <1>4 DEF Made
  <2> QED BY <2>1, <2>2, Stays
<1> QED BY <1>4, <1>5

\* The same where it is always in one set.
LEMMA LoopIn ==
  ASSUME NEW N \in Nat, NEW E, NEW base \in E, NEW H, TurnsIn(H, N, E)
  PROVE  \E f : Made(H, N, base, f) /\ \A i \in 0 .. N : f[i] \in E
<1> DEFINE S == [i \in 0 .. N |-> E]
<1>1. base \in S[0]
  OBVIOUS
<1>2. \A i \in 0 .. N : S[i] = E
  OBVIOUS
<1> HIDE DEF S
<1>3. Turns(H, N, S)
  <2> SUFFICES ASSUME NEW i \in 1 .. N, NEW e \in S[i - 1] PROVE H[i][e] \in S[i]
    BY DEF Turns
  <2>1. S[i] = E /\ S[i - 1] = E
    BY <1>2
  <2> QED BY <2>1 DEF TurnsIn
<1>4. PICK f : Made(H, N, base, f) /\ \A i \in 0 .. N : f[i] \in S[i]
  BY <1>1, <1>3, Loop
<1> QED BY <1>2, <1>4

LEMMA StaysIn ==
  ASSUME NEW N \in Nat, NEW E, NEW f, f[0] \in E, \A i \in 1 .. N : f[i - 1] \in E => f[i] \in E
  PROVE  \A i \in 0 .. N : f[i] \in E
<1> DEFINE S == [i \in 0 .. N |-> E]
<1>1. f[0] \in S[0] /\ \A i \in 1 .. N : f[i - 1] \in S[i - 1] => f[i] \in S[i]
  OBVIOUS
<1>2. \A i \in 0 .. N : S[i] = E
  OBVIOUS
<1> HIDE DEF S
<1> QED BY <1>1, <1>2, Stays

LEMMA TableIs ==
  ASSUME NEW f
  PROVE  Table(f) = f
BY DEF Table

-----------------------------------------------------------------------------
(* Graphs and backends.                                                      *)

LEMMA BackendFacts ==
  /\ Backends \subseteq Nat /\ Unassigned = -1 /\ Own = -1 /\ CPU \in Backends
  /\ Unassigned \notin Backends /\ Own \notin Backends
  /\ MaxSplitInputs \in Nat \ {0}
  /\ \A b \in Backends : b \in CanUse(bufts[b])
<1>1. n_backends \in Nat \ {0} /\ Backends = 0 .. n_backends - 1
  BY SchedAssumption DEF Backends
<1>2. \A b \in Backends : b \in CanUse(bufts[b])
  BY SchedAssumption DEF CanUse
<1> QED BY <1>1, <1>2, SchedAssumption DEF Unassigned, Own, CPU

\* The backend of highest priority is one of the set.
LEMMA HighestIs ==
  ASSUME NEW S \in SUBSET Backends
  PROVE  /\ S = {} => Highest(S) = Unassigned
         /\ S # {} => Highest(S) \in S /\ Highest(S) = Min(S) /\ \A b \in S : Highest(S) <= b
<1>1. CASE S = {}
  BY <1>1 DEF Highest
<1>2. CASE S # {}
  <2>1. \E x \in S : \A y \in S : x <= y
    BY <1>2, BackendFacts, Least
  <2>2. Min(S) \in S /\ \A y \in S : Min(S) <= y
    BY <2>1 DEF Min
  <2> QED BY <1>2, <2>2 DEF Highest
<1> QED BY <1>1, <1>2

LEMMA Able ==
  ASSUME NEW g, NEW x, NEW buft
  PROVE  CanCompute(g, x) \subseteq Backends /\ CanUse(buft) \subseteq Backends
BY DEF CanCompute, CanUse

\* What a graph is made of.
LEMMA GraphIs ==
  ASSUME NEW g, SoundGraph(g)
  PROVE  /\ g.nodes \in Seq(Tensors(g)) /\ Len(g.nodes) \in Nat
         /\ DOMAIN g.nodes = 1 .. Len(g.nodes)
         /\ \A i \in 1 .. Len(g.nodes) : g.nodes[i] \in Tensors(g)
         /\ Tensors(g) = Range(g.nodes) \cup Range(g.leafs)
         /\ OpNodes(g) \subseteq Tensors(g)
         /\ \A x \in Tensors(g) :
              /\ g.t[x].src \in Seq(Tensors(g)) /\ Len(g.t[x].src) \in Nat
              /\ DOMAIN g.t[x].src = 1 .. Len(g.t[x].src)
              /\ \A j \in 1 .. Len(g.t[x].src) : g.t[x].src[j] \in Tensors(g)
<1>1. g.nodes \in Seq(Tensors(g)) /\ Tensors(g) = Range(g.nodes) \cup Range(g.leafs)
      /\ \A x \in Tensors(g) : g.t[x].src \in Seq(Tensors(g))
  BY Zenon DEF SoundGraph
<1>2. OpNodes(g) \subseteq Tensors(g)
  BY <1>1 DEF OpNodes
<1> QED BY <1>1, <1>2

\* Views are of tensors that are none.
LEMMA BaseIs ==
  ASSUME NEW g, SoundGraph(g), NEW x \in Tensors(g)
  PROVE  /\ Base(g, x) \in Tensors(g) /\ Base(g, Base(g, x)) = Base(g, x)
         /\ g.t[Base(g, x)].view_src = None
         /\ g.t[x].view_src = None => Base(g, x) = x
         /\ Preallocated(g, Base(g, x)) <=> Preallocated(g, x)
         /\ g.t[x].weights => Preallocated(g, x)
<1>1. g.t[x].view_src # None => g.t[x].view_src \in Tensors(g)
                                /\ g.t[g.t[x].view_src].view_src = None
  BY Zenon DEF SoundGraph
<1>2. g.t[x].weights => Preallocated(g, x)
  BY Zenon DEF SoundGraph
<1> QED BY <1>1, <1>2 DEF Base, Preallocated

\* The views that the scheduler has to assign.
View(g, x) == g.t[x].view_src # None /\ ~Preallocated(g, x)

LEMMA ViewIs ==
  ASSUME NEW g, SoundGraph(g), NEW x \in Tensors(g), View(g, x)
  PROVE  /\ ViewOp(g, x) /\ x \notin OpNodes(g) /\ ~g.t[x].input
         /\ \A s \in Sources(g, x) : ~g.t[s].weights
<1>1. /\ ViewOp(g, x) \/ Preallocated(g, x)
      /\ ~g.t[x].input
      /\ \A s \in Sources(g, x) : ViewOp(g, x) => Base(g, s) = Base(g, x)
  BY Zenon DEF SoundGraph, View
<1>2. ViewOp(g, x)
  BY <1>1 DEF View
<1>3. ASSUME NEW s \in Sources(g, x), g.t[s].weights PROVE FALSE
  <2>1. s \in Tensors(g)
    BY GraphIs DEF Sources, Range
  <2>2. Preallocated(g, s) /\ Base(g, s) = Base(g, x)
    BY <1>1, <1>2, <1>3, <2>1, BaseIs
  <2> QED BY <2>2 DEF View, Preallocated
<1> QED BY <1>1, <1>2, <1>3 DEF OpNodes

-----------------------------------------------------------------------------
(* Passes 1 to 4: the assignment.                                            *)

\* What holds of the ids of backends from pass 1 on: the user's assignments are
\* kept or moved to a higher priority with the same buffer type; an operation is
\* with a backend that can compute it; what has memory is assigned to a backend
\* that can use it, and what the user flagged to some backend, the CPU by default.
Assigning(g, asked, ids) ==
  /\ ids \in [Tensors(g) -> Backends \cup {Unassigned}]
  /\ \A x \in Tensors(g) : asked[x] # Unassigned =>
       /\ asked[x] \in Backends /\ ids[x] \in Backends
       /\ ids[x] <= asked[x] /\ bufts[ids[x]] = bufts[asked[x]]
  /\ \A x \in OpNodes(g) : ids[x] # Unassigned => ids[x] \in CanCompute(g, x)
  /\ \A x \in Tensors(g) : Preallocated(g, x) => ids[x] \in CanUse(g.t[Base(g, x)].buffer)
  /\ \A x \in Tensors(g) : g.t[x].input => ids[x] \in Backends
  /\ \A x \in Tensors(g) \ OpNodes(g) :
       g.t[x].input /\ ~Preallocated(g, x) /\ asked[x] = Unassigned => ids[x] = CPU

\* Views are unassigned until pass 4, then with what they view.
ViewsWait(g, ids) == \A x \in Tensors(g) : View(g, x) => ids[x] = Unassigned
ViewsFollow(g, ids) ==
  \A x \in Tensors(g) : View(g, x) => ids[x] \in {Unassigned, ids[Base(g, x)]}

\* The assignments that can come about by set_tensor_backend.
LEMMA AskedIs ==
  ASSUME NEW g, g.asks \subseteq Tensors(g) \X Backends
  PROVE  Asked(g) = {ids \in [Tensors(g) -> Backends \cup {Unassigned}] :
                       \A x \in Tensors(g) : ids[x] # Unassigned => <<x, ids[x]>> \in g.asks}
<1> DEFINE D == {a[1] : a \in g.asks}
           T == Tensors(g)
           B == Backends \cup {Unassigned}
           H == {h \in [D -> B] : \A x \in D : h[x] # Unassigned => <<x, h[x]>> \in g.asks}
           F(f) == [x \in T |-> IF x \in DOMAIN f THEN f[x] ELSE Unassigned]
           R == {ids \in [T -> B] : \A x \in T : ids[x] # Unassigned => <<x, ids[x]>> \in g.asks}
<1>1. Asked(g) = {F(f) : f \in H}
  <2>1. \A h \in [D -> B] : DOMAIN h = D
    OBVIOUS
  <2>2. H = {h \in [D -> B] :
               \A x \in DOMAIN h : h[x] # Unassigned => <<x, h[x]>> \in g.asks}
    BY <2>1
  <2> QED BY <2>2 DEF Asked
<1>2. D \subseteq T
  OBVIOUS
<1>3. ASSUME NEW f \in H PROVE F(f) \in R
  OBVIOUS
<1>4. ASSUME NEW ids \in R PROVE \E f \in H : ids = F(f)
  <2> DEFINE f == [x \in D |-> ids[x]]
  <2>1. f \in H
    BY <1>2
  <2>2. \A x \in T \ D : ids[x] = Unassigned
    <3> SUFFICES ASSUME NEW x \in T, ids[x] # Unassigned PROVE x \in D
      OBVIOUS
    <3>1. <<x, ids[x]>> \in g.asks
      OBVIOUS
    <3>2. <<x, ids[x]>>[1] = x
      OBVIOUS
    <3> QED BY <3>1, <3>2
  <2>3. ids = F(f)
    BY <1>2, <2>2
  <2> QED BY <2>1, <2>3
<1>5. Asked(g) = R
  <2> HIDE DEF F, H, R
  <2> QED BY <1>1, <1>3, <1>4
<1> QED BY <1>5

\* A user assigns what can be computed there, has no memory and is no view.
LEMMA AskedAllowed ==
  ASSUME NEW g, SoundGraph(g), NEW asked \in Asked(g)
  PROVE  /\ asked \in [Tensors(g) -> Backends \cup {Unassigned}]
         /\ \A x \in Tensors(g) : asked[x] # Unassigned =>
              asked[x] \in CanCompute(g, x) /\ ~View(g, x) /\ ~Preallocated(g, x)
<1>1. g.asks \subseteq Tensors(g) \X Backends
      /\ \A ask \in g.asks : /\ ask[2] \in CanCompute(g, ask[1])
                             /\ g.t[ask[1]].view_src = None /\ ~Preallocated(g, ask[1])
  BY Zenon DEF SoundGraph
<1>2. /\ asked \in [Tensors(g) -> Backends \cup {Unassigned}]
      /\ \A x \in Tensors(g) : asked[x] # Unassigned => <<x, asked[x]>> \in g.asks
  BY <1>1, AskedIs
<1>3. ASSUME NEW x \in Tensors(g), asked[x] # Unassigned
      PROVE  asked[x] \in CanCompute(g, x) /\ ~View(g, x) /\ ~Preallocated(g, x)
  <2>1. <<x, asked[x]>> \in g.asks
    BY <1>2, <1>3
  <2>2. <<x, asked[x]>>[1] = x /\ <<x, asked[x]>>[2] = asked[x]
    OBVIOUS
  <2> QED BY <1>1, <2>1, <2>2 DEF View
<1> QED BY <1>2, <1>3

\* What a tensor asks for by where it is.
LEMMA CurIs ==
  ASSUME NEW g, SoundGraph(g), NEW x \in Tensors(g)
  PROVE  LET b == BackendIdFromCur(g, x)
         IN  /\ b \in Backends \cup {Unassigned}
             /\ Preallocated(g, x) => b = BackendFromBuffer(g, x, x)
             /\ ~Preallocated(g, x) /\ g.t[x].input => b = CPU
             /\ ~Preallocated(g, x) /\ ~g.t[x].input => b \in CanCompute(g, x) \cup {Unassigned}
             /\ View(g, x) => b = Unassigned
<1> DEFINE src == g.t[x].src
           weights == {j \in DOMAIN src : g.t[src[j]].weights /\ g.t[x].op # "rope"}
           b == BackendIdFromCur(g, x)
<1>1. b = CASE Preallocated(g, x) -> BackendFromBuffer(g, x, x)
            [] ~Preallocated(g, x) /\ g.t[x].input -> CPU
            [] ~Preallocated(g, x) /\ ~g.t[x].input /\ weights # {} ->
                 WeightBackend(g, x, src[Min(weights)])
            [] OTHER -> Unassigned
  BY DEF BackendIdFromCur
<1>2. \A w, y : BackendFromBuffer(g, w, y) \in CanCompute(g, y) \cup {Unassigned}
  <2> TAKE w, y
  <2>1. CanUse(g.t[Base(g, w)].buffer) \cap CanCompute(g, y) \in SUBSET Backends
    BY Able
  <2> QED BY <2>1, HighestIs DEF BackendFromBuffer
<1>3. \A w : WeightBackend(g, x, w) \in CanCompute(g, x) \cup {Unassigned}
  <2> TAKE w
  <2> DEFINE home == BackendFromBuffer(g, w, x)
             takers == {a \in CanCompute(g, x) : a < home /\ g.t[x].op \in offload_op[a]}
  <2>1. takers \in SUBSET Backends
    BY Able
  <2>2. WeightBackend(g, x, w) # home => takers # {} /\ WeightBackend(g, x, w) = Min(takers)
    <3>1. WeightBackend(g, x, w) = IF home = CPU /\ g.t[w].buffer \in HostBufts /\ takers # {}
                                     THEN Min(takers) ELSE home
      BY DEF WeightBackend
    <3> HIDE DEF takers, home
    <3> QED BY <3>1
  <2>3. takers # {} => Min(takers) \in takers
    <3> HIDE DEF takers
    <3> QED BY <2>1, HighestIs
  <2>4. home \in CanCompute(g, x) \cup {Unassigned}
    BY <1>2
  <2> QED BY <2>2, <2>3, <2>4
<1>4. CanCompute(g, x) \subseteq Backends
  BY Able
<1>5. View(g, x) => ~Preallocated(g, x) /\ ~g.t[x].input /\ weights = {}
  <2> SUFFICES ASSUME View(g, x) PROVE ~Preallocated(g, x) /\ ~g.t[x].input /\ weights = {}
    OBVIOUS
  <2>1. \A j \in DOMAIN src : src[j] \in Sources(g, x)
    BY DEF Sources, Range
  <2> QED BY <2>1, ViewIs DEF View
<1>6. CASE Preallocated(g, x)
  <2>1. b = BackendFromBuffer(g, x, x)
    BY <1>1, <1>6
  <2> QED BY <2>1, <1>2, <1>4, <1>5, <1>6
<1>7. CASE ~Preallocated(g, x) /\ g.t[x].input
  <2>1. b = CPU
    BY <1>1, <1>7
  <2> QED BY <2>1, <1>5, <1>7, BackendFacts
<1>8. CASE ~Preallocated(g, x) /\ ~g.t[x].input /\ weights # {}
  <2>1. b = WeightBackend(g, x, src[Min(weights)])
    BY <1>1, <1>8
  <2> QED BY <2>1, <1>3, <1>4, <1>5, <1>8
<1>9. CASE ~Preallocated(g, x) /\ ~g.t[x].input /\ weights = {}
  <2>1. b = Unassigned
    BY <1>1, <1>9
  <2> QED BY <2>1, <1>9
<1> QED BY <1>6, <1>7, <1>8, <1>9

LEMMA Pass1Assigns ==
  ASSUME NEW g, SoundGraph(g), NEW asked \in Asked(g), ~Misplaced(g, asked)
  PROVE  Assigning(g, asked, Pass1(g, asked)) /\ ViewsWait(g, Pass1(g, asked))
<1> DEFINE ids == Pass1(g, asked)
<1>1. ids = [x \in Tensors(g) |->
               IF asked[x] = Unassigned /\ x \in Range(g.leafs) \cup Range(g.nodes)
                 THEN BackendIdFromCur(g, x) ELSE asked[x]]
  BY TableIs DEF Pass1
<1>2. Tensors(g) = Range(g.leafs) \cup Range(g.nodes)
  BY GraphIs
<1>3. \A x \in Tensors(g) :
        /\ asked[x] = Unassigned => ids[x] = BackendIdFromCur(g, x)
        /\ asked[x] # Unassigned => ids[x] = asked[x]
  BY <1>1, <1>2
<1>4. DOMAIN ids = Tensors(g) /\ ids = [x \in Tensors(g) |-> ids[x]]
  BY <1>1
<1> HIDE DEF ids
<1>5. ASSUME NEW x \in Tensors(g), asked[x] # Unassigned
      PROVE  /\ asked[x] \in Backends /\ ids[x] \in Backends /\ ids[x] \in CanCompute(g, x)
             /\ ids[x] <= asked[x] /\ bufts[ids[x]] = bufts[asked[x]]
             /\ ~View(g, x) /\ ~Preallocated(g, x)
  <2>1. asked[x] \in CanCompute(g, x) /\ ~View(g, x) /\ ~Preallocated(g, x)
    BY <1>5, AskedAllowed
  <2>2. asked[x] \in Nat /\ asked[x] \in Backends
    BY <2>1, Able, BackendFacts
  <2> QED BY <1>3, <1>5, <2>1, <2>2
<1>6. ASSUME NEW x \in Tensors(g), asked[x] = Unassigned
      PROVE  /\ ids[x] \in Backends \cup {Unassigned}
             /\ Preallocated(g, x) => ids[x] \in CanUse(g.t[Base(g, x)].buffer)
                                      /\ ids[x] \in CanCompute(g, x) /\ ids[x] \in Backends
             /\ ~Preallocated(g, x) /\ g.t[x].input => ids[x] = CPU
             /\ ~Preallocated(g, x) /\ ~g.t[x].input => ids[x] \in CanCompute(g, x) \cup {Unassigned}
             /\ View(g, x) => ids[x] = Unassigned
  <2>1. ids[x] = BackendIdFromCur(g, x)
    BY <1>3, <1>6
  <2>2. ASSUME Preallocated(g, x)
        PROVE  ids[x] \in CanUse(g.t[Base(g, x)].buffer)
               /\ ids[x] \in CanCompute(g, x) /\ ids[x] \in Backends
    <3> DEFINE S == CanUse(g.t[Base(g, x)].buffer) \cap CanCompute(g, x)
    <3>1. ids[x] = Highest(S)
      BY <2>1, <2>2, CurIs DEF BackendFromBuffer
    <3>2. ids[x] # Unassigned
      <4>1. BackendFromBuffer(g, x, x) # Unassigned
        BY <1>2, <1>6, <2>2 DEF Misplaced
      <4> QED BY <3>1, <4>1 DEF BackendFromBuffer
    <3>3. S \in SUBSET Backends
      BY Able
    <3> HIDE DEF S
    <3>4. ids[x] \in S
      BY <3>1, <3>2, <3>3, HighestIs
    <3> QED BY <3>3, <3>4 DEF S
  <2> QED BY <2>1, <2>2, CurIs
<1>7. ids \in [Tensors(g) -> Backends \cup {Unassigned}]
  <2>1. \A x \in Tensors(g) : ids[x] \in Backends \cup {Unassigned}
    BY <1>5, <1>6
  <2> QED BY <1>4, <2>1
<1>8. \A x \in OpNodes(g) : x \in Tensors(g) /\ CPU \in CanCompute(g, x)
  BY GraphIs, Zenon DEF SoundGraph
<1>9. ASSUME NEW x \in OpNodes(g), ids[x] # Unassigned PROVE ids[x] \in CanCompute(g, x)
  BY <1>5, <1>6, <1>8, <1>9
<1>10. ASSUME NEW x \in Tensors(g), Preallocated(g, x)
       PROVE  ids[x] \in CanUse(g.t[Base(g, x)].buffer)
  BY <1>5, <1>6, <1>10
<1>11. ASSUME NEW x \in Tensors(g), g.t[x].input PROVE ids[x] \in Backends
  BY <1>5, <1>6, <1>11, BackendFacts
<1>12. ViewsWait(g, ids)
  BY <1>5, <1>6 DEF ViewsWait
<1>13. \A x \in Tensors(g) \ OpNodes(g) :
         g.t[x].input /\ ~Preallocated(g, x) /\ asked[x] = Unassigned => ids[x] = CPU
  BY <1>6
<1>14. Assigning(g, asked, ids)
  BY <1>5, <1>7, <1>9, <1>10, <1>11, <1>13 DEF Assigning
<1> QED BY <1>12, <1>14 DEF ids

\* An operation gets a backend, or a better one.
LEMMA SetKeeps ==
  ASSUME NEW g, SoundGraph(g), NEW asked, NEW ids,
         Assigning(g, asked, ids), ViewsWait(g, ids),
         NEW x \in OpNodes(g), NEW b \in CanCompute(g, x),
         ids[x] # Unassigned => b <= ids[x] /\ bufts[b] = bufts[ids[x]]
  PROVE  LET new == [ids EXCEPT ![x] = b]
         IN  Assigning(g, asked, new) /\ ViewsWait(g, new)
<1> DEFINE new == [ids EXCEPT ![x] = b]
<1>1. x \in Tensors(g) /\ b \in Backends /\ ids \in [Tensors(g) -> Backends \cup {Unassigned}]
  BY GraphIs, Able DEF Assigning
<1>2. new[x] = b /\ new \in [Tensors(g) -> Backends \cup {Unassigned}]
      /\ \A y \in Tensors(g) : y # x => new[y] = ids[y]
  BY <1>1
<1> HIDE DEF new
<1>3. ASSUME NEW y \in Tensors(g), asked[y] # Unassigned
      PROVE  /\ asked[y] \in Backends /\ new[y] \in Backends
             /\ new[y] <= asked[y] /\ bufts[new[y]] = bufts[asked[y]]
  <2>1. /\ asked[y] \in Backends /\ ids[y] \in Backends
        /\ ids[y] <= asked[y] /\ bufts[ids[y]] = bufts[asked[y]]
    BY <1>3 DEF Assigning
  <2>2. CASE y # x
    BY <1>2, <2>1, <2>2
  <2>3. CASE y = x
    <3>1. ids[x] # Unassigned
      BY <2>1, <2>3, BackendFacts
    <3>2. b <= asked[y]
      <4>1. b <= ids[x] /\ ids[x] <= asked[x]
        BY <2>1, <2>3, <3>1
      <4>2. b \in Nat /\ ids[x] \in Nat /\ asked[x] \in Nat
        BY <1>1, <2>1, <2>3, BackendFacts
      <4> QED BY <2>3, <4>1, <4>2
    <3> QED BY <1>1, <1>2, <2>1, <2>3, <3>1, <3>2
  <2> QED BY <2>2, <2>3
<1>4. ASSUME NEW y \in OpNodes(g), new[y] # Unassigned PROVE new[y] \in CanCompute(g, y)
  <2>1. y \in Tensors(g) /\ (ids[y] # Unassigned => ids[y] \in CanCompute(g, y))
    BY GraphIs DEF Assigning
  <2> QED BY <1>2, <1>4, <2>1
<1>5. ASSUME NEW y \in Tensors(g), Preallocated(g, y)
      PROVE  new[y] \in CanUse(g.t[Base(g, y)].buffer)
  <2>1. ids[y] \in CanUse(g.t[Base(g, y)].buffer)
    BY <1>5 DEF Assigning
  <2>2. CASE y # x
    BY <1>2, <2>1, <2>2
  <2>3. CASE y = x
    <3>1. ids[x] \in Backends /\ ids[x] # Unassigned
      BY <2>1, <2>3, Able, BackendFacts
    <3>2. \A a, c \in Backends : bufts[a] = bufts[c] /\ a \in CanUse(g.t[Base(g, x)].buffer)
                                   => c \in CanUse(g.t[Base(g, x)].buffer)
      BY <1>5, <2>3, Zenon DEF SoundGraph
    <3> QED BY <1>1, <1>2, <2>1, <2>3, <3>1, <3>2
  <2> QED BY <2>2, <2>3
<1>6. ASSUME NEW y \in Tensors(g), g.t[y].input PROVE new[y] \in Backends
  BY <1>1, <1>2, <1>6 DEF Assigning
<1>7. ViewsWait(g, new)
  <2> SUFFICES ASSUME NEW y \in Tensors(g), View(g, y) PROVE new[y] = Unassigned
    BY DEF ViewsWait
  <2>1. y # x
    BY ViewIs
  <2> QED BY <1>2, <2>1 DEF ViewsWait
<1>8. \A y \in Tensors(g) \ OpNodes(g) :
        g.t[y].input /\ ~Preallocated(g, y) /\ asked[y] = Unassigned => new[y] = CPU
  BY <1>2 DEF Assigning
<1> QED BY <1>2, <1>3, <1>4, <1>5, <1>6, <1>7, <1>8 DEF Assigning, new

\* What the loops of pass 2 go through.
Expanding(g, asked) ==
  {acc \in [cur : Backends \cup {Unassigned}, ids : [Tensors(g) -> Backends \cup {Unassigned}]] :
     Assigning(g, asked, acc.ids) /\ ViewsWait(g, acc.ids)}

LEMMA ExpandToKeeps ==
  ASSUME NEW g, SoundGraph(g), NEW asked, NEW skip \in BOOLEAN,
         NEW acc \in Expanding(g, asked), NEW i \in 1 .. Len(g.nodes), NEW x, x = g.nodes[i]
  PROVE  ExpandTo(g, skip, acc, x) \in Expanding(g, asked)
<1>1. /\ acc \in [cur : Backends \cup {Unassigned}, ids : [Tensors(g) -> Backends \cup {Unassigned}]]
      /\ Assigning(g, asked, acc.ids) /\ ViewsWait(g, acc.ids)
  BY DEF Expanding
<1>2. x \in Tensors(g) /\ (~ViewOp(g, x) => x \in OpNodes(g))
  BY GraphIs DEF OpNodes, Range
<1>3. CASE ViewOp(g, x)
  BY <1>3 DEF ExpandTo
<1>4. CASE ~ViewOp(g, x) /\ acc.ids[x] # Unassigned
  <2> DEFINE v == IF skip /\ acc.ids[x] = CPU THEN Unassigned ELSE acc.ids[x]
  <2>1. ExpandTo(g, skip, acc, x) = [acc EXCEPT !.cur = v]
    BY <1>4 DEF ExpandTo
  <2>2. v \in Backends \cup {Unassigned}
    BY <1>1, <1>2
  <2> HIDE DEF v
  <2>3. [acc EXCEPT !.cur = v].ids = acc.ids /\ [acc EXCEPT !.cur = v] \in
          [cur : Backends \cup {Unassigned}, ids : [Tensors(g) -> Backends \cup {Unassigned}]]
    BY <1>1, <2>2
  <2> QED BY <1>1, <2>1, <2>3 DEF Expanding
<1>5. CASE ~ViewOp(g, x) /\ acc.ids[x] = Unassigned /\ acc.cur \in CanCompute(g, x)
  <2> DEFINE new == [acc.ids EXCEPT ![x] = acc.cur]
  <2>1. ExpandTo(g, skip, acc, x) = [acc EXCEPT !.ids[x] = acc.cur]
    BY <1>5 DEF ExpandTo
  <2>2. [acc EXCEPT !.ids[x] = acc.cur] = [acc EXCEPT !.ids = new]
    BY <1>1
  <2>3. Assigning(g, asked, new) /\ ViewsWait(g, new)
    BY <1>1, <1>2, <1>5, SetKeeps
  <2>4. new \in [Tensors(g) -> Backends \cup {Unassigned}]
    BY <2>3 DEF Assigning
  <2> HIDE DEF new
  <2>5. [acc EXCEPT !.ids = new].ids = new /\ [acc EXCEPT !.ids = new] \in
          [cur : Backends \cup {Unassigned}, ids : [Tensors(g) -> Backends \cup {Unassigned}]]
    BY <1>1, <2>4
  <2> QED BY <2>1, <2>2, <2>3, <2>5 DEF Expanding
<1>6. CASE ~ViewOp(g, x) /\ acc.ids[x] = Unassigned /\ acc.cur \notin CanCompute(g, x)
  BY <1>6 DEF ExpandTo
<1> QED BY <1>3, <1>4, <1>5, <1>6

LEMMA ExpandKeeps ==
  ASSUME NEW g, SoundGraph(g), NEW asked, NEW skip \in BOOLEAN, NEW ids,
         Assigning(g, asked, ids), ViewsWait(g, ids),
         NEW order \in {g.nodes, Reverse(g.nodes)}
  PROVE  LET new == Expand(g, order, skip, ids)
         IN  Assigning(g, asked, new) /\ ViewsWait(g, new)
<1> DEFINE N == Len(g.nodes)
           E == Expanding(g, asked)
           base == [cur |-> Unassigned, ids |-> ids]
           F(f) == [i \in 0 .. Len(order) |->
                      IF i = 0 THEN base ELSE ExpandTo(g, skip, f[i - 1], order[i])]
           after == CHOOSE f : f = F(f)
<1>1. N \in Nat /\ Len(order) = N /\ \A i \in 1 .. N : \E k \in 1 .. N : order[i] = g.nodes[k]
  <2>1. N \in Nat /\ g.nodes \in Seq(Tensors(g))
    BY GraphIs
  <2>2. CASE order = g.nodes
    BY <2>1, <2>2
  <2>3. CASE order = Reverse(g.nodes)
    <3>1. order = [i \in 1 .. N |-> g.nodes[(N - i) + 1]]
      BY <2>3 DEF Reverse
    <3>2. Len(order) = N
      BY <2>1, <3>1
    <3>3. ASSUME NEW i \in 1 .. N PROVE order[i] = g.nodes[(N - i) + 1] /\ (N - i) + 1 \in 1 .. N
      BY <2>1, <3>1
    <3> QED BY <2>1, <3>2, <3>3
  <2> QED BY <2>2, <2>3
<1>2. base \in E
  <2>1. ids \in [Tensors(g) -> Backends \cup {Unassigned}]
    BY DEF Assigning
  <2> QED BY <2>1 DEF Expanding
<1>3. \A i \in 1 .. N : \A acc \in E : ExpandTo(g, skip, acc, order[i]) \in E
  <2> TAKE i \in 1 .. N
  <2> TAKE acc \in E
  <2>1. PICK k \in 1 .. N : order[i] = g.nodes[k]
    BY <1>1
  <2> QED BY <2>1, ExpandToKeeps
<1> HIDE DEF E, base
<1>4. \E f : f = F(f)
  <2> DEFINE H == [i \in 1 .. N |-> [acc \in E |-> ExpandTo(g, skip, acc, order[i])]]
  <2>1. \A i \in 1 .. N : \A acc \in E : H[i][acc] = ExpandTo(g, skip, acc, order[i])
    OBVIOUS
  <2>2. TurnsIn(H, N, E)
    BY <1>3, <2>1 DEF TurnsIn
  <2> HIDE DEF H
  <2>3. PICK f : Made(H, N, base, f) /\ \A i \in 0 .. N : f[i] \in E
    BY <1>1, <1>2, <2>2, LoopIn
  <2> DEFINE h == [i \in 0 .. N |-> f[i]]
  <2>4. ASSUME NEW i \in 0 .. N PROVE h[i] = F(h)[i]
    <3>1. CASE i = 0
      BY <1>1, <2>3, <3>1 DEF Made
    <3>2. CASE i # 0
      <4>1. i \in 1 .. N /\ i - 1 \in 0 .. N
        BY <3>2
      <4> QED BY <1>1, <2>1, <2>3, <4>1 DEF Made
    <3> QED BY <3>1, <3>2
  <2>5. h = F(h)
    BY <1>1, <2>4
  <2> QED BY <2>5
<1>5. after = F(after)
  BY <1>4
<1> HIDE DEF after
<1>6. after[0] = base /\ \A i \in 1 .. N : after[i] = ExpandTo(g, skip, after[i - 1], order[i])
  <2>1. \A i \in 0 .. N : after[i] = IF i = 0 THEN base ELSE ExpandTo(g, skip, after[i - 1], order[i])
    BY <1>1, <1>5
  <2> QED BY <1>1, <2>1
<1>7. after[N] \in E
  <2>1. after[0] \in E /\ \A i \in 1 .. N : after[i - 1] \in E => after[i] \in E
    BY <1>2, <1>3, <1>6
  <2>2. \A i \in 0 .. N : after[i] \in E
    BY <1>1, <2>1, StaysIn
  <2> QED BY <1>1, <2>2
<1>8. Expand(g, order, skip, ids) = after[N].ids
  BY <1>1 DEF Expand, Along, after, base
<1> QED BY <1>7, <1>8 DEF E, Expanding

LEMMA Pass2Assigns ==
  ASSUME NEW g, SoundGraph(g), NEW asked, NEW ids, Assigning(g, asked, ids), ViewsWait(g, ids)
  PROVE  Assigning(g, asked, Pass2(g, ids)) /\ ViewsWait(g, Pass2(g, ids))
<1> DEFINE up == Reverse(g.nodes)
           ids1 == Expand(g, g.nodes, TRUE, ids)
           ids2 == Expand(g, up, TRUE, ids1)
           ids3 == Expand(g, g.nodes, FALSE, ids2)
<1>1. Assigning(g, asked, ids1) /\ ViewsWait(g, ids1)
  BY ExpandKeeps
<1> HIDE DEF ids1
<1>2. Assigning(g, asked, ids2) /\ ViewsWait(g, ids2)
  BY <1>1, ExpandKeeps
<1> HIDE DEF ids2
<1>3. Assigning(g, asked, ids3) /\ ViewsWait(g, ids3)
  BY <1>2, ExpandKeeps
<1> HIDE DEF ids3
<1>4. Assigning(g, asked, Expand(g, up, FALSE, ids3)) /\ ViewsWait(g, Expand(g, up, FALSE, ids3))
  BY <1>3, ExpandKeeps
<1> QED BY <1>4 DEF Pass2, ids1, ids2, ids3

\* Some backend that can compute x has the most inputs there.
LEMMA MostInputsIs ==
  ASSUME NEW g, SoundGraph(g), NEW ids, NEW x \in OpNodes(g)
  PROVE  MostInputs(g, ids, x) \in CanCompute(g, x)
<1> DEFINE L == Len(g.t[x].src)
           C == CanCompute(g, x)
           V(b) == InputsSupported(g, ids, x, b)
           Best == {b \in C : \A other \in C : V(other) <= V(b)}
<1>1. x \in Tensors(g) /\ CPU \in C /\ L \in Nat /\ DOMAIN g.t[x].src = 1 .. L
  BY GraphIs, Zenon DEF SoundGraph
<1>2. ASSUME NEW b PROVE V(b) \in 0 .. L
  <2> DEFINE J == {j \in DOMAIN g.t[x].src :
                     LET s == g.t[x].src[j] IN
                       IdOrBase(g, ids, s) # Unassigned /\ BufferSupported(g, ids, s, b)}
  <2>1. J \subseteq 1 .. L
    BY <1>1
  <2>2. IsFiniteSet(1 .. L) /\ Cardinality(1 .. L) = L
    <3> HIDE DEF L
    <3>1. Cardinality(1 .. L) = IF 1 > L THEN 0 ELSE L - 1 + 1
      BY <1>1, FS_Interval
    <3> QED BY <1>1, <3>1, FS_Interval
  <2>3. V(b) = Cardinality(J)
    BY DEF InputsSupported
  <2> HIDE DEF J, L
  <2>4. IsFiniteSet(J) /\ Cardinality(J) <= L
    BY <2>1, <2>2, FS_Subset
  <2>5. Cardinality(J) \in Nat
    BY <2>4, FS_CardinalityType
  <2> QED BY <1>1, <2>3, <2>4, <2>5
<1>3. Best # {}
  <2> DEFINE T == {L - V(b) : b \in C}
  <2>1. T \in SUBSET Nat /\ T # {}
    <3>1. ASSUME NEW b \in C PROVE L - V(b) \in Nat
      <4> HIDE DEF L, V
      <4> QED BY <1>1, <1>2
    <3> QED BY <1>1, <3>1
  <2>2. PICK m \in T : \A y \in T : m <= y
    <3> HIDE DEF T
    <3> QED BY <2>1, Least
  <2>3. PICK b \in C : m = L - V(b)
    OBVIOUS
  <2>4. ASSUME NEW other \in C PROVE V(other) <= V(b)
    <3>1. L - V(b) <= L - V(other)
      BY <2>2, <2>3
    <3>2. V(b) \in Nat /\ V(other) \in Nat
      BY <1>1, <1>2
    <3> HIDE DEF L, V
    <3> QED BY <1>1, <3>1, <3>2
  <2> QED BY <2>3, <2>4
<1>4. Best \in SUBSET Backends /\ MostInputs(g, ids, x) = Highest(Best)
  BY Able DEF MostInputs
<1> QED BY <1>3, <1>4, HighestIs

\* Assigned operations among the first i nodes.
NodesSettled(g, ids, i) ==
  \A k \in 1 .. i : ~ViewOp(g, g.nodes[k]) => ids[g.nodes[k]] # Unassigned

LEMMA SettleKeeps ==
  ASSUME NEW g, SoundGraph(g), NEW asked, NEW ids, Assigning(g, asked, ids), ViewsWait(g, ids),
         NEW i \in 1 .. Len(g.nodes), NEW x, x = g.nodes[i], NodesSettled(g, ids, i - 1)
  PROVE  LET new == Settle(g, ids, x)
         IN  Assigning(g, asked, new) /\ ViewsWait(g, new) /\ NodesSettled(g, new, i)
<1>1. x \in Tensors(g) /\ (~ViewOp(g, x) => x \in OpNodes(g)) /\ Len(g.nodes) \in Nat
      /\ \A k \in 1 .. Len(g.nodes) : g.nodes[k] \in Tensors(g)
  BY GraphIs DEF OpNodes, Range
<1>2. ids \in [Tensors(g) -> Backends \cup {Unassigned}]
  BY DEF Assigning
<1>3. CASE ViewOp(g, x)
  <2>1. Settle(g, ids, x) = ids
    BY <1>3 DEF Settle
  <2>2. NodesSettled(g, ids, i)
    BY <1>3 DEF NodesSettled
  <2> QED BY <2>1, <2>2
<1>4. ASSUME ~ViewOp(g, x), NEW b \in CanCompute(g, x), Settle(g, ids, x) = [ids EXCEPT ![x] = b],
             ids[x] # Unassigned => b <= ids[x] /\ bufts[b] = bufts[ids[x]]
      PROVE  LET new == Settle(g, ids, x)
             IN  Assigning(g, asked, new) /\ ViewsWait(g, new) /\ NodesSettled(g, new, i)
  <2> DEFINE new == [ids EXCEPT ![x] = b]
  <2>1. Assigning(g, asked, new) /\ ViewsWait(g, new)
    BY <1>1, <1>4, SetKeeps
  <2>2. b # Unassigned
    BY Able, BackendFacts
  <2>3. ASSUME NEW k \in 1 .. i, ~ViewOp(g, g.nodes[k]) PROVE new[g.nodes[k]] # Unassigned
    <3>1. CASE g.nodes[k] = x
      BY <1>1, <1>2, <2>2, <3>1
    <3>2. CASE g.nodes[k] # x
      <4>1. k \in 1 .. i - 1 /\ k \in 1 .. Len(g.nodes)
        BY <1>1, <3>2
      <4>2. ids[g.nodes[k]] # Unassigned
        BY <2>3, <4>1 DEF NodesSettled
      <4> QED BY <1>1, <1>2, <3>2, <4>1, <4>2
    <3> QED BY <3>1, <3>2
  <2> HIDE DEF new
  <2>4. NodesSettled(g, new, i)
    BY <2>3 DEF NodesSettled
  <2> QED BY <1>4, <2>1, <2>4 DEF new
<1>5. CASE ~ViewOp(g, x) /\ ids[x] = Unassigned
  <2>1. Settle(g, ids, x) = [ids EXCEPT ![x] = MostInputs(g, ids, x)]
    BY <1>5 DEF Settle
  <2>2. MostInputs(g, ids, x) \in CanCompute(g, x)
    BY <1>1, <1>5, MostInputsIs
  <2> QED BY <1>4, <1>5, <2>1, <2>2
<1>6. CASE ~ViewOp(g, x) /\ ids[x] # Unassigned
  <2> DEFINE better == {b \in CanCompute(g, x) :
                          /\ b < ids[x] /\ bufts[b] = bufts[ids[x]]
                          /\ \A s \in Sources(g, x) : BufferSupported(g, ids, s, b)}
             b == Upgrade(g, ids, x)
  <2>1. Settle(g, ids, x) = [ids EXCEPT ![x] = b]
    BY <1>6 DEF Settle
  <2>2. ids[x] \in CanCompute(g, x) /\ ids[x] \in Nat
    BY <1>1, <1>6, Able, BackendFacts DEF Assigning
  <2>3. b = IF better = {} THEN ids[x] ELSE Min(better)
    BY DEF Upgrade
  <2>4. better # {} => Min(better) \in better
    <3>1. better \in SUBSET Backends
      BY Able
    <3> HIDE DEF better
    <3> QED BY <3>1, HighestIs
  <2>5. CASE better = {}
    <3>1. b = ids[x]
      BY <2>3, <2>5
    <3>2. b \in CanCompute(g, x) /\ b <= ids[x] /\ bufts[b] = bufts[ids[x]]
      BY <2>2, <3>1
    <3> QED BY <1>4, <1>6, <2>1, <3>2
  <2>6. CASE better # {}
    <3>1. b \in CanCompute(g, x) /\ b < ids[x] /\ bufts[b] = bufts[ids[x]]
      BY <2>3, <2>4, <2>6
    <3>2. b \in Nat
      BY <3>1, Able, BackendFacts
    <3>3. b <= ids[x]
      BY <2>2, <3>1, <3>2
    <3> QED BY <1>4, <1>6, <2>1, <3>1, <3>3
  <2> QED BY <2>5, <2>6
<1> QED BY <1>3, <1>5, <1>6

LEMMA Pass3Assigns ==
  ASSUME NEW g, SoundGraph(g), NEW asked, NEW ids, Assigning(g, asked, ids), ViewsWait(g, ids)
  PROVE  LET new == Pass3(g, ids)
         IN  Assigning(g, asked, new) /\ ViewsWait(g, new) /\ NodesSettled(g, new, Len(g.nodes))
<1> DEFINE N == Len(g.nodes)
           T == [Tensors(g) -> Backends \cup {Unassigned}]
           S == [i \in 0 .. N |-> {new \in T : Assigning(g, asked, new) /\ ViewsWait(g, new)
                                               /\ NodesSettled(g, new, i)}]
           F(f) == [i \in 0 .. Len(g.nodes) |->
                      IF i = 0 THEN ids ELSE Settle(g, f[i - 1], g.nodes[i])]
           after == CHOOSE f : f = F(f)
<1>1. N \in Nat
  BY GraphIs
<1>2. \A new : Assigning(g, asked, new) => new \in T
  BY DEF Assigning
<1>3. \A i \in 0 .. N : \A new : new \in S[i] <=> /\ Assigning(g, asked, new) /\ ViewsWait(g, new)
                                                  /\ NodesSettled(g, new, i)
  BY <1>2
<1> HIDE DEF S, T
<1>4. ids \in S[0]
  <2>1. NodesSettled(g, ids, 0)
    BY DEF NodesSettled
  <2> QED BY <1>1, <1>3, <2>1
<1>5. ASSUME NEW i \in 1 .. N, NEW acc \in S[i - 1] PROVE Settle(g, acc, g.nodes[i]) \in S[i]
  <2>1. i \in 0 .. N /\ i - 1 \in 0 .. N
    BY <1>1
  <2> QED BY <1>3, <2>1, SettleKeeps
<1>6. \E f : f = F(f)
  <2> DEFINE H == [i \in 1 .. N |-> [acc \in S[i - 1] |-> Settle(g, acc, g.nodes[i])]]
  <2>1. \A i \in 1 .. N : \A acc \in S[i - 1] : H[i][acc] = Settle(g, acc, g.nodes[i])
    OBVIOUS
  <2>2. Turns(H, N, S)
    BY <1>5, <2>1 DEF Turns
  <2> HIDE DEF H
  <2>3. PICK f : Made(H, N, ids, f) /\ \A i \in 0 .. N : f[i] \in S[i]
    BY <1>1, <1>4, <2>2, Loop
  <2> DEFINE h == [i \in 0 .. N |-> f[i]]
  <2>4. ASSUME NEW i \in 0 .. N PROVE h[i] = F(h)[i]
    <3>1. CASE i = 0
      BY <1>1, <2>3, <3>1 DEF Made
    <3>2. CASE i # 0
      <4>1. i \in 1 .. N /\ i - 1 \in 0 .. N
        BY <3>2
      <4> QED BY <1>1, <2>1, <2>3, <4>1 DEF Made
    <3> QED BY <3>1, <3>2
  <2>5. h = F(h)
    BY <1>1, <2>4
  <2> QED BY <2>5
<1>7. after = F(after)
  BY <1>6
<1> HIDE DEF after
<1>8. after[0] = ids /\ \A i \in 1 .. N : after[i] = Settle(g, after[i - 1], g.nodes[i])
  <2>1. \A i \in 0 .. N : after[i] = IF i = 0 THEN ids ELSE Settle(g, after[i - 1], g.nodes[i])
    BY <1>1, <1>7
  <2> QED BY <1>1, <2>1
<1>9. \A i \in 0 .. N : after[i] \in S[i]
  <2>1. after[0] \in S[0] /\ \A i \in 1 .. N : after[i - 1] \in S[i - 1] => after[i] \in S[i]
    BY <1>4, <1>5, <1>8
  <2> QED BY <1>1, <2>1, Stays
<1>10. Pass3(g, ids) = after[N]
  BY DEF Pass3, Along, after
<1>11. after[N] \in S[N] /\ N \in 0 .. N
  BY <1>1, <1>9
<1> QED BY <1>3, <1>10, <1>11

\* An unassigned tensor that is no operation gets a backend in pass 4.
Assigned(g, asked) ==
  {ids \in [Tensors(g) -> Backends \cup {Unassigned}] :
     /\ Assigning(g, asked, ids) /\ ViewsFollow(g, ids)
     /\ \A x \in OpNodes(g) : ids[x] # Unassigned}

LEMMA FillKeeps ==
  ASSUME NEW g, SoundGraph(g), NEW asked, NEW ids \in Assigned(g, asked),
         NEW x \in Tensors(g), ids[x] = Unassigned, NEW b \in Backends \cup {Unassigned},
         View(g, x) => b = ids[Base(g, x)]
  PROVE  [ids EXCEPT ![x] = b] \in Assigned(g, asked)
<1> DEFINE new == [ids EXCEPT ![x] = b]
<1>1. /\ ids \in [Tensors(g) -> Backends \cup {Unassigned}]
      /\ Assigning(g, asked, ids) /\ ViewsFollow(g, ids)
      /\ \A y \in OpNodes(g) : y \in Tensors(g) /\ ids[y] # Unassigned
  BY GraphIs DEF Assigned
<1>2. new[x] = b /\ new \in [Tensors(g) -> Backends \cup {Unassigned}]
      /\ \A y \in Tensors(g) : y # x => new[y] = ids[y]
  BY <1>1
<1> HIDE DEF new
<1>3. x \notin OpNodes(g) /\ asked[x] = Unassigned /\ ~Preallocated(g, x) /\ ~g.t[x].input
  BY <1>1, BackendFacts, Able DEF Assigning
<1>4. Assigning(g, asked, new)
  <2>1. ASSUME NEW y \in Tensors(g), asked[y] # Unassigned
        PROVE  /\ asked[y] \in Backends /\ new[y] \in Backends
               /\ new[y] <= asked[y] /\ bufts[new[y]] = bufts[asked[y]]
    BY <1>1, <1>2, <1>3, <2>1 DEF Assigning
  <2>2. ASSUME NEW y \in OpNodes(g), new[y] # Unassigned PROVE new[y] \in CanCompute(g, y)
    BY <1>1, <1>2, <1>3, <2>2 DEF Assigning
  <2>3. ASSUME NEW y \in Tensors(g), Preallocated(g, y)
        PROVE  new[y] \in CanUse(g.t[Base(g, y)].buffer)
    BY <1>1, <1>2, <1>3, <2>3 DEF Assigning
  <2>4. ASSUME NEW y \in Tensors(g), g.t[y].input PROVE new[y] \in Backends
    BY <1>1, <1>2, <1>3, <2>4 DEF Assigning
  <2>5. \A y \in Tensors(g) \ OpNodes(g) :
          g.t[y].input /\ ~Preallocated(g, y) /\ asked[y] = Unassigned => new[y] = CPU
    BY <1>1, <1>2, <1>3 DEF Assigning
  <2> QED BY <1>2, <2>1, <2>2, <2>3, <2>4, <2>5 DEF Assigning
<1>5. ViewsFollow(g, new)
  <2> SUFFICES ASSUME NEW y \in Tensors(g), View(g, y)
               PROVE  new[y] \in {Unassigned, new[Base(g, y)]}
    BY DEF ViewsFollow
  <2>1. Base(g, y) \in Tensors(g) /\ ids[y] \in {Unassigned, ids[Base(g, y)]} /\ Base(g, y) # y
    BY <1>1, BaseIs DEF ViewsFollow, View
  <2>2. CASE y = x
    BY <1>2, <2>1, <2>2
  <2>3. CASE y # x
    BY <1>2, <2>1, <2>3
  <2> QED BY <2>2, <2>3
<1>6. \A y \in OpNodes(g) : new[y] # Unassigned
  BY <1>1, <1>2, <1>3
<1> QED BY <1>2, <1>4, <1>5, <1>6 DEF Assigned, new

\* The tensors of S have a backend.
AssignedAll(g, asked, S) == {ids \in Assigned(g, asked) : \A x \in S : ids[x] # Unassigned}

LEMMA FillAll ==
  ASSUME NEW g, SoundGraph(g), NEW asked, NEW S \in SUBSET Tensors(g),
         NEW ids \in AssignedAll(g, asked, S), NEW x \in Tensors(g), ids[x] = Unassigned,
         NEW b \in Backends \cup {Unassigned}, View(g, x) => b = ids[Base(g, x)]
  PROVE  /\ [ids EXCEPT ![x] = b] \in AssignedAll(g, asked, S)
         /\ b # Unassigned => [ids EXCEPT ![x] = b] \in AssignedAll(g, asked, S \cup {x})
<1> DEFINE new == [ids EXCEPT ![x] = b]
<1>1. ids \in Assigned(g, asked) /\ \A y \in S : ids[y] # Unassigned
  BY DEF AssignedAll
<1>2. new \in Assigned(g, asked)
  BY <1>1, FillKeeps
<1>3. ids \in [Tensors(g) -> Backends \cup {Unassigned}]
  BY <1>1 DEF Assigned
<1>4. new[x] = b /\ \A y \in Tensors(g) : y # x => new[y] = ids[y]
  BY <1>3
<1> HIDE DEF new
<1>5. \A y \in S : new[y] # Unassigned
  BY <1>1, <1>4
<1> QED BY <1>2, <1>4, <1>5 DEF AssignedAll, new

\* What a view is of has a backend: it has memory, is an input or an operation.
LEMMA BaseAssigned ==
  ASSUME NEW g, SoundGraph(g), NEW asked, NEW ids \in Assigned(g, asked), NEW x \in Tensors(g)
  PROVE  /\ ids[Base(g, x)] # Unassigned
         /\ x \in Range(g.leafs) => ids[x] # Unassigned
<1>1. /\ Assigning(g, asked, ids) /\ \A y \in OpNodes(g) : ids[y] # Unassigned
      /\ ids \in [Tensors(g) -> Backends \cup {Unassigned}]
  BY DEF Assigned
<1>2. Tensors(g) = Range(g.nodes) \cup Range(g.leafs)
  BY GraphIs
<1>3. ASSUME NEW y \in Tensors(g), Preallocated(g, y) \/ g.t[y].input PROVE ids[y] # Unassigned
  BY <1>1, <1>3, Able, BackendFacts DEF Assigning
<1>4. /\ \A y \in Range(g.leafs) : Preallocated(g, y) \/ g.t[y].input
      /\ \A y \in Tensors(g) : ViewOp(g, y) => g.t[y].view_src # None
  BY Zenon DEF SoundGraph
<1>5. \A y \in Range(g.leafs) : ids[y] # Unassigned
  BY <1>2, <1>3, <1>4
<1>6. Base(g, x) \in Tensors(g) /\ g.t[Base(g, x)].view_src = None
  BY BaseIs
<1>7. ids[Base(g, x)] # Unassigned
  <2>1. CASE Base(g, x) \in Range(g.leafs)
    BY <1>5, <2>1
  <2>2. CASE Base(g, x) \in Range(g.nodes)
    <3>1. Base(g, x) \in OpNodes(g)
      BY <1>4, <1>6, <2>2 DEF OpNodes
    <3> QED BY <1>1, <3>1
  <2> QED BY <1>2, <1>6, <2>1, <2>2
<1> QED BY <1>5, <1>7

LEMMA FollowNodeKeeps ==
  ASSUME NEW g, SoundGraph(g), NEW asked, NEW S \in SUBSET Tensors(g),
         NEW ids \in AssignedAll(g, asked, S), NEW x \in Tensors(g)
  PROVE  FollowNode(g, ids, x) \in AssignedAll(g, asked, S \cup {x})
<1>1. ids \in [Tensors(g) -> Backends \cup {Unassigned}] /\ Base(g, x) \in Tensors(g)
      /\ ids[Base(g, x)] # Unassigned
  BY BaseIs, BaseAssigned DEF AssignedAll, Assigned
<1>2. CASE ids[x] = Unassigned
  <2>1. [ids EXCEPT ![x] = ids[Base(g, x)]] \in AssignedAll(g, asked, S \cup {x})
    BY <1>1, <1>2, FillAll
  <2> QED BY <1>2, <2>1 DEF FollowNode
<1>3. CASE ids[x] # Unassigned
  BY <1>3 DEF FollowNode, AssignedAll
<1> QED BY <1>2, <1>3

LEMMA FollowUserKeeps ==
  ASSUME NEW g, SoundGraph(g), NEW asked, NEW S \in SUBSET Tensors(g),
         NEW ids \in AssignedAll(g, asked, S), NEW x \in Tensors(g), NEW s \in Tensors(g)
  PROVE  FollowUser(g, ids, s, x) \in AssignedAll(g, asked, S)
<1>1. ids \in [Tensors(g) -> Backends \cup {Unassigned}] /\ Base(g, s) \in Tensors(g)
  BY BaseIs DEF AssignedAll, Assigned
<1>2. CASE ids[s] # Unassigned
  BY <1>2 DEF FollowUser
<1>3. CASE ids[s] = Unassigned
  <2> DEFINE b == IF g.t[s].view_src # None THEN ids[Base(g, s)] ELSE ids[x]
  <2>1. b \in Backends \cup {Unassigned} /\ (View(g, s) => b = ids[Base(g, s)])
    BY <1>1 DEF View
  <2>2. FollowUser(g, ids, s, x) = [ids EXCEPT ![s] = b]
    BY <1>3 DEF FollowUser
  <2> HIDE DEF b
  <2>3. [ids EXCEPT ![s] = b] \in AssignedAll(g, asked, S)
    BY <1>3, <2>1, FillAll
  <2> QED BY <2>2, <2>3
<1> QED BY <1>2, <1>3

LEMMA FollowKeeps ==
  ASSUME NEW g, SoundGraph(g), NEW asked, NEW S \in SUBSET Tensors(g),
         NEW ids \in AssignedAll(g, asked, S), NEW x \in Tensors(g)
  PROVE  Follow(g, ids, x) \in AssignedAll(g, asked, S \cup {x})
<1> DEFINE N == Len(g.t[x].src)
           E == AssignedAll(g, asked, S \cup {x})
           base == FollowNode(g, ids, x)
           F(f) == [i \in 0 .. Len(g.t[x].src) |->
                      IF i = 0 THEN base ELSE FollowUser(g, f[i - 1], g.t[x].src[i], x)]
           after == CHOOSE f : f = F(f)
<1>1. N \in Nat /\ \A i \in 1 .. N : g.t[x].src[i] \in Tensors(g)
  BY GraphIs
<1>2. base \in E
  BY FollowNodeKeeps
<1>3. \A i \in 1 .. N : \A acc \in E : FollowUser(g, acc, g.t[x].src[i], x) \in E
  <2>1. S \cup {x} \in SUBSET Tensors(g)
    OBVIOUS
  <2> QED BY <1>1, <2>1, FollowUserKeeps
<1> HIDE DEF E, base
<1>4. \E f : f = F(f)
  <2> DEFINE H == [i \in 1 .. N |-> [acc \in E |-> FollowUser(g, acc, g.t[x].src[i], x)]]
  <2>1. \A i \in 1 .. N : \A acc \in E : H[i][acc] = FollowUser(g, acc, g.t[x].src[i], x)
    OBVIOUS
  <2>2. TurnsIn(H, N, E)
    BY <1>3, <2>1 DEF TurnsIn
  <2> HIDE DEF H
  <2>3. PICK f : Made(H, N, base, f) /\ \A i \in 0 .. N : f[i] \in E
    BY <1>1, <1>2, <2>2, LoopIn
  <2> DEFINE h == [i \in 0 .. N |-> f[i]]
  <2>4. ASSUME NEW i \in 0 .. N PROVE h[i] = F(h)[i]
    <3>1. CASE i = 0
      BY <1>1, <2>3, <3>1 DEF Made
    <3>2. CASE i # 0
      <4>1. i \in 1 .. N /\ i - 1 \in 0 .. N
        BY <3>2
      <4> QED BY <1>1, <2>1, <2>3, <4>1 DEF Made
    <3> QED BY <3>1, <3>2
  <2>5. h = F(h)
    BY <1>1, <2>4
  <2> QED BY <2>5
<1>5. after = F(after)
  BY <1>4
<1> HIDE DEF after
<1>6. after[0] = base /\ \A i \in 1 .. N : after[i] = FollowUser(g, after[i - 1], g.t[x].src[i], x)
  <2>1. \A i \in 0 .. N : after[i] = IF i = 0 THEN base ELSE FollowUser(g, after[i - 1], g.t[x].src[i], x)
    BY <1>1, <1>5
  <2> QED BY <1>1, <2>1
<1>7. \A i \in 0 .. N : after[i] \in E
  <2>1. after[0] \in E /\ \A i \in 1 .. N : after[i - 1] \in E => after[i] \in E
    BY <1>2, <1>3, <1>6
  <2> QED BY <1>1, <2>1, StaysIn
<1>8. Follow(g, ids, x) = after[N]
  BY DEF Follow, Along, after, base
<1>9. after[N] \in E
  BY <1>1, <1>7
<1> QED BY <1>8, <1>9, Zenon DEF E

\* Pass 4 leaves no tensor unassigned.
LEMMA Pass4Assigns ==
  ASSUME NEW g, SoundGraph(g), NEW asked, NEW ids \in Assigned(g, asked)
  PROVE  Pass4(g, ids) \in AssignedAll(g, asked, Tensors(g))
<1> DEFINE N == Len(g.nodes)
           first(i) == {g.nodes[k] : k \in 1 .. i}
           S == [i \in 0 .. N |-> AssignedAll(g, asked, first(i))]
           F(f) == [i \in 0 .. Len(g.nodes) |->
                      IF i = 0 THEN ids ELSE Follow(g, f[i - 1], g.nodes[i])]
           after == CHOOSE f : f = F(f)
<1>1. N \in Nat /\ \A i \in 1 .. N : g.nodes[i] \in Tensors(g)
  BY GraphIs
<1>2. /\ first(0) = {}
      /\ \A i \in 1 .. N : first(i) = first(i - 1) \cup {g.nodes[i]}
                          /\ first(i - 1) \in SUBSET Tensors(g)
  <2>1. \A i \in 1 .. N : 1 .. i = 1 .. (i - 1) \cup {i} /\ 1 .. (i - 1) \subseteq 1 .. N
    BY <1>1
  <2> HIDE DEF N
  <2> QED BY <1>1, <2>1
<1>3. \A i \in 0 .. N : S[i] = AssignedAll(g, asked, first(i))
  OBVIOUS
<1> HIDE DEF S
<1>4. ids \in S[0]
  BY <1>1, <1>2, <1>3 DEF AssignedAll
<1>5. ASSUME NEW i \in 1 .. N, NEW acc \in S[i - 1] PROVE Follow(g, acc, g.nodes[i]) \in S[i]
  <2>1. i \in 0 .. N /\ i - 1 \in 0 .. N
    BY <1>1
  <2>2. Follow(g, acc, g.nodes[i]) \in AssignedAll(g, asked, first(i - 1) \cup {g.nodes[i]})
    <3> HIDE DEF first
    <3> QED BY <1>1, <1>2, <1>3, <2>1, FollowKeeps
  <2> HIDE DEF first
  <2> QED BY <1>2, <1>3, <2>1, <2>2
<1> HIDE DEF first
<1>6. \E f : f = F(f)
  <2> DEFINE H == [i \in 1 .. N |-> [acc \in S[i - 1] |-> Follow(g, acc, g.nodes[i])]]
  <2>1. \A i \in 1 .. N : \A acc \in S[i - 1] : H[i][acc] = Follow(g, acc, g.nodes[i])
    OBVIOUS
  <2>2. Turns(H, N, S)
    BY <1>5, <2>1 DEF Turns
  <2> HIDE DEF H
  <2>3. PICK f : Made(H, N, ids, f) /\ \A i \in 0 .. N : f[i] \in S[i]
    BY <1>1, <1>4, <2>2, Loop
  <2> DEFINE h == [i \in 0 .. N |-> f[i]]
  <2>4. ASSUME NEW i \in 0 .. N PROVE h[i] = F(h)[i]
    <3>1. CASE i = 0
      BY <1>1, <2>3, <3>1 DEF Made
    <3>2. CASE i # 0
      <4>1. i \in 1 .. N /\ i - 1 \in 0 .. N
        BY <3>2
      <4> QED BY <1>1, <2>1, <2>3, <4>1 DEF Made
    <3> QED BY <3>1, <3>2
  <2>5. h = F(h)
    BY <1>1, <2>4
  <2> QED BY <2>5
<1>7. after = F(after)
  BY <1>6
<1> HIDE DEF after
<1>8. after[0] = ids /\ \A i \in 1 .. N : after[i] = Follow(g, after[i - 1], g.nodes[i])
  <2>1. \A i \in 0 .. N : after[i] = IF i = 0 THEN ids ELSE Follow(g, after[i - 1], g.nodes[i])
    BY <1>1, <1>7
  <2> QED BY <1>1, <2>1
<1>9. \A i \in 0 .. N : after[i] \in S[i]
  <2>1. after[0] \in S[0] /\ \A i \in 1 .. N : after[i - 1] \in S[i - 1] => after[i] \in S[i]
    BY <1>4, <1>5, <1>8
  <2> QED BY <1>1, <2>1, Stays
<1>10. Pass4(g, ids) = after[N]
  BY DEF Pass4, Along, after
<1>11. after[N] \in AssignedAll(g, asked, first(N))
  BY <1>1, <1>3, <1>9
<1> DEFINE new == after[N]
<1> HIDE DEF new
<1>12. ASSUME new \in AssignedAll(g, asked, first(N))
       PROVE  new \in AssignedAll(g, asked, Tensors(g))
  <2>1. new \in Assigned(g, asked) /\ \A x \in first(N) : new[x] # Unassigned
    BY <1>12 DEF AssignedAll
  <2>2. ASSUME NEW x \in Tensors(g) PROVE new[x] # Unassigned
    <3>1. CASE x \in Range(g.leafs)
      BY <2>1, <3>1, BaseAssigned
    <3>2. CASE x \in Range(g.nodes)
      <4>1. x \in first(N)
        BY <3>2, GraphIs DEF first, Range
      <4> QED BY <2>1, <4>1
    <3> QED BY <3>1, <3>2, GraphIs
  <2> QED BY <2>1, <2>2 DEF AssignedAll
<1> QED BY <1>10, <1>11, <1>12 DEF new

\* What passes 1 to 4 make of what the user asks for.
LEMMA AssignIs ==
  ASSUME NEW g, SoundGraph(g), NEW asked \in Asked(g), ~Misplaced(g, asked)
  PROVE  /\ Assign(g, asked) \in Assigned(g, asked)
         /\ Assign(g, asked) \in [Tensors(g) -> Backends]
<1> DEFINE ids1 == Pass1(g, asked)
           ids2 == Pass2(g, ids1)
           ids3 == Pass3(g, ids2)
<1>1. Assigning(g, asked, ids1) /\ ViewsWait(g, ids1)
  BY Pass1Assigns
<1> HIDE DEF ids1
<1>2. Assigning(g, asked, ids2) /\ ViewsWait(g, ids2)
  BY <1>1, Pass2Assigns
<1> HIDE DEF ids2
<1>3. Assigning(g, asked, ids3) /\ ViewsWait(g, ids3) /\ NodesSettled(g, ids3, Len(g.nodes))
  BY <1>2, Pass3Assigns
<1> HIDE DEF ids3
<1>4. ids3 \in Assigned(g, asked)
  <2>1. \A x \in OpNodes(g) : ids3[x] # Unassigned
    <3> TAKE x \in OpNodes(g)
    <3>1. PICK k \in 1 .. Len(g.nodes) : g.nodes[k] = x
      BY GraphIs DEF OpNodes, Range
    <3> QED BY <1>3, <3>1 DEF NodesSettled, OpNodes
  <2>2. ids3 \in [Tensors(g) -> Backends \cup {Unassigned}]
    BY <1>3 DEF Assigning
  <2>3. ViewsFollow(g, ids3)
    BY <1>3 DEF ViewsFollow, ViewsWait
  <2> QED BY <1>3, <2>1, <2>2, <2>3 DEF Assigned
<1>5. Pass4(g, ids3) \in AssignedAll(g, asked, Tensors(g))
  BY <1>4, Pass4Assigns
<1>6. Assign(g, asked) = Pass4(g, ids3)
  BY DEF Assign, ids1, ids2, ids3
<1> HIDE DEF ids3
<1>7. Assign(g, asked) \in Assigned(g, asked) /\ \A x \in Tensors(g) : Assign(g, asked)[x] # Unassigned
  BY <1>5, <1>6 DEF AssignedAll
<1>8. Assign(g, asked) \in [Tensors(g) -> Backends \cup {Unassigned}]
  BY <1>7 DEF Assigned
<1> QED BY <1>7, <1>8

-----------------------------------------------------------------------------
(* Pass 5: the splits.                                                       *)

LEMMA RangeOfAppend ==
  ASSUME NEW T, NEW s \in Seq(T), NEW e \in T
  PROVE  /\ Append(s, e) \in Seq(T) /\ Len(Append(s, e)) = Len(s) + 1
         /\ Range(Append(s, e)) = Range(s) \cup {e}
<1>1. /\ Append(s, e) \in Seq(T) /\ Len(Append(s, e)) = Len(s) + 1 /\ Len(s) \in Nat
      /\ DOMAIN s = 1 .. Len(s) /\ DOMAIN Append(s, e) = 1 .. Len(s) + 1
      /\ \A i \in 1 .. Len(s) : Append(s, e)[i] = s[i]
      /\ Append(s, e)[Len(s) + 1] = e
  OBVIOUS
<1>2. ASSUME NEW y \in Range(Append(s, e)) PROVE y \in Range(s) \cup {e}
  <2>1. PICK i \in 1 .. Len(s) + 1 : y = Append(s, e)[i]
    BY <1>1 DEF Range
  <2> QED BY <1>1, <2>1 DEF Range
<1>3. ASSUME NEW y \in Range(s) \cup {e} PROVE y \in Range(Append(s, e))
  <2>1. CASE y = e
    BY <1>1, <2>1 DEF Range
  <2>2. CASE y \in Range(s)
    <3>1. PICK i \in 1 .. Len(s) : y = s[i]
      BY <1>1, <2>2 DEF Range
    <3> QED BY <1>1, <3>1 DEF Range
  <2> QED BY <2>1, <2>2
<1> QED BY <1>1, <1>2, <1>3

Parts(g) == [backend_id : Backends, i_start : Nat, inputs : Seq(Tensors(g))]
Places(g) == [t : Tensors(g), b : Backends \cup {Own}, c : Nat]
Accs(g) ==
  [splits : Seq(Parts(g)), copies : SUBSET (Tensors(g) \X Backends),
   src : [Tensors(g) -> Seq(Places(g))], graph_inputs : Seq(Tensors(g)), abort : BOOLEAN]

\* Node i is in split k.
InPart(splits, k, i) ==
  splits[k].i_start <= i /\ (k < Len(splits) => i < splits[k + 1].i_start)

\* Where the splits of the first i nodes begin, and on which backends they are.
Starts(g, ids, i, splits) ==
  /\ splits \in Seq(Parts(g)) /\ splits # <<>> /\ splits[1].i_start = 1
  /\ \A k \in 1 .. Len(splits) :
       k <= splits[k].i_start /\ splits[k].i_start <= (IF i = 0 THEN 1 ELSE i)
  /\ \A k, m \in 1 .. Len(splits) : k < m => splits[k].i_start < splits[m].i_start
  /\ \A m \in 1 .. i : ~ViewOp(g, g.nodes[m]) =>
       \A k \in 1 .. Len(splits) : InPart(splits, k, m) => splits[k].backend_id = ids[g.nodes[m]]
  /\ (\A m \in 1 .. i : ViewOp(g, g.nodes[m])) =>
       /\ Len(splits) = 1 /\ splits[1].inputs = <<>>
       /\ splits[1].backend_id = ids[g.nodes[FirstOp(g)]]

\* The inputs of the splits: each tensor is copied to a backend once, and has a
\* copy of the table.
Fits(ids, splits, copies, abort) ==
  /\ ~abort => \A k \in 1 .. Len(splits) : Len(splits[k].inputs) <= MaxSplitInputs
  /\ \A k \in 1 .. Len(splits) : \A s \in Range(splits[k].inputs) :
       <<s, splits[k].backend_id>> \in copies
  /\ \A s, b : <<s, b>> \in copies /\ ids[s] # b =>
       \E k \in 1 .. Len(splits) : splits[k].backend_id = b /\ s \in Range(splits[k].inputs)
  /\ \A k, m \in 1 .. Len(splits) :
       k # m /\ splits[k].backend_id = splits[m].backend_id =>
         Range(splits[k].inputs) \cap Range(splits[m].inputs) = {}

\* In split k a node reads s, or a copy that is made in this or an earlier split.
Served(g, ids, n, c, splits, k, s, place) ==
  LET b == splits[k].backend_id
  IN  \/ place = Original(g, s, n, c) /\ (ids[s] = b \/ BufferSupported(g, ids, s, b))
      \/ /\ place = CopyOf(s, b, c)
         /\ \E m \in 1 .. k : splits[m].backend_id = b /\ s \in Range(splits[m].inputs)

\* What the sources are once those of the nodes before i and the first j of
\* node i are seen to.
Reads(g, ids, n, c, i, j, splits, src) ==
  /\ \A x \in Tensors(g) : Len(src[x]) = Len(g.t[x].src)
  /\ \A m \in 1 .. Len(g.nodes) : ~ViewOp(g, g.nodes[m]) =>
       \A l \in 1 .. Len(g.t[g.nodes[m]].src) :
         /\ m < i \/ (m = i /\ l <= j) =>
              \A k \in 1 .. Len(splits) : InPart(splits, k, m) =>
                Served(g, ids, n, c, splits, k, g.t[g.nodes[m]].src[l], src[g.nodes[m]][l])
         /\ m > i \/ (m = i /\ l > j) =>
              src[g.nodes[m]][l] = Original(g, g.t[g.nodes[m]].src[l], n, c)

\* An input is read by a node of the split that is not before node i + 1, and is
\* neither of the split's backend nor in memory that this backend can use.
Needs(g, ids, b, m, s) ==
  ~ViewOp(g, g.nodes[m]) /\ s \in Sources(g, g.nodes[m]) /\ ids[s] # b /\ ~BufferSupported(g, ids, s, b)
Needed(g, ids, i, splits) ==
  \A k \in 1 .. Len(splits) : \A s \in Range(splits[k].inputs) :
    \E m \in 1 .. i : InPart(splits, k, m) /\ Needs(g, ids, splits[k].backend_id, m, s)

Within(g, ids, n, c, i, j) ==
  {acc \in Accs(g) : /\ Starts(g, ids, i, acc.splits) /\ Needed(g, ids, i, acc.splits)
                     /\ Fits(ids, acc.splits, acc.copies, acc.abort)
                     /\ Reads(g, ids, n, c, i, j, acc.splits, acc.src)}
Past(g, ids, n, c, i) ==
  {acc \in Accs(g) : /\ Starts(g, ids, i, acc.splits) /\ Needed(g, ids, i, acc.splits)
                     /\ Fits(ids, acc.splits, acc.copies, acc.abort)
                     /\ Reads(g, ids, n, c, i + 1, 0, acc.splits, acc.src)}

LEMMA PartIs ==
  ASSUME NEW g, NEW splits \in Seq(Parts(g)), NEW k \in 1 .. Len(splits)
  PROVE  /\ splits[k].backend_id \in Backends /\ splits[k].i_start \in Nat
         /\ splits[k].inputs \in Seq(Tensors(g)) /\ splits[k] \in Parts(g)
         /\ Len(splits[k].inputs) \in Nat
<1>1. splits[k] \in Parts(g)
  OBVIOUS
<1>2. splits[k].inputs \in Seq(Tensors(g)) /\ splits[k].backend_id \in Backends
      /\ splits[k].i_start \in Nat
  BY <1>1 DEF Parts
<1> QED BY <1>1, <1>2

\* Node i is in the last split.
LEMMA InLast ==
  ASSUME NEW g, NEW ids, NEW i \in Nat \ {0}, NEW splits, Starts(g, ids, i, splits)
  PROVE  /\ Len(splits) \in Nat \ {0} /\ DOMAIN splits = 1 .. Len(splits)
         /\ Last(splits) = splits[Len(splits)]
         /\ InPart(splits, Len(splits), i)
         /\ \A k \in 1 .. Len(splits) : InPart(splits, k, i) => k = Len(splits)
<1> DEFINE L == Len(splits)
<1>1. splits \in Seq(Parts(g)) /\ splits # <<>>
  BY DEF Starts
<1>2. L \in Nat \ {0} /\ DOMAIN splits = 1 .. L /\ Last(splits) = splits[L]
  BY <1>1 DEF Last
<1>3. \A k \in 1 .. L : splits[k].i_start \in Nat
  BY <1>1, PartIs
<1>4. \A k \in 1 .. L : splits[k].i_start <= i
  BY DEF Starts
<1>5. ASSUME NEW k \in 1 .. L, InPart(splits, k, i) PROVE k = L
  <2>1. k < L => i < splits[k + 1].i_start
    BY <1>5 DEF InPart
  <2> HIDE DEF L
  <2>2. k < L => k + 1 \in 1 .. L
    BY <1>2
  <2>3. ~(k < L)
    BY <1>3, <1>4, <2>1, <2>2
  <2> QED BY <1>2, <2>3
<1>6. InPart(splits, L, i)
  BY <1>2, <1>4 DEF InPart
<1> QED BY <1>2, <1>5, <1>6

\* The last split gets s as a further input.
Grown(g, splits, new, s) ==
  LET L == Len(splits) IN
    /\ new \in Seq(Parts(g)) /\ Len(new) = L /\ L \in Nat \ {0}
    /\ \A k \in 1 .. L : /\ new[k].backend_id = splits[k].backend_id
                         /\ new[k].i_start = splits[k].i_start
    /\ \A k \in 1 .. L : k # L => new[k].inputs = splits[k].inputs
    /\ Len(new[L].inputs) = Len(splits[L].inputs) + 1
    /\ Range(new[L].inputs) = Range(splits[L].inputs) \cup {s}

LEMMA NewInputIs ==
  ASSUME NEW g, NEW acc \in Accs(g), acc.splits # <<>>,
         NEW s \in Tensors(g), NEW b \in Backends
  PROVE  LET new == NewInput(acc, s, b)
             last == acc.splits[Len(acc.splits)]
         IN  /\ new \in Accs(g) /\ new.src = acc.src /\ new.copies = acc.copies \cup {<<s, b>>}
             /\ new.abort = (acc.abort \/ Len(last.inputs) >= MaxSplitInputs)
             /\ Grown(g, acc.splits, new.splits, s)
<1> DEFINE sp == acc.splits
           L == Len(sp)
           in == Append(sp[L].inputs, s)
           part == [sp[L] EXCEPT !.inputs = in]
           spn == [sp EXCEPT ![L] = part]
           new == NewInput(acc, s, b)
           cop == acc.copies \cup {<<s, b>>}
           ab == acc.abort \/ Len(sp[L].inputs) >= MaxSplitInputs
<1>1. /\ sp \in Seq(Parts(g)) /\ acc.copies \in SUBSET (Tensors(g) \X Backends)
      /\ acc.src \in [Tensors(g) -> Seq(Places(g))] /\ acc.graph_inputs \in Seq(Tensors(g))
      /\ acc.abort \in BOOLEAN
      /\ acc = [splits |-> sp, copies |-> acc.copies, src |-> acc.src,
                graph_inputs |-> acc.graph_inputs, abort |-> acc.abort]
  BY DEF Accs
<1>2. L \in Nat \ {0} /\ DOMAIN sp = 1 .. L /\ Last(sp) = sp[L]
  BY <1>1 DEF Last
<1>3. /\ sp[L].inputs \in Seq(Tensors(g)) /\ sp[L] \in Parts(g) /\ Len(sp[L].inputs) \in Nat
      /\ sp[L] = [backend_id |-> sp[L].backend_id, i_start |-> sp[L].i_start,
                  inputs |-> sp[L].inputs]
  <2>1. L \in 1 .. L
    BY <1>2
  <2>2. /\ sp[L].inputs \in Seq(Tensors(g)) /\ sp[L] \in Parts(g) /\ Len(sp[L].inputs) \in Nat
    <3> HIDE DEF sp
    <3> QED BY <1>1, <2>1, PartIs
  <2> QED BY <2>2 DEF Parts
<1>4. /\ in \in Seq(Tensors(g)) /\ Len(in) = Len(sp[L].inputs) + 1
      /\ Range(in) = Range(sp[L].inputs) \cup {s}
  BY <1>3, RangeOfAppend
<1>5. new = [splits |-> spn, copies |-> cop, src |-> acc.src,
             graph_inputs |-> acc.graph_inputs, abort |-> ab]
  <2>1. new = [acc EXCEPT !.copies = cop, !.splits = spn, !.abort = ab]
    BY <1>2 DEF NewInput
  <2> HIDE DEF new, sp, cop, ab, spn
  <2> QED BY <1>1, <2>1
<1>6. /\ part \in Parts(g) /\ part.inputs = in
      /\ part.backend_id = sp[L].backend_id /\ part.i_start = sp[L].i_start
  <2> HIDE DEF in
  <2> QED BY <1>3, <1>4 DEF Parts
<1> HIDE DEF part
<1>7. /\ spn \in Seq(Parts(g)) /\ Len(spn) = L /\ spn[L] = part
      /\ \A k \in 1 .. L : k # L => spn[k] = sp[k]
  <2> HIDE DEF sp
  <2> QED BY <1>1, <1>2, <1>6
<1> HIDE DEF spn
<1>8. Grown(g, sp, spn, s)
  <2>1. \A k \in 1 .. L : /\ spn[k].backend_id = sp[k].backend_id
                          /\ spn[k].i_start = sp[k].i_start
    BY <1>6, <1>7
  <2> QED BY <1>2, <1>4, <1>6, <1>7, <2>1 DEF Grown
<1>9. cop \in SUBSET (Tensors(g) \X Backends) /\ ab \in BOOLEAN
  <2>1. cop \in SUBSET (Tensors(g) \X Backends)
    BY <1>1
  <2>2. ab \in BOOLEAN
    OBVIOUS
  <2> QED BY <2>1, <2>2
<1> HIDE DEF new, cop, ab
<1>10. new \in Accs(g)
  BY <1>1, <1>5, <1>7, <1>9 DEF Accs
<1>11. /\ new.src = acc.src /\ new.copies = cop /\ new.splits = spn /\ new.abort = ab
  BY <1>5
<1> QED BY <1>2, <1>8, <1>10, <1>11 DEF new, cop, ab

LEMMA GrownStarts ==
  ASSUME NEW g, NEW ids, NEW i, NEW splits, Starts(g, ids, i, splits),
         NEW m \in 1 .. i, ~ViewOp(g, g.nodes[m]),
         NEW new, NEW s, Grown(g, splits, new, s)
  PROVE  /\ Starts(g, ids, i, new)
         /\ \A k \in 1 .. Len(new), l \in Nat : InPart(new, k, l) <=> InPart(splits, k, l)
<1> DEFINE L == Len(splits)
<1>1. /\ new \in Seq(Parts(g)) /\ Len(new) = L /\ L \in Nat \ {0}
      /\ \A k \in 1 .. L : /\ new[k].backend_id = splits[k].backend_id
                           /\ new[k].i_start = splits[k].i_start
  BY Zenon DEF Grown
<1>2. ASSUME NEW k \in 1 .. L, NEW l PROVE InPart(new, k, l) <=> InPart(splits, k, l)
  <2> HIDE DEF L
  <2>1. k < L => k + 1 \in 1 .. L
    BY <1>1
  <2> QED BY <1>1, <2>1 DEF InPart, L
<1>3. new # <<>> /\ new[1].i_start = 1
  <2>1. splits[1].i_start = 1 /\ 1 \in 1 .. L
    BY <1>1 DEF Starts
  <2> QED BY <1>1, <2>1
<1>4. \A k \in 1 .. L : k <= new[k].i_start /\ new[k].i_start <= (IF i = 0 THEN 1 ELSE i)
  BY <1>1 DEF Starts
<1>5. \A k, l \in 1 .. L : k < l => new[k].i_start < new[l].i_start
  BY <1>1 DEF Starts
<1>6. \A j \in 1 .. i : ~ViewOp(g, g.nodes[j]) =>
        \A k \in 1 .. L : InPart(new, k, j) => new[k].backend_id = ids[g.nodes[j]]
  BY <1>1, <1>2 DEF Starts
<1> QED BY <1>1, <1>2, <1>3, <1>4, <1>5, <1>6 DEF Starts

LEMMA GrownNeeded ==
  ASSUME NEW g, NEW ids, NEW i \in Nat \ {0}, NEW splits, Starts(g, ids, i, splits),
         Needed(g, ids, i, splits), NEW new, NEW s, Grown(g, splits, new, s),
         Needs(g, ids, splits[Len(splits)].backend_id, i, s),
         \A k \in 1 .. Len(new), l \in Nat : InPart(new, k, l) <=> InPart(splits, k, l)
  PROVE  Needed(g, ids, i, new)
<1> DEFINE L == Len(splits)
<1>1. /\ Len(new) = L /\ L \in Nat \ {0} /\ L \in 1 .. L
      /\ \A k \in 1 .. L : new[k].backend_id = splits[k].backend_id
      /\ \A k \in 1 .. L : k # L => new[k].inputs = splits[k].inputs
      /\ Range(new[L].inputs) = Range(splits[L].inputs) \cup {s}
  BY DEF Grown
<1>2. SUFFICES ASSUME NEW k \in 1 .. L, NEW y \in Range(new[k].inputs)
               PROVE  \E m \in 1 .. i : InPart(new, k, m) /\ Needs(g, ids, new[k].backend_id, m, y)
  BY <1>1 DEF Needed
<1>3. CASE y \in Range(splits[k].inputs)
  <2>1. PICK m \in 1 .. i : InPart(splits, k, m) /\ Needs(g, ids, splits[k].backend_id, m, y)
    BY <1>3 DEF Needed
  <2>2. m \in Nat
    OBVIOUS
  <2> QED BY <1>1, <2>1, <2>2
<1>4. CASE k = L /\ y = s
  <2>1. InPart(splits, L, i) /\ i \in 1 .. i /\ i \in Nat
    BY InLast
  <2> QED BY <1>1, <1>4, <2>1
<1> QED BY <1>1, <1>3, <1>4

LEMMA GrownFits ==
  ASSUME NEW g, NEW ids, NEW splits, NEW copies, NEW abort \in BOOLEAN,
         Fits(ids, splits, copies, abort),
         NEW new, NEW s, Grown(g, splits, new, s), splits \in Seq(Parts(g)),
         NEW b, b = splits[Len(splits)].backend_id, <<s, b>> \notin copies
  PROVE  Fits(ids, new, copies \cup {<<s, b>>},
              abort \/ Len(splits[Len(splits)].inputs) >= MaxSplitInputs)
<1> DEFINE L == Len(splits)
           cop == copies \cup {<<s, b>>}
           ab == abort \/ Len(splits[L].inputs) >= MaxSplitInputs
<1>1. /\ Len(new) = L /\ L \in Nat \ {0} /\ L \in 1 .. L
      /\ \A k \in 1 .. L : new[k].backend_id = splits[k].backend_id
      /\ \A k \in 1 .. L : k # L => new[k].inputs = splits[k].inputs
      /\ Len(new[L].inputs) = Len(splits[L].inputs) + 1
      /\ Range(new[L].inputs) = Range(splits[L].inputs) \cup {s}
  BY DEF Grown
<1>2. ~ab => \A k \in 1 .. L : Len(new[k].inputs) <= MaxSplitInputs
  <2> SUFFICES ASSUME ~ab, NEW k \in 1 .. L PROVE Len(new[k].inputs) <= MaxSplitInputs
    OBVIOUS
  <2>1. Len(splits[k].inputs) <= MaxSplitInputs /\ Len(splits[L].inputs) \in Nat
    BY <1>1, PartIs DEF Fits
  <2> QED BY <1>1, <2>1, BackendFacts, SMTT(30)
<1>3. \A k \in 1 .. L : \A x \in Range(new[k].inputs) : <<x, new[k].backend_id>> \in cop
  <2> TAKE k \in 1 .. L
  <2> TAKE x \in Range(new[k].inputs)
  <2>1. CASE k = L /\ x = s
    BY <1>1, <2>1
  <2>2. CASE ~(k = L /\ x = s)
    <3>1. x \in Range(splits[k].inputs)
      BY <1>1, <2>2
    <3> QED BY <1>1, <3>1 DEF Fits
  <2> QED BY <2>1, <2>2
<1>4. ASSUME NEW x, NEW a, <<x, a>> \in cop, ids[x] # a
      PROVE  \E k \in 1 .. L : new[k].backend_id = a /\ x \in Range(new[k].inputs)
  <2>1. CASE <<x, a>> \in copies
    <3>1. PICK k \in 1 .. L : splits[k].backend_id = a /\ x \in Range(splits[k].inputs)
      BY <1>4, <2>1 DEF Fits
    <3> QED BY <1>1, <3>1
  <2>2. CASE <<x, a>> = <<s, b>>
    BY <1>1, <2>2
  <2> QED BY <1>4, <2>1, <2>2
<1>5. ASSUME NEW k \in 1 .. L, NEW m \in 1 .. L, k # m, new[k].backend_id = new[m].backend_id,
             NEW x \in Range(new[k].inputs), x \in Range(new[m].inputs)
      PROVE  FALSE
  <2>1. CASE x \in Range(splits[k].inputs) /\ x \in Range(splits[m].inputs)
    BY <1>1, <1>5, <2>1 DEF Fits
  <2>2. CASE k = L /\ x = s /\ x \in Range(splits[m].inputs)
    <3>1. <<x, splits[m].backend_id>> \in copies
      BY <2>2 DEF Fits
    <3> QED BY <1>1, <1>5, <2>2, <3>1
  <2>3. CASE m = L /\ x = s /\ x \in Range(splits[k].inputs)
    <3>1. <<x, splits[k].backend_id>> \in copies
      BY <2>3 DEF Fits
    <3> QED BY <1>1, <1>5, <2>3, <3>1
  <2>4. \A l \in 1 .. L : x \in Range(new[l].inputs) => x \in Range(splits[l].inputs) \/ (l = L /\ x = s)
    BY <1>1
  <2> QED BY <1>5, <2>1, <2>2, <2>3, <2>4
<1>6. \A k, m \in 1 .. L : k # m /\ new[k].backend_id = new[m].backend_id =>
        Range(new[k].inputs) \cap Range(new[m].inputs) = {}
  BY <1>5
<1> HIDE DEF cop, ab
<1>7. Fits(ids, new, cop, ab)
  <2>1. \A x, a : <<x, a>> \in cop /\ ids[x] # a =>
          \E k \in 1 .. L : new[k].backend_id = a /\ x \in Range(new[k].inputs)
    BY <1>4
  <2>2. Len(new) = L
    BY <1>1
  <2> HIDE DEF L
  <2> QED BY <1>2, <1>3, <1>6, <2>1, <2>2, ZenonT(30) DEF Fits
<1> QED BY <1>7 DEF cop, ab

LEMMA GrownServed ==
  ASSUME NEW g, NEW ids, NEW n, NEW c, NEW splits, NEW new, NEW s, Grown(g, splits, new, s),
         NEW k \in 1 .. Len(splits), NEW x, NEW place, Served(g, ids, n, c, splits, k, x, place)
  PROVE  Served(g, ids, n, c, new, k, x, place)
<1>1. /\ Len(splits) \in Nat
      /\ \A m \in 1 .. Len(splits) : /\ new[m].backend_id = splits[m].backend_id
                                     /\ Range(splits[m].inputs) \subseteq Range(new[m].inputs)
  BY DEF Grown
<1>2. \A m \in 1 .. k : m \in 1 .. Len(splits)
  BY <1>1
<1> QED BY <1>1, <1>2 DEF Served

LEMMA GrownReads ==
  ASSUME NEW g, NEW ids, NEW n, NEW c, NEW i, NEW j, NEW splits, NEW src,
         Reads(g, ids, n, c, i, j, splits, src), NEW new, NEW s, Grown(g, splits, new, s),
         \A k \in 1 .. Len(new), l \in Nat : InPart(new, k, l) <=> InPart(splits, k, l)
  PROVE  Reads(g, ids, n, c, i, j, new, src)
<1>1. Len(new) = Len(splits)
  BY DEF Grown
<1>2. ASSUME NEW m \in 1 .. Len(g.nodes), ~ViewOp(g, g.nodes[m]),
             NEW l \in 1 .. Len(g.t[g.nodes[m]].src), m < i \/ (m = i /\ l <= j),
             NEW k \in 1 .. Len(new), InPart(new, k, m)
      PROVE  Served(g, ids, n, c, new, k, g.t[g.nodes[m]].src[l], src[g.nodes[m]][l])
  <2>1. InPart(splits, k, m) /\ k \in 1 .. Len(splits)
    BY <1>1, <1>2
  <2>2. Served(g, ids, n, c, splits, k, g.t[g.nodes[m]].src[l], src[g.nodes[m]][l])
    BY <1>2, <2>1 DEF Reads
  <2> QED BY <2>1, <2>2, GrownServed
<1> QED BY <1>2 DEF Reads

\* Source j of node i is used as it is.
LEMMA KeptReads ==
  ASSUME NEW g, NEW ids, NEW n, NEW c, NEW i \in 1 .. Len(g.nodes), Len(g.nodes) \in Nat,
         NEW splits, Starts(g, ids, i, splits), NEW x, x = g.nodes[i],
         NEW j \in 1 .. Len(g.t[x].src), Len(g.t[x].src) \in Nat,
         NEW src, Reads(g, ids, n, c, i, j - 1, splits, src),
         NEW s, s = g.t[x].src[j], NEW b, b = Last(splits).backend_id,
         ids[s] = b \/ BufferSupported(g, ids, s, b)
  PROVE  Reads(g, ids, n, c, i, j, splits, src)
<1>1. ASSUME NEW m \in 1 .. Len(g.nodes), ~ViewOp(g, g.nodes[m]),
             NEW l \in 1 .. Len(g.t[g.nodes[m]].src), m < i \/ (m = i /\ l <= j),
             NEW k \in 1 .. Len(splits), InPart(splits, k, m)
      PROVE  Served(g, ids, n, c, splits, k, g.t[g.nodes[m]].src[l], src[g.nodes[m]][l])
  <2>1. CASE m < i \/ (m = i /\ l <= j - 1)
    BY <1>1, <2>1 DEF Reads
  <2>2. CASE m = i /\ l = j
    <3>1. src[x][j] = Original(g, s, n, c)
      <4>1. \A l1 \in 1 .. Len(g.t[g.nodes[m]].src) : m > i \/ (m = i /\ l1 > j - 1) =>
              src[g.nodes[m]][l1] = Original(g, g.t[g.nodes[m]].src[l1], n, c)
        BY <1>1, Zenon DEF Reads
      <4>2. m = i /\ l > j - 1
        BY <2>2
      <4> QED BY <2>2, <4>1, <4>2
    <3>2. k = Len(splits) /\ b = splits[k].backend_id
      BY <1>1, <2>2, InLast
    <3> QED BY <2>2, <3>1, <3>2 DEF Served
  <2> QED BY <1>1, <2>1, <2>2
<1>2. ASSUME NEW m \in 1 .. Len(g.nodes), ~ViewOp(g, g.nodes[m]),
             NEW l \in 1 .. Len(g.t[g.nodes[m]].src), m > i \/ (m = i /\ l > j)
      PROVE  src[g.nodes[m]][l] = Original(g, g.t[g.nodes[m]].src[l], n, c)
  <2>1. m > i \/ (m = i /\ l > j - 1)
    BY <1>2
  <2> QED BY <1>2, <2>1 DEF Reads
<1>3. \A y \in Tensors(g) : Len(src[y]) = Len(g.t[y].src)
  BY DEF Reads
<1> QED BY <1>1, <1>2, <1>3, Zenon DEF Reads

\* Source j of node i is replaced by a copy.
LEMMA RewrittenReads ==
  ASSUME NEW g, SoundGraph(g), NEW ids, NEW n, NEW c \in Nat, NEW i \in 1 .. Len(g.nodes),
         NEW splits, Starts(g, ids, i, splits), NEW x, x = g.nodes[i],
         NEW j \in 1 .. Len(g.t[x].src),
         NEW src \in [Tensors(g) -> Seq(Places(g))], Reads(g, ids, n, c, i, j - 1, splits, src),
         NEW s \in Tensors(g), s = g.t[x].src[j], NEW b \in Backends, b = Last(splits).backend_id,
         \E m \in 1 .. Len(splits) : splits[m].backend_id = b /\ s \in Range(splits[m].inputs)
  PROVE  LET new == [src EXCEPT ![x][j] = CopyOf(s, b, c)]
         IN  new \in [Tensors(g) -> Seq(Places(g))] /\ Reads(g, ids, n, c, i, j, splits, new)
<1> DEFINE place == CopyOf(s, b, c)
           new == [src EXCEPT ![x][j] = place]
<1>1. /\ Len(g.nodes) \in Nat /\ x \in Tensors(g) /\ Len(g.t[x].src) \in Nat
      /\ DOMAIN g.nodes = 1 .. Len(g.nodes) /\ IsInjective(g.nodes)
      /\ \A m \in 1 .. Len(g.nodes) : g.nodes[m] \in Tensors(g)
  BY GraphIs, Zenon DEF SoundGraph
<1>2. \A y \in Tensors(g) : Len(src[y]) = Len(g.t[y].src)
  BY DEF Reads
<1>3. src[x] \in Seq(Places(g)) /\ j \in 1 .. Len(src[x]) /\ DOMAIN src[x] = 1 .. Len(src[x])
  BY <1>1, <1>2
<1>4. place \in Places(g)
  BY DEF CopyOf, Places
<1> HIDE DEF place
<1> DEFINE row == [src[x] EXCEPT ![j] = place]
<1>5. /\ row \in Seq(Places(g)) /\ Len(row) = Len(src[x]) /\ row[j] = place
      /\ \A l \in 1 .. Len(src[x]) : l # j => row[l] = src[x][l]
  BY <1>3, <1>4
<1>6. new = [src EXCEPT ![x] = row]
  BY <1>1
<1> HIDE DEF row, new
<1>7. /\ new \in [Tensors(g) -> Seq(Places(g))] /\ new[x] = row
      /\ \A y \in Tensors(g) : y # x => new[y] = src[y]
  BY <1>1, <1>5, <1>6
<1>8. \A y \in Tensors(g) : Len(new[y]) = Len(g.t[y].src)
  BY <1>2, <1>5, <1>7
<1>9. ASSUME NEW m \in 1 .. Len(g.nodes), NEW l \in 1 .. Len(g.t[g.nodes[m]].src),
             ~(m = i /\ l = j)
      PROVE  new[g.nodes[m]][l] = src[g.nodes[m]][l]
  <2>1. CASE g.nodes[m] = x
    <3>1. m = i
      BY <1>1, <2>1 DEF IsInjective
    <3> QED BY <1>1, <1>2, <1>5, <1>7, <1>9, <2>1, <3>1
  <2>2. CASE g.nodes[m] # x
    BY <1>1, <1>7, <2>2
  <2> QED BY <2>1, <2>2
<1>10. ASSUME NEW m \in 1 .. Len(g.nodes), ~ViewOp(g, g.nodes[m]),
              NEW l \in 1 .. Len(g.t[g.nodes[m]].src), m < i \/ (m = i /\ l <= j),
              NEW k \in 1 .. Len(splits), InPart(splits, k, m)
       PROVE  Served(g, ids, n, c, splits, k, g.t[g.nodes[m]].src[l], new[g.nodes[m]][l])
  <2>1. CASE m < i \/ (m = i /\ l <= j - 1)
    <3>1. Served(g, ids, n, c, splits, k, g.t[g.nodes[m]].src[l], src[g.nodes[m]][l])
      BY <1>10, <2>1 DEF Reads
    <3>2. ~(m = i /\ l = j)
      BY <1>1, <2>1
    <3> QED BY <1>9, <3>1, <3>2
  <2>2. CASE m = i /\ l = j
    <3>1. new[x][j] = CopyOf(s, b, c)
      BY <1>5, <1>7 DEF place
    <3>2. k = Len(splits) /\ b = splits[k].backend_id
      BY <1>1, <1>10, <2>2, InLast
    <3> QED BY <2>2, <3>1, <3>2 DEF Served
  <2> QED BY <1>1, <1>10, <2>1, <2>2
<1>11. ASSUME NEW m \in 1 .. Len(g.nodes), ~ViewOp(g, g.nodes[m]),
              NEW l \in 1 .. Len(g.t[g.nodes[m]].src), m > i \/ (m = i /\ l > j)
       PROVE  new[g.nodes[m]][l] = Original(g, g.t[g.nodes[m]].src[l], n, c)
  <2>1. (m > i \/ (m = i /\ l > j - 1)) /\ ~(m = i /\ l = j)
    BY <1>1, <1>11
  <2>2. src[g.nodes[m]][l] = Original(g, g.t[g.nodes[m]].src[l], n, c)
    BY <1>11, <2>1 DEF Reads
  <2> QED BY <1>9, <2>1, <2>2
<1>12. Reads(g, ids, n, c, i, j, splits, new)
  BY <1>8, <1>10, <1>11, Zenon DEF Reads
<1> QED BY <1>7, <1>12 DEF new, place

LEMMA AddGraphInputKeeps ==
  ASSUME NEW g, NEW ids, NEW n, NEW acc \in Accs(g), NEW s \in Tensors(g),
         g.t[s].input => ids[s] \in Backends,
         Fits(ids, acc.splits, acc.copies, acc.abort)
  PROVE  LET new == AddGraphInput(g, ids, n, acc, s)
         IN  /\ new \in Accs(g) /\ new.splits = acc.splits /\ new.src = acc.src
             /\ Fits(ids, new.splits, new.copies, new.abort)
<1> DEFINE new == AddGraphInput(g, ids, n, acc, s)
           cop == acc.copies \cup {<<s, ids[s]>>}
           inp == Append(acc.graph_inputs, s)
           ab == acc.abort \/ Len(acc.graph_inputs) >= MaxSplitInputs
<1>1. CASE ~g.t[s].input \/ n = 1 \/ Copied(acc, s, ids[s])
  BY <1>1 DEF AddGraphInput
<1>2. CASE ~(~g.t[s].input \/ n = 1 \/ Copied(acc, s, ids[s]))
  <2>1. new = [acc EXCEPT !.copies = cop, !.graph_inputs = inp, !.abort = ab]
    BY <1>2 DEF AddGraphInput
  <2>2. cop \in SUBSET (Tensors(g) \X Backends) /\ inp \in Seq(Tensors(g)) /\ ab \in BOOLEAN
    <3>1. acc.copies \in SUBSET (Tensors(g) \X Backends) /\ acc.graph_inputs \in Seq(Tensors(g))
      BY DEF Accs
    <3>2. <<s, ids[s]>> \in Tensors(g) \X Backends
      BY <1>2
    <3>3. cop \in SUBSET (Tensors(g) \X Backends)
      BY <3>1, <3>2
    <3>4. ab \in BOOLEAN
      OBVIOUS
    <3> QED BY <3>1, <3>3, <3>4
  <2>3. acc.abort => ab
    OBVIOUS
  <2> HIDE DEF new, inp, ab
  <2>4. new \in Accs(g) /\ new.splits = acc.splits /\ new.src = acc.src
        /\ new.copies = cop /\ new.abort = ab
    <3> HIDE DEF cop
    <3> QED BY <2>1, <2>2 DEF Accs
  <2>5. Fits(ids, acc.splits, cop, ab)
    <3>1. \A x, b : <<x, b>> \in cop /\ ids[x] # b => <<x, b>> \in acc.copies
      OBVIOUS
    <3>2. acc.copies \subseteq cop
      OBVIOUS
    <3> HIDE DEF cop
    <3> QED BY <2>3, <3>1, <3>2 DEF Fits
  <2> QED BY <2>4, <2>5 DEF new
<1> QED BY <1>1, <1>2

LEMMA AddSourceKeeps ==
  ASSUME NEW g, SoundGraph(g), NEW asked, NEW ids \in Assigned(g, asked),
         NEW n, NEW c \in Nat, NEW i \in 1 .. Len(g.nodes), NEW x, x = g.nodes[i], ~ViewOp(g, x),
         NEW j \in 1 .. Len(g.t[x].src), NEW acc \in Within(g, ids, n, c, i, j - 1)
  PROVE  AddSource(g, ids, n, c, acc, x, j) \in Within(g, ids, n, c, i, j)
<1> DEFINE s == g.t[x].src[j]
           b == Last(acc.splits).backend_id
           added == AddGraphInput(g, ids, n, acc, s)
           new == AddSource(g, ids, n, c, acc, x, j)
<1>1. /\ acc \in Accs(g) /\ Starts(g, ids, i, acc.splits)
      /\ Fits(ids, acc.splits, acc.copies, acc.abort)
      /\ Reads(g, ids, n, c, i, j - 1, acc.splits, acc.src)
      /\ Needed(g, ids, i, acc.splits)
  BY DEF Within
<1>2. /\ x \in Tensors(g) /\ s \in Tensors(g) /\ Len(g.nodes) \in Nat /\ Len(g.t[x].src) \in Nat
      /\ i \in Nat \ {0} /\ i \in 1 .. i
  BY GraphIs, SMTT(30)
<1>3. g.t[s].input => ids[s] \in Backends
  BY <1>2 DEF Assigned, Assigning
<1>4. /\ added \in Accs(g) /\ added.splits = acc.splits /\ added.src = acc.src
      /\ Fits(ids, added.splits, added.copies, added.abort)
  BY <1>1, <1>2, <1>3, AddGraphInputKeeps
<1>5. /\ Len(acc.splits) \in Nat \ {0} /\ acc.splits # <<>> /\ acc.splits \in Seq(Parts(g))
      /\ Last(acc.splits) = acc.splits[Len(acc.splits)]
      /\ Len(acc.splits) \in 1 .. Len(acc.splits)
  <2>1. /\ Len(acc.splits) \in Nat \ {0}
        /\ Last(acc.splits) = acc.splits[Len(acc.splits)]
    BY <1>1, <1>2, InLast
  <2>2. acc.splits # <<>> /\ acc.splits \in Seq(Parts(g))
    BY <1>1 DEF Starts
  <2> QED BY <2>1, <2>2
<1>6. b \in Backends /\ b = acc.splits[Len(acc.splits)].backend_id
  <2>1. acc.splits[Len(acc.splits)].backend_id \in Backends
    BY <1>5, PartIs
  <2> QED BY <1>5, <2>1
<1>9. s \in Sources(g, x)
  BY <1>2, GraphIs DEF Sources, Range
<1> HIDE DEF s, added
<1>7. CASE ids[s] = b \/ BufferSupported(g, ids, s, b)
  <2>1. new = added
    BY <1>7 DEF AddSource, s, added
  <2>2. Reads(g, ids, n, c, i, j, acc.splits, acc.src)
    BY <1>1, <1>2, <1>7, KeptReads DEF s
  <2> QED BY <1>1, <1>4, <2>1, <2>2 DEF Within
<1>8. CASE ~(ids[s] = b \/ BufferSupported(g, ids, s, b))
  <2> DEFINE held == IF Copied(added, s, b) THEN added ELSE NewInput(added, s, b)
             src == [held.src EXCEPT ![x][j] = CopyOf(s, b, c)]
  <2>1. new = [held EXCEPT !.src[x][j] = CopyOf(s, b, c)]
    BY <1>8 DEF AddSource, UseCopy, s, added
  <2>2. /\ held \in Accs(g) /\ Starts(g, ids, i, held.splits)
        /\ Fits(ids, held.splits, held.copies, held.abort)
        /\ Reads(g, ids, n, c, i, j - 1, held.splits, held.src)
        /\ Needed(g, ids, i, held.splits)
        /\ b = Last(held.splits).backend_id
        /\ \E m \in 1 .. Len(held.splits) :
             held.splits[m].backend_id = b /\ s \in Range(held.splits[m].inputs)
    <3>1. CASE Copied(added, s, b)
      <4>1. held = added
        BY <3>1
      <4>2. <<s, b>> \in added.copies /\ ids[s] # b
        BY <1>8, <3>1 DEF Copied
      <4>3. \E m \in 1 .. Len(added.splits) :
              added.splits[m].backend_id = b /\ s \in Range(added.splits[m].inputs)
        BY <1>4, <4>2 DEF Fits
      <4> HIDE DEF held
      <4> QED BY <1>1, <1>4, <4>1, <4>3
    <3>2. CASE ~Copied(added, s, b)
      <4> DEFINE L == Len(acc.splits)
      <4>1. held = NewInput(added, s, b) /\ <<s, b>> \notin added.copies
        BY <3>2 DEF Copied
      <4>2. /\ held \in Accs(g) /\ held.src = added.src /\ held.copies = added.copies \cup {<<s, b>>}
            /\ held.abort = (added.abort \/ Len(added.splits[Len(added.splits)].inputs) >= MaxSplitInputs)
            /\ Grown(g, added.splits, held.splits, s)
        <5> HIDE DEF held
        <5> QED BY <1>2, <1>4, <1>5, <1>6, <4>1, NewInputIs
      <4> HIDE DEF held
      <4>3. /\ Starts(g, ids, i, held.splits)
            /\ \A k \in 1 .. Len(held.splits), l \in Nat :
                 InPart(held.splits, k, l) <=> InPart(acc.splits, k, l)
        BY <1>1, <1>2, <1>4, <4>2, GrownStarts
      <4>4. added.abort \in BOOLEAN
        BY <1>4 DEF Accs
      <4>5. Fits(ids, held.splits, held.copies, held.abort)
        <5> DEFINE sp == acc.splits
                   cop == added.copies
                   ab == added.abort
        <5>1. Fits(ids, sp, cop, ab) /\ Grown(g, sp, held.splits, s) /\ sp \in Seq(Parts(g))
              /\ b = sp[Len(sp)].backend_id /\ <<s, b>> \notin cop /\ ab \in BOOLEAN
          BY <1>4, <1>5, <1>6, <4>1, <4>2, <4>4
        <5>2. held.copies = cop \cup {<<s, b>>} /\ held.abort = (ab \/ Len(sp[Len(sp)].inputs) >= MaxSplitInputs)
          BY <1>4, <4>2
        <5> HIDE DEF sp, cop, ab, b
        <5>3. Fits(ids, held.splits, cop \cup {<<s, b>>}, ab \/ Len(sp[Len(sp)].inputs) >= MaxSplitInputs)
          BY <5>1, ZenonT(40), GrownFits
        <5> QED BY <5>2, <5>3
      <4>6. Reads(g, ids, n, c, i, j - 1, held.splits, held.src)
        BY <1>1, <1>4, <4>2, <4>3, GrownReads
      <4>7. /\ Len(held.splits) = L /\ L \in 1 .. L
            /\ held.splits[L].backend_id = b /\ s \in Range(held.splits[L].inputs)
        BY <1>4, <1>5, <1>6, <4>2 DEF Grown
      <4>8. Last(held.splits) = held.splits[L]
        BY <4>7 DEF Last
      <4>9. Needed(g, ids, i, held.splits)
        <5>1. Needs(g, ids, acc.splits[Len(acc.splits)].backend_id, i, s)
          BY <1>6, <1>8, <1>9 DEF Needs
        <5> QED BY <1>1, <1>2, <1>4, <4>2, <4>3, <5>1, GrownNeeded
      <4> QED BY <4>2, <4>3, <4>5, <4>6, <4>7, <4>8, <4>9
    <3> QED BY <3>1, <3>2
  <2> HIDE DEF held
  <2>3. held.src \in [Tensors(g) -> Seq(Places(g))]
    BY <2>2 DEF Accs
  <2>4. src \in [Tensors(g) -> Seq(Places(g))] /\ Reads(g, ids, n, c, i, j, held.splits, src)
    BY <1>2, <1>6, <2>2, <2>3, RewrittenReads, ZenonT(60) DEF s
  <2>5. new = [held EXCEPT !.src = src]
    BY <2>1, <2>2 DEF Accs
  <2> HIDE DEF src, new
  <2>6. /\ new \in Accs(g) /\ new.splits = held.splits /\ new.copies = held.copies
        /\ new.abort = held.abort /\ new.src = src
    BY <2>2, <2>4, <2>5 DEF Accs
  <2>7. new \in Within(g, ids, n, c, i, j)
    BY <2>2, <2>4, <2>6 DEF Within
  <2> QED BY <2>7 DEF new
<1> QED BY <1>7, <1>8

LEMMA NeededMore ==
  ASSUME NEW g, NEW ids, NEW i \in Nat \ {0}, NEW splits, Needed(g, ids, i - 1, splits)
  PROVE  Needed(g, ids, i, splits)
<1>1. 1 .. (i - 1) \subseteq 1 .. i
  OBVIOUS
<1> QED BY <1>1, Zenon DEF Needed

\* A node that is not computed changes nothing.
LEMMA PassOver ==
  ASSUME NEW g, NEW ids, NEW n, NEW c, NEW i \in 1 .. Len(g.nodes), Len(g.nodes) \in Nat,
         ViewOp(g, g.nodes[i]), NEW acc \in Past(g, ids, n, c, i - 1)
  PROVE  acc \in Past(g, ids, n, c, i)
<1>1. /\ acc \in Accs(g) /\ Starts(g, ids, i - 1, acc.splits)
      /\ Fits(ids, acc.splits, acc.copies, acc.abort)
      /\ Reads(g, ids, n, c, i, 0, acc.splits, acc.src)
      /\ Needed(g, ids, i - 1, acc.splits)
  BY DEF Past
<1> DEFINE sp == acc.splits
<1>2. Starts(g, ids, i, sp)
  <2>1. sp \in Seq(Parts(g)) /\ sp # <<>> /\ sp[1].i_start = 1
    BY <1>1 DEF Starts
  <2>2. \A k \in 1 .. Len(sp) : k <= sp[k].i_start /\ sp[k].i_start <= (IF i = 0 THEN 1 ELSE i)
    <3> TAKE k \in 1 .. Len(sp)
    <3>1. sp[k].i_start \in Nat
      BY <2>1, PartIs
    <3>2. k <= sp[k].i_start /\ sp[k].i_start <= (IF i - 1 = 0 THEN 1 ELSE i - 1)
      BY <1>1 DEF Starts
    <3> QED BY <3>1, <3>2
  <2>3. \A k, m \in 1 .. Len(sp) : k < m => sp[k].i_start < sp[m].i_start
    BY <1>1 DEF Starts
  <2>4. ASSUME NEW m \in 1 .. i, ~ViewOp(g, g.nodes[m]), NEW k \in 1 .. Len(sp), InPart(sp, k, m)
        PROVE  sp[k].backend_id = ids[g.nodes[m]]
    <3>1. m \in 1 .. i - 1
      BY <2>4
    <3> QED BY <1>1, <2>4, <3>1 DEF Starts
  <2>5. ASSUME \A m \in 1 .. i : ViewOp(g, g.nodes[m])
        PROVE  Len(sp) = 1 /\ sp[1].inputs = <<>> /\ sp[1].backend_id = ids[g.nodes[FirstOp(g)]]
    <3>1. \A m \in 1 .. i - 1 : ViewOp(g, g.nodes[m])
      BY <2>5
    <3> QED BY <1>1, <3>1 DEF Starts
  <2> QED BY <2>1, <2>2, <2>3, <2>4, <2>5, Zenon DEF Starts
<1>3. Reads(g, ids, n, c, i + 1, 0, sp, acc.src)
  <2>1. ASSUME NEW m \in 1 .. Len(g.nodes), ~ViewOp(g, g.nodes[m]),
               NEW l \in 1 .. Len(g.t[g.nodes[m]].src)
        PROVE  /\ m < i + 1 \/ (m = i + 1 /\ l <= 0) => m < i
               /\ m > i + 1 \/ (m = i + 1 /\ l > 0) => m > i
    <3>1. m # i
      BY <2>1
    <3> QED BY <3>1
  <2> QED BY <1>1, <2>1, Zenon DEF Reads
<1>4. Needed(g, ids, i, sp)
  BY <1>1, NeededMore
<1> QED BY <1>1, <1>2, <1>3, <1>4 DEF Past

\* A node that is computed in the last split.
LEMMA StaysInSplit ==
  ASSUME NEW g, NEW ids, NEW i \in 1 .. Len(g.nodes), Len(g.nodes) \in Nat, NEW x, x = g.nodes[i],
         ~ViewOp(g, x), NEW splits, Starts(g, ids, i - 1, splits),
         Last(splits).backend_id = ids[x]
  PROVE  Starts(g, ids, i, splits)
<1> DEFINE L == Len(splits)
<1>1. splits \in Seq(Parts(g)) /\ splits # <<>> /\ splits[1].i_start = 1
  BY DEF Starts
<1>2. L \in Nat \ {0} /\ Last(splits) = splits[L]
  BY <1>1 DEF Last
<1>3. ASSUME NEW k \in 1 .. L
      PROVE  /\ splits[k].i_start \in Nat /\ k <= splits[k].i_start
             /\ splits[k].i_start <= (IF i - 1 = 0 THEN 1 ELSE i - 1)
             /\ splits[k].i_start <= (IF i = 0 THEN 1 ELSE i)
  <2>1. splits[k].i_start \in Nat
    BY <1>1, PartIs
  <2>2. k <= splits[k].i_start /\ splits[k].i_start <= (IF i - 1 = 0 THEN 1 ELSE i - 1)
    BY DEF Starts
  <2> QED BY <2>1, <2>2
<1>4. \A k, m \in 1 .. L : k < m => splits[k].i_start < splits[m].i_start
  BY DEF Starts
<1>5. ASSUME NEW m \in 1 .. i, ~ViewOp(g, g.nodes[m]), NEW k \in 1 .. L, InPart(splits, k, m)
      PROVE  splits[k].backend_id = ids[g.nodes[m]]
  <2>1. CASE m # i
    <3>1. m \in 1 .. i - 1
      BY <2>1
    <3> QED BY <1>5, <3>1 DEF Starts
  <2>2. CASE m = i
    <3>1. k = L
      <4>1. k < L => i < splits[k + 1].i_start
        BY <1>5, <2>2 DEF InPart
      <4> HIDE DEF L
      <4>2. k < L => k + 1 \in 1 .. L
        BY <1>2
      <4>3. ~(k < L)
        BY <1>3, <4>1, <4>2
      <4> QED BY <1>2, <4>3
    <3> QED BY <1>2, <2>2, <3>1
  <2> QED BY <2>1, <2>2
<1>6. i \in 1 .. i /\ ~ViewOp(g, g.nodes[i])
  OBVIOUS
<1> QED BY <1>1, <1>3, <1>4, <1>5, <1>6, Zenon DEF Starts

\* The last split is there, and the first computed node belongs to the first.
LEMMA NotTheFirst ==
  ASSUME NEW g, NEW ids, NEW i \in 1 .. Len(g.nodes), Len(g.nodes) \in Nat, NEW x, x = g.nodes[i],
         ~ViewOp(g, x), NEW splits, Starts(g, ids, i - 1, splits),
         ids[x] # Last(splits).backend_id \/ Last(splits).inputs # <<>>
  PROVE  \E m \in 1 .. i - 1 : ~ViewOp(g, g.nodes[m])
<1> SUFFICES ASSUME \A m \in 1 .. i - 1 : ViewOp(g, g.nodes[m]) PROVE FALSE
  OBVIOUS
<1>1. /\ Len(splits) = 1 /\ splits[1].inputs = <<>>
      /\ splits[1].backend_id = ids[g.nodes[FirstOp(g)]]
  BY DEF Starts
<1>2. Last(splits) = splits[1]
  BY <1>1 DEF Last
<1>3. FirstOp(g) = i
  <2> DEFINE S == {k \in 1 .. Len(g.nodes) : ~ViewOp(g, g.nodes[k])}
  <2>1. i \in S /\ \A k \in S : i <= k
    OBVIOUS
  <2>2. S \subseteq Nat
    OBVIOUS
  <2>3. FirstOp(g) = Min(S)
    BY DEF FirstOp
  <2> HIDE DEF S
  <2>4. \A k \in S : (\A y \in S : k <= y) => k = i
    BY <2>1, <2>2
  <2>5. Min(S) = i
    BY <2>1, <2>4 DEF Min
  <2> QED BY <2>3, <2>5
<1> QED BY <1>1, <1>2, <1>3

\* A node with which a split begins.
LEMMA BeginsSplit ==
  ASSUME NEW g, NEW ids, NEW n, NEW c, NEW i \in 1 .. Len(g.nodes), Len(g.nodes) \in Nat,
         NEW x, x = g.nodes[i], ~ViewOp(g, x), ids[x] \in Backends,
         NEW splits, Starts(g, ids, i - 1, splits),
         NEW before \in 1 .. i - 1, ~ViewOp(g, g.nodes[before]),
         NEW copies, NEW abort, Fits(ids, splits, copies, abort), Needed(g, ids, i - 1, splits),
         NEW src, Reads(g, ids, n, c, i, 0, splits, src)
  PROVE  LET new == Append(splits, [backend_id |-> ids[x], i_start |-> i, inputs |-> <<>>])
         IN  /\ new \in Seq(Parts(g)) /\ Starts(g, ids, i, new)
             /\ Fits(ids, new, copies, abort) /\ Reads(g, ids, n, c, i, 0, new, src)
             /\ Needed(g, ids, i, new)
<1> DEFINE L == Len(splits)
           part == [backend_id |-> ids[x], i_start |-> i, inputs |-> <<>>]
           new == Append(splits, part)
<1>1. splits \in Seq(Parts(g)) /\ splits # <<>> /\ splits[1].i_start = 1
  BY DEF Starts
<1>2. part \in Parts(g)
  BY DEF Parts
<1>3. part.backend_id = ids[x] /\ part.i_start = i /\ part.inputs = <<>>
  OBVIOUS
<1> HIDE DEF part
<1>4. /\ L \in Nat \ {0} /\ new \in Seq(Parts(g)) /\ Len(new) = L + 1 /\ new[L + 1] = part
      /\ \A k \in 1 .. L : new[k] = splits[k]
  BY <1>1, <1>2
<1> HIDE DEF new
<1>5. ASSUME NEW k \in 1 .. L
      PROVE  splits[k].i_start \in Nat /\ k <= splits[k].i_start /\ splits[k].i_start <= i - 1
  <2>1. splits[k].i_start \in Nat
    BY <1>1, PartIs
  <2>2. k <= splits[k].i_start /\ splits[k].i_start <= (IF i - 1 = 0 THEN 1 ELSE i - 1)
    BY DEF Starts
  <2> QED BY <2>1, <2>2
<1> DEFINE M == Len(new)
<1>6. M = L + 1 /\ 1 .. M = 1 .. L \cup {L + 1} /\ M \in 1 .. M
  BY <1>4
<1> HIDE DEF L, M
<1>7. ASSUME NEW k \in 1 .. M, NEW m \in Nat, InPart(new, k, m)
      PROVE  (k = M /\ i <= m) \/ (k \in 1 .. L /\ m < i /\ InPart(splits, k, m))
  <2>1. new[k].i_start <= m /\ (k < M => m < new[k + 1].i_start)
    BY <1>7 DEF InPart, M
  <2>2. CASE k = M
    BY <1>3, <1>4, <1>6, <2>1, <2>2
  <2>3. CASE k \in 1 .. L
    <3>1. splits[k].i_start <= m /\ m < new[k + 1].i_start
      BY <1>4, <1>6, <2>1, <2>3
    <3>2. CASE k = L
      BY <1>3, <1>4, <2>3, <3>1, <3>2 DEF InPart, L
    <3>3. CASE k # L
      <4>1. k + 1 \in 1 .. L
        BY <1>4, <2>3, <3>3
      <4>2. new[k + 1] = splits[k + 1] /\ splits[k + 1].i_start <= i - 1 /\ splits[k + 1].i_start \in Nat
        BY <1>4, <1>5, <4>1
      <4>3. m < i
        BY <3>1, <4>2
      <4> QED BY <2>3, <3>1, <4>2, <4>3 DEF InPart
    <3> QED BY <3>2, <3>3
  <2> QED BY <1>6, <2>2, <2>3
<1>8. Starts(g, ids, i, new)
  <2>1. new # <<>> /\ new[1].i_start = 1
    BY <1>1, <1>4
  <2>2. \A k \in 1 .. M : k <= new[k].i_start /\ new[k].i_start <= (IF i = 0 THEN 1 ELSE i)
    <3> TAKE k \in 1 .. M
    <3>1. CASE k \in 1 .. L
      BY <1>4, <1>5, <3>1
    <3>2. CASE k = M
      <4>1. L \in 1 .. L /\ L <= i - 1
        BY <1>4, <1>5
      <4> QED BY <1>3, <1>4, <1>6, <3>2, <4>1
    <3> QED BY <1>6, <3>1, <3>2
  <2>3. ASSUME NEW k \in 1 .. M, NEW m \in 1 .. M, k < m PROVE new[k].i_start < new[m].i_start
    <3>1. k \in 1 .. L
      BY <1>4, <1>6, <2>3
    <3>2. CASE m \in 1 .. L
      BY <1>4, <2>3, <3>1, <3>2 DEF Starts, L
    <3>3. CASE m = M
      BY <1>3, <1>4, <1>5, <1>6, <3>1, <3>3
    <3> QED BY <1>6, <3>2, <3>3
  <2>4. ASSUME NEW m \in 1 .. i, ~ViewOp(g, g.nodes[m]), NEW k \in 1 .. M, InPart(new, k, m)
        PROVE  new[k].backend_id = ids[g.nodes[m]]
    <3>1. CASE k = M /\ i <= m
      BY <1>3, <1>4, <1>6, <3>1
    <3>2. CASE k \in 1 .. L /\ m < i /\ InPart(splits, k, m)
      <4>1. m \in 1 .. i - 1
        BY <3>2
      <4>2. splits[k].backend_id = ids[g.nodes[m]]
        BY <2>4, <3>2, <4>1 DEF Starts, L
      <4> QED BY <1>4, <3>2, <4>2
    <3> QED BY <1>7, <2>4, <3>1, <3>2
  <2>5. before \in 1 .. i
    OBVIOUS
  <2> QED BY <1>4, <2>1, <2>2, <2>3, <2>4, <2>5, Zenon DEF Starts, M
<1>9. Fits(ids, new, copies, abort)
  <2>1. Range(part.inputs) = {} /\ Len(part.inputs) = 0
    BY <1>3 DEF Range
  <2>2. ASSUME ~abort, NEW k \in 1 .. M PROVE Len(new[k].inputs) <= MaxSplitInputs
    <3>1. CASE k \in 1 .. L
      BY <1>4, <2>2, <3>1 DEF Fits, L
    <3>2. CASE k = M
      BY <1>4, <1>6, <2>1, <3>2, BackendFacts
    <3> QED BY <1>6, <3>1, <3>2
  <2>3. ASSUME NEW k \in 1 .. M, NEW s \in Range(new[k].inputs)
        PROVE  k \in 1 .. L /\ s \in Range(splits[k].inputs) /\ new[k] = splits[k]
    <3>1. k # M
      BY <1>4, <1>6, <2>1, <2>3
    <3> QED BY <1>4, <1>6, <2>3, <3>1
  <2>4. ASSUME NEW k \in 1 .. M, NEW s \in Range(new[k].inputs)
        PROVE  <<s, new[k].backend_id>> \in copies
    BY <2>3, <2>4 DEF Fits, L
  <2>5. ASSUME NEW s, NEW b, <<s, b>> \in copies, ids[s] # b
        PROVE  \E k \in 1 .. M : new[k].backend_id = b /\ s \in Range(new[k].inputs)
    <3>1. PICK k \in 1 .. L : splits[k].backend_id = b /\ s \in Range(splits[k].inputs)
      BY <2>5 DEF Fits, L
    <3> QED BY <1>4, <1>6, <3>1
  <2>6. ASSUME NEW k \in 1 .. M, NEW m \in 1 .. M, k # m,
               new[k].backend_id = new[m].backend_id
        PROVE  Range(new[k].inputs) \cap Range(new[m].inputs) = {}
    <3> SUFFICES ASSUME NEW s \in Range(new[k].inputs), s \in Range(new[m].inputs) PROVE FALSE
      OBVIOUS
    <3>1. /\ k \in 1 .. L /\ s \in Range(splits[k].inputs) /\ new[k] = splits[k]
          /\ m \in 1 .. L /\ s \in Range(splits[m].inputs) /\ new[m] = splits[m]
      BY <2>3
    <3> QED BY <2>6, <3>1 DEF Fits, L
  <2> QED BY <2>2, <2>4, <2>5, <2>6, ZenonT(40) DEF Fits, M
<1>10. Reads(g, ids, n, c, i, 0, new, src)
  <2>1. ASSUME NEW m \in 1 .. Len(g.nodes), ~ViewOp(g, g.nodes[m]),
               NEW l \in 1 .. Len(g.t[g.nodes[m]].src), m < i \/ (m = i /\ l <= 0),
               NEW k \in 1 .. M, InPart(new, k, m)
        PROVE  Served(g, ids, n, c, new, k, g.t[g.nodes[m]].src[l], src[g.nodes[m]][l])
    <3>1. m < i
      BY <2>1
    <3>2. k \in 1 .. L /\ InPart(splits, k, m)
      BY <1>7, <2>1, <3>1
    <3>3. Served(g, ids, n, c, splits, k, g.t[g.nodes[m]].src[l], src[g.nodes[m]][l])
      BY <2>1, <3>1, <3>2 DEF Reads, L
    <3>4. \A j \in 1 .. k : new[j] = splits[j]
      BY <1>4, <3>2, SMTT(30)
    <3>5. new[k] = splits[k]
      BY <1>4, <3>2
    <3>6. /\ new[k].backend_id = splits[k].backend_id
          /\ \A j \in 1 .. k : /\ new[j].backend_id = splits[j].backend_id
                               /\ new[j].inputs = splits[j].inputs
      BY <3>4, <3>5
    <3> QED BY <3>3, <3>6 DEF Served
  <2>2. \A m \in 1 .. Len(g.nodes) : ~ViewOp(g, g.nodes[m]) =>
          \A l \in 1 .. Len(g.t[g.nodes[m]].src) :
            m > i \/ (m = i /\ l > 0) =>
              src[g.nodes[m]][l] = Original(g, g.t[g.nodes[m]].src[l], n, c)
    BY Zenon DEF Reads
  <2>3. \A y \in Tensors(g) : Len(src[y]) = Len(g.t[y].src)
    BY DEF Reads
  <2> QED BY <2>1, <2>2, <2>3, Zenon DEF Reads, M
<1>11. Needed(g, ids, i, new)
  <2> SUFFICES ASSUME NEW k \in 1 .. M, NEW s \in Range(new[k].inputs)
               PROVE  \E m \in 1 .. i : InPart(new, k, m) /\ Needs(g, ids, new[k].backend_id, m, s)
    BY DEF Needed, M
  <2>1. k \in 1 .. L /\ new[k] = splits[k] /\ s \in Range(splits[k].inputs)
    <3>1. Range(part.inputs) = {}
      BY <1>3 DEF Range
    <3>2. k # M
      BY <1>4, <1>6, <3>1
    <3> QED BY <1>4, <1>6, <3>2
  <2>2. PICK m \in 1 .. i - 1 : InPart(splits, k, m) /\ Needs(g, ids, splits[k].backend_id, m, s)
    BY <2>1 DEF Needed, L
  <2>3. InPart(new, k, m)
    <3>1. splits[k].i_start <= m /\ (k < L => m < splits[k + 1].i_start)
      BY <2>2 DEF InPart, L
    <3>2. m < new[k + 1].i_start
      <4>1. CASE k = L
        BY <1>3, <1>4, <4>1
      <4>2. CASE k # L
        <5>1. k + 1 \in 1 .. L /\ k < L
          BY <1>4, <2>1, <4>2
        <5> QED BY <1>4, <3>1, <5>1
      <4> QED BY <4>1, <4>2
    <3> QED BY <2>1, <3>1, <3>2 DEF InPart
  <2> QED BY <2>1, <2>2, <2>3
<1> QED BY <1>4, <1>8, <1>9, <1>10, <1>11 DEF new, part

LEMMA PositionsIs ==
  ASSUME NEW T, NEW seq \in Seq(T)
  PROVE  Len(Positions(seq)) = Len(seq) /\ \A i \in 1 .. Len(seq) : Positions(seq)[i] = i
<1>1. Len(seq) \in Nat
  OBVIOUS
<1>2. Positions(seq) \in Seq(Nat) /\ DOMAIN Positions(seq) = 1 .. Len(seq)
  BY <1>1 DEF Positions
<1> QED BY <1>1, <1>2 DEF Positions

\* The sources of a node, one by one.
LEMMA AddSourcesKeeps ==
  ASSUME NEW g, SoundGraph(g), NEW asked, NEW ids \in Assigned(g, asked),
         NEW n, NEW c \in Nat, NEW i \in 1 .. Len(g.nodes), NEW x, x = g.nodes[i], ~ViewOp(g, x),
         NEW placed \in Within(g, ids, n, c, i, 0)
  PROVE  Along(LAMBDA a, j : AddSource(g, ids, n, c, a, x, j), placed, Positions(g.t[x].src))
           \in Past(g, ids, n, c, i)
<1> DEFINE order == Positions(g.t[x].src)
           N == Len(order)
           S == [j \in 0 .. N |-> Within(g, ids, n, c, i, j)]
           F(f) == [j \in 0 .. Len(order) |->
                      IF j = 0 THEN placed ELSE AddSource(g, ids, n, c, f[j - 1], x, order[j])]
           after == CHOOSE f : f = F(f)
<1>1. /\ N \in Nat /\ N = Len(g.t[x].src) /\ x \in Tensors(g) /\ Len(g.nodes) \in Nat
      /\ \A j \in 1 .. N : order[j] = j
  <2>1. x \in Tensors(g) /\ g.t[x].src \in Seq(Tensors(g)) /\ Len(g.t[x].src) \in Nat
        /\ Len(g.nodes) \in Nat
    BY GraphIs
  <2> QED BY <2>1, PositionsIs
<1> HIDE DEF order
<1>2. \A j \in 0 .. N : S[j] = Within(g, ids, n, c, i, j)
  OBVIOUS
<1> HIDE DEF S
<1>3. placed \in S[0]
  BY <1>1, <1>2
<1>4. ASSUME NEW j \in 1 .. N, NEW acc \in S[j - 1]
      PROVE  AddSource(g, ids, n, c, acc, x, order[j]) \in S[j]
  <2>1. j \in 0 .. N /\ j - 1 \in 0 .. N /\ j \in 1 .. Len(g.t[x].src) /\ order[j] = j
    BY <1>1
  <2>2. acc \in Within(g, ids, n, c, i, j - 1)
    BY <1>2, <2>1
  <2>3. AddSource(g, ids, n, c, acc, x, j) \in Within(g, ids, n, c, i, j)
    BY <2>1, <2>2, AddSourceKeeps
  <2> QED BY <1>2, <2>1, <2>3
<1>5. \E f : f = F(f)
  <2> DEFINE H == [j \in 1 .. N |-> [acc \in S[j - 1] |-> AddSource(g, ids, n, c, acc, x, order[j])]]
  <2>1. \A j \in 1 .. N : \A acc \in S[j - 1] : H[j][acc] = AddSource(g, ids, n, c, acc, x, order[j])
    OBVIOUS
  <2>2. Turns(H, N, S)
    BY <1>4, <2>1 DEF Turns
  <2> HIDE DEF H
  <2>3. PICK f : Made(H, N, placed, f) /\ \A j \in 0 .. N : f[j] \in S[j]
    BY <1>1, <1>3, <2>2, Loop
  <2> DEFINE h == [j \in 0 .. N |-> f[j]]
  <2>4. ASSUME NEW j \in 0 .. N PROVE h[j] = F(h)[j]
    <3>1. CASE j = 0
      BY <1>1, <2>3, <3>1 DEF Made
    <3>2. CASE j # 0
      <4>1. j \in 1 .. N /\ j - 1 \in 0 .. N
        BY <3>2
      <4> QED BY <1>1, <2>1, <2>3, <4>1 DEF Made
    <3> QED BY <3>1, <3>2
  <2>5. h = F(h)
    BY <1>1, <2>4
  <2> QED BY <2>5
<1>6. after = F(after)
  BY <1>5
<1> HIDE DEF after
<1>7. after[0] = placed /\ \A j \in 1 .. N : after[j] = AddSource(g, ids, n, c, after[j - 1], x, order[j])
  <2>1. \A j \in 0 .. N : after[j] = IF j = 0 THEN placed
                                      ELSE AddSource(g, ids, n, c, after[j - 1], x, order[j])
    BY <1>1, <1>6
  <2> QED BY <1>1, <2>1
<1>8. \A j \in 0 .. N : after[j] \in S[j]
  <2>1. after[0] \in S[0] /\ \A j \in 1 .. N : after[j - 1] \in S[j - 1] => after[j] \in S[j]
    BY <1>3, <1>4, <1>7
  <2> QED BY <1>1, <2>1, Stays
<1>9. after[N] \in Within(g, ids, n, c, i, N)
  BY <1>1, <1>2, <1>8
<1>10. after[N] \in Past(g, ids, n, c, i)
  <2> DEFINE acc == after[N]
  <2>1. /\ acc \in Accs(g) /\ Starts(g, ids, i, acc.splits)
        /\ Fits(ids, acc.splits, acc.copies, acc.abort)
        /\ Reads(g, ids, n, c, i, N, acc.splits, acc.src)
        /\ Needed(g, ids, i, acc.splits)
    BY <1>9 DEF Within
  <2> HIDE DEF acc
  <2>2. ASSUME NEW m \in 1 .. Len(g.nodes), ~ViewOp(g, g.nodes[m]),
               NEW l \in 1 .. Len(g.t[g.nodes[m]].src)
        PROVE  /\ m < i + 1 \/ (m = i + 1 /\ l <= 0) => m < i \/ (m = i /\ l <= N)
               /\ m > i + 1 \/ (m = i + 1 /\ l > 0) => m > i \/ (m = i /\ l > N)
    <3>1. m = i => l \in 1 .. N
      BY <1>1
    <3> HIDE DEF N
    <3>2. l \in Int
      OBVIOUS
    <3> QED BY <1>1, <3>1, <3>2
  <2>3. Reads(g, ids, n, c, i + 1, 0, acc.splits, acc.src)
    BY <2>1, <2>2, Zenon DEF Reads
  <2>4. acc \in Past(g, ids, n, c, i)
    BY <2>1, <2>3 DEF Past
  <2> QED BY <2>4 DEF acc
<1>11. Along(LAMBDA a, j : AddSource(g, ids, n, c, a, x, j), placed, order) = after[N]
  BY DEF Along, after
<1> QED BY <1>10, <1>11 DEF order

\* A node: it is in the last split, or a split begins with it.
LEMMA AddNodeKeeps ==
  ASSUME NEW g, SoundGraph(g), NEW asked, NEW ids \in Assigned(g, asked),
         NEW n, NEW c \in Nat, NEW i \in 1 .. Len(g.nodes), NEW acc \in Past(g, ids, n, c, i - 1)
  PROVE  AddNode(g, ids, n, c, acc, i) \in Past(g, ids, n, c, i)
<1> DEFINE x == g.nodes[i]
           placed == IF ids[x] # Last(acc.splits).backend_id \/ NeedNewSplit(g, ids, acc, x)
                       THEN StartSplit(acc, ids[x], i) ELSE acc
<1>1. Len(g.nodes) \in Nat /\ x \in Tensors(g)
  BY GraphIs
<1>2. CASE ViewOp(g, x)
  <2>1. AddNode(g, ids, n, c, acc, i) = acc
    BY <1>2 DEF AddNode
  <2> QED BY <1>1, <1>2, <2>1, PassOver
<1>3. CASE ~ViewOp(g, x)
  <2>1. /\ acc \in Accs(g) /\ Starts(g, ids, i - 1, acc.splits)
        /\ Fits(ids, acc.splits, acc.copies, acc.abort)
        /\ Reads(g, ids, n, c, i, 0, acc.splits, acc.src)
        /\ Needed(g, ids, i - 1, acc.splits)
    BY DEF Past
  <2>2. ids[x] \in Backends
    <3>1. x \in OpNodes(g)
      BY <1>1, <1>3, GraphIs DEF OpNodes, Range
    <3> QED BY <1>1, <3>1 DEF Assigned
  <2> HIDE DEF x
  <2>3. placed \in Within(g, ids, n, c, i, 0)
    <3>1. CASE ids[x] # Last(acc.splits).backend_id \/ NeedNewSplit(g, ids, acc, x)
      <4>1. ids[x] # Last(acc.splits).backend_id \/ Last(acc.splits).inputs # <<>>
        BY <3>1 DEF NeedNewSplit
      <4>2. PICK before \in 1 .. i - 1 : ~ViewOp(g, g.nodes[before])
        BY <1>1, <1>3, <2>1, <4>1, NotTheFirst DEF x
      <4> DEFINE sp == acc.splits
                 cop == acc.copies
                 ab == acc.abort
                 sr == acc.src
                 new == Append(sp, [backend_id |-> ids[x], i_start |-> i, inputs |-> <<>>])
      <4>3. /\ Starts(g, ids, i - 1, sp) /\ Fits(ids, sp, cop, ab)
            /\ Reads(g, ids, n, c, i, 0, sp, sr) /\ Needed(g, ids, i - 1, sp)
        BY <2>1
      <4>4. placed = [acc EXCEPT !.splits = new]
        BY <3>1 DEF StartSplit
      <4> HIDE DEF sp, cop, ab, sr
      <4>5. /\ new \in Seq(Parts(g)) /\ Starts(g, ids, i, new)
            /\ Fits(ids, new, cop, ab) /\ Reads(g, ids, n, c, i, 0, new, sr)
            /\ Needed(g, ids, i, new)
        BY <1>1, <1>3, <2>2, <4>2, <4>3, BeginsSplit DEF x
      <4> HIDE DEF new
      <4>6. /\ placed \in Accs(g) /\ placed.splits = new /\ placed.copies = cop
            /\ placed.abort = ab /\ placed.src = sr
        <5> HIDE DEF placed
        <5> QED BY <2>1, <4>4, <4>5 DEF Accs, cop, ab, sr
      <4> HIDE DEF placed
      <4> QED BY <4>5, <4>6 DEF Within
    <3>2. CASE ~(ids[x] # Last(acc.splits).backend_id \/ NeedNewSplit(g, ids, acc, x))
      <4>1. placed = acc /\ Last(acc.splits).backend_id = ids[x]
        BY <3>2
      <4>2. Starts(g, ids, i, acc.splits)
        BY <1>1, <1>3, <2>1, <4>1, StaysInSplit DEF x
      <4>3. Needed(g, ids, i, acc.splits)
        BY <1>1, <2>1, NeededMore
      <4> HIDE DEF placed
      <4> QED BY <2>1, <4>1, <4>2, <4>3 DEF Within
    <3> QED BY <3>1, <3>2
  <2> HIDE DEF placed
  <2>4. Along(LAMBDA a, j : AddSource(g, ids, n, c, a, x, j), placed, Positions(g.t[x].src))
          \in Past(g, ids, n, c, i)
    BY <1>3, <2>3, AddSourcesKeeps DEF x
  <2> QED BY <1>3, <2>4, Zenon DEF AddNode, Along, placed, x
<1> QED BY <1>2, <1>3

LEMMA UnsplitIs ==
  ASSUME NEW g, SoundGraph(g), NEW asked, NEW ids \in Assigned(g, asked), NEW n, NEW c \in Nat
  PROVE  Unsplit(g, ids, n, c) \in Past(g, ids, n, c, 0)
<1> DEFINE b == ids[g.nodes[FirstOp(g)]]
           part == [backend_id |-> b, i_start |-> 1, inputs |-> <<>>]
           row(x) == [j \in 1 .. Len(g.t[x].src) |-> Original(g, g.t[x].src[j], n, c)]
           src == [x \in Tensors(g) |-> row(x)]
           acc == Unsplit(g, ids, n, c)
<1>1. b \in Backends
  <2> DEFINE S == {i \in 1 .. Len(g.nodes) : ~ViewOp(g, g.nodes[i])}
  <2>1. PICK i \in 1 .. Len(g.nodes) : ~ViewOp(g, g.nodes[i])
    <3>1. OpNodes(g) # {}
      BY Zenon DEF SoundGraph
    <3> QED BY <3>1, GraphIs DEF OpNodes, Range
  <2>2. S \in SUBSET Nat /\ S # {}
    BY <2>1
  <2>3. FirstOp(g) = Min(S)
    BY DEF FirstOp
  <2>4. FirstOp(g) \in S
    <3> HIDE DEF S
    <3>1. \E m \in S : \A y \in S : m <= y
      BY <2>2, Least
    <3> QED BY <2>3, <3>1 DEF Min
  <2>5. g.nodes[FirstOp(g)] \in OpNodes(g) /\ g.nodes[FirstOp(g)] \in Tensors(g)
    BY <2>4, GraphIs DEF OpNodes, Range
  <2> QED BY <2>5 DEF Assigned
<1>2. part \in Parts(g) /\ part.inputs = <<>> /\ part.i_start = 1 /\ part.backend_id = b
  BY <1>1 DEF Parts
<1>3. \A x \in Tensors(g) : /\ row(x) \in Seq(Places(g)) /\ Len(row(x)) = Len(g.t[x].src)
                            /\ \A j \in 1 .. Len(g.t[x].src) :
                                 row(x)[j] = Original(g, g.t[x].src[j], n, c)
  <2> TAKE x \in Tensors(g)
  <2>1. Len(g.t[x].src) \in Nat /\ \A j \in 1 .. Len(g.t[x].src) : g.t[x].src[j] \in Tensors(g)
    BY GraphIs
  <2>2. \A s \in Tensors(g) : Original(g, s, n, c) \in Places(g)
    BY DEF Original, Places
  <2> QED BY <2>1, <2>2
<1>4. acc.splits = <<part>> /\ acc.copies = {} /\ acc.src = src /\ acc.graph_inputs = <<>>
      /\ acc.abort = FALSE
      /\ acc = [splits |-> <<part>>, copies |-> {}, src |-> src, graph_inputs |-> <<>>, abort |-> FALSE]
  BY TableIs, Zenon DEF Unsplit
<1> HIDE DEF acc, part
<1>5. src \in [Tensors(g) -> Seq(Places(g))]
  BY <1>3
<1>6. \A x \in Tensors(g) : src[x] = row(x)
  OBVIOUS
<1> HIDE DEF src
<1>7. acc \in Accs(g)
  <2>1. <<part>> \in Seq(Parts(g))
    BY <1>2
  <2> QED BY <1>4, <1>5, <2>1 DEF Accs
<1> DEFINE sp == <<part>>
<1>8. sp \in Seq(Parts(g)) /\ sp # <<>> /\ Len(sp) = 1 /\ sp[1] = part /\ Range(sp[1].inputs) = {}
      /\ Len(sp[1].inputs) = 0
  BY <1>2 DEF Range
<1> HIDE DEF sp
<1>9. Starts(g, ids, 0, sp)
  <2>1. \A k \in 1 .. Len(sp) : k = 1
    BY <1>8
  <2>2. 1 .. 0 = {}
    OBVIOUS
  <2> QED BY <1>2, <1>8, <2>1, <2>2 DEF Starts
<1>10. Fits(ids, sp, {}, FALSE)
  <2>1. \A k \in 1 .. Len(sp) : Len(sp[k].inputs) <= MaxSplitInputs /\ Range(sp[k].inputs) = {}
    BY <1>8, BackendFacts
  <2> QED BY <2>1 DEF Fits
<1>11. Reads(g, ids, n, c, 1, 0, sp, src)
  <2>1. ASSUME NEW m \in 1 .. Len(g.nodes), NEW l \in 1 .. Len(g.t[g.nodes[m]].src)
        PROVE  /\ ~(m < 1 \/ (m = 1 /\ l <= 0))
               /\ src[g.nodes[m]][l] = Original(g, g.t[g.nodes[m]].src[l], n, c)
    <3>1. g.nodes[m] \in Tensors(g)
      BY GraphIs
    <3>2. row(g.nodes[m])[l] = Original(g, g.t[g.nodes[m]].src[l], n, c)
      BY <1>3, <3>1
    <3>3. m \in Nat /\ m >= 1 /\ l \in Nat /\ l >= 1
      BY GraphIs, <3>1
    <3> HIDE DEF row
    <3> QED BY <1>6, <3>1, <3>2, <3>3
  <2>2. \A x \in Tensors(g) : Len(src[x]) = Len(g.t[x].src)
    BY <1>3, <1>6
  <2> QED BY <2>1, <2>2, Zenon DEF Reads
<1>12. Needed(g, ids, 0, sp)
  <2>1. \A k \in 1 .. Len(sp) : Range(sp[k].inputs) = {}
    BY <1>8
  <2> QED BY <2>1 DEF Needed
<1>13. acc \in Past(g, ids, n, c, 0)
  <2>1. 0 + 1 = 1
    OBVIOUS
  <2> QED BY <1>4, <1>7, <1>9, <1>10, <1>11, <1>12, <2>1 DEF Past, sp
<1> QED BY <1>13 DEF acc

\* What pass 5 makes of an assignment.
LEMMA Pass5Is ==
  ASSUME NEW g, SoundGraph(g), NEW asked, NEW ids \in Assigned(g, asked), NEW n, NEW c \in Nat
  PROVE  Pass5(g, ids, n, c) \in Past(g, ids, n, c, Len(g.nodes))
<1> DEFINE order == Positions(g.nodes)
           N == Len(order)
           S == [i \in 0 .. N |-> Past(g, ids, n, c, i)]
           base == Unsplit(g, ids, n, c)
           F(f) == [i \in 0 .. Len(order) |->
                      IF i = 0 THEN base ELSE AddNode(g, ids, n, c, f[i - 1], order[i])]
           after == CHOOSE f : f = F(f)
<1>1. N \in Nat /\ N = Len(g.nodes) /\ \A i \in 1 .. N : order[i] = i
  <2>1. g.nodes \in Seq(Tensors(g)) /\ Len(g.nodes) \in Nat
    BY GraphIs
  <2> QED BY <2>1, PositionsIs
<1> HIDE DEF order
<1>2. \A i \in 0 .. N : S[i] = Past(g, ids, n, c, i)
  OBVIOUS
<1> HIDE DEF S
<1>3. base \in S[0]
  BY <1>1, <1>2, UnsplitIs
<1> HIDE DEF base
<1>4. ASSUME NEW i \in 1 .. N, NEW acc \in S[i - 1]
      PROVE  AddNode(g, ids, n, c, acc, order[i]) \in S[i]
  <2>1. i \in 0 .. N /\ i - 1 \in 0 .. N /\ i \in 1 .. Len(g.nodes) /\ order[i] = i
    BY <1>1
  <2>2. acc \in Past(g, ids, n, c, i - 1)
    BY <1>2, <2>1
  <2>3. AddNode(g, ids, n, c, acc, i) \in Past(g, ids, n, c, i)
    BY <2>1, <2>2, AddNodeKeeps
  <2> QED BY <1>2, <2>1, <2>3
<1>5. \E f : f = F(f)
  <2> DEFINE H == [i \in 1 .. N |-> [acc \in S[i - 1] |-> AddNode(g, ids, n, c, acc, order[i])]]
  <2>1. \A i \in 1 .. N : \A acc \in S[i - 1] : H[i][acc] = AddNode(g, ids, n, c, acc, order[i])
    OBVIOUS
  <2>2. Turns(H, N, S)
    BY <1>4, <2>1 DEF Turns
  <2> HIDE DEF H
  <2>3. PICK f : Made(H, N, base, f) /\ \A i \in 0 .. N : f[i] \in S[i]
    BY <1>1, <1>3, <2>2, Loop
  <2> DEFINE h == [i \in 0 .. N |-> f[i]]
  <2>4. ASSUME NEW i \in 0 .. N PROVE h[i] = F(h)[i]
    <3>1. CASE i = 0
      BY <1>1, <2>3, <3>1 DEF Made
    <3>2. CASE i # 0
      <4>1. i \in 1 .. N /\ i - 1 \in 0 .. N
        BY <3>2
      <4> QED BY <1>1, <2>1, <2>3, <4>1 DEF Made
    <3> QED BY <3>1, <3>2
  <2>5. h = F(h)
    BY <1>1, <2>4
  <2> QED BY <2>5
<1>6. after = F(after)
  BY <1>5
<1> HIDE DEF after
<1>7. after[0] = base /\ \A i \in 1 .. N : after[i] = AddNode(g, ids, n, c, after[i - 1], order[i])
  <2>1. \A i \in 0 .. N : after[i] = IF i = 0 THEN base
                                      ELSE AddNode(g, ids, n, c, after[i - 1], order[i])
    BY <1>1, <1>6
  <2> QED BY <1>1, <2>1
<1>8. \A i \in 0 .. N : after[i] \in S[i]
  <2>1. after[0] \in S[0] /\ \A i \in 1 .. N : after[i - 1] \in S[i - 1] => after[i] \in S[i]
    BY <1>3, <1>4, <1>7
  <2> QED BY <1>1, <2>1, Stays
<1>9. after[N] \in Past(g, ids, n, c, Len(g.nodes))
  BY <1>1, <1>2, <1>8
<1>10. Pass5(g, ids, n, c) = after[N]
  BY DEF Pass5, Along, after, order, base
<1> QED BY <1>9, <1>10

-----------------------------------------------------------------------------
(* Plans: graphs as the passes split them.                                   *)

\* What passes 1 to 5 make of the assignments asked, unless they abort.
Passed(g, asked, n, c, p) ==
  /\ p.ids \in Assigned(g, asked) /\ p.ids \in [Tensors(g) -> Backends] /\ p.n = n /\ p.copy = c
  /\ p.copies \subseteq Tensors(g) \X Backends
  /\ p.src \in [Tensors(g) -> Seq(Places(g))]
  /\ Starts(g, p.ids, Len(g.nodes), p.splits) /\ Needed(g, p.ids, Len(g.nodes), p.splits)
  /\ Fits(p.ids, p.splits, p.copies, FALSE)
  /\ Reads(g, p.ids, n, c, Len(g.nodes) + 1, 0, p.splits, p.src)

LEMMA PlanPassed ==
  ASSUME NEW g, SoundGraph(g), NEW asked \in Asked(g), NEW n, NEW c \in Nat,
         NEW p, IsPlan(g, p, Split(g, asked, n, c)), ~p.abort
  PROVE  Passed(g, asked, n, c, p)
<1> DEFINE ids == Assign(g, asked)
           acc == Pass5(g, ids, n, c)
           s == Split(g, asked, n, c)
<1>1. /\ s.ids = ids /\ s.splits = acc.splits /\ s.copies = acc.copies /\ s.src = acc.src
      /\ s.n = n /\ s.copy = c /\ s.abort = (acc.abort \/ Misplaced(g, asked))
  BY Zenon DEF Split
<1> HIDE DEF s
<1>2. /\ p.abort = s.abort
      /\ p.ids = s.ids /\ p.splits = s.splits /\ p.copies = s.copies /\ p.src = s.src
      /\ p.n = s.n /\ p.copy = s.copy
  BY Zenon DEF IsPlan, s
<1>3. ~Misplaced(g, asked) /\ ~acc.abort
  BY <1>1, <1>2
<1>4. ids \in Assigned(g, asked) /\ ids \in [Tensors(g) -> Backends]
  BY <1>3, AssignIs
<1> HIDE DEF ids
<1>5. acc \in Past(g, ids, n, c, Len(g.nodes))
  BY <1>4, Pass5Is
<1> HIDE DEF acc
<1>6. /\ acc \in Accs(g) /\ Starts(g, ids, Len(g.nodes), acc.splits)
      /\ Fits(ids, acc.splits, acc.copies, acc.abort)
      /\ Reads(g, ids, n, c, Len(g.nodes) + 1, 0, acc.splits, acc.src)
      /\ Needed(g, ids, Len(g.nodes), acc.splits)
  BY <1>5 DEF Past
<1>7. /\ acc.abort \in BOOLEAN /\ acc.copies \subseteq Tensors(g) \X Backends
      /\ acc.src \in [Tensors(g) -> Seq(Places(g))]
  BY <1>6 DEF Accs
<1>8. acc.abort = FALSE
  BY <1>3, <1>7
<1> QED BY <1>1, <1>2, <1>4, <1>6, <1>7, <1>8 DEF Passed

\* The splits of a plan.
LEMMA PassedSplits ==
  ASSUME NEW g, SoundGraph(g), NEW asked, NEW n, NEW c, NEW p, Passed(g, asked, n, c, p)
  PROVE  /\ p.splits \in Seq(Parts(g)) /\ Len(p.splits) \in Nat \ {0}
         /\ Len(p.splits) <= Len(g.nodes) /\ DOMAIN p.splits = 1 .. Len(p.splits)
         /\ p.splits[1].i_start = 1
         /\ \A k \in 1 .. Len(p.splits) :
              /\ p.splits[k].i_start \in 1 .. Len(g.nodes) /\ SplitEnd(g, p, k) \in Nat
              /\ SplitEnd(g, p, k) <= Len(g.nodes)
         /\ \A k, m \in 1 .. Len(p.splits) : k < m => p.splits[k].i_start < p.splits[m].i_start
<1> DEFINE N == Len(g.nodes)
           sp == p.splits
<1>1. N \in Nat \ {0}
  <2>1. OpNodes(g) # {}
    BY Zenon DEF SoundGraph
  <2>2. DOMAIN g.nodes # {}
    BY <2>1 DEF OpNodes, Range
  <2> QED BY <2>2, GraphIs
<1>2. Starts(g, p.ids, N, sp)
  BY DEF Passed
<1>3. sp \in Seq(Parts(g)) /\ sp # <<>> /\ sp[1].i_start = 1
      /\ \A k, m \in 1 .. Len(sp) : k < m => sp[k].i_start < sp[m].i_start
  BY <1>2 DEF Starts
<1>4. Len(sp) \in Nat \ {0} /\ DOMAIN sp = 1 .. Len(sp)
  BY <1>3
<1>5. ASSUME NEW k \in 1 .. Len(sp) PROVE k <= sp[k].i_start /\ sp[k].i_start \in 1 .. N
  <2>1. sp[k].i_start \in Nat
    BY <1>3, PartIs
  <2>2. k <= sp[k].i_start /\ sp[k].i_start <= (IF N = 0 THEN 1 ELSE N)
    BY <1>2 DEF Starts
  <2> QED BY <1>1, <2>1, <2>2
<1>6. Len(sp) <= N
  <2>1. Len(sp) \in 1 .. Len(sp)
    BY <1>4
  <2> QED BY <1>1, <1>4, <1>5, <2>1
<1>7. ASSUME NEW k \in 1 .. Len(sp) PROVE SplitEnd(g, p, k) \in Nat /\ SplitEnd(g, p, k) <= N
  <2>1. CASE k = Len(sp)
    BY <1>1, <2>1 DEF SplitEnd
  <2>2. CASE k # Len(sp)
    <3>1. k + 1 \in 1 .. Len(sp)
      BY <1>4, <2>2
    <3>2. sp[k + 1].i_start \in 1 .. N /\ SplitEnd(g, p, k) = sp[k + 1].i_start - 1
      BY <1>5, <2>2, <3>1 DEF SplitEnd
    <3> HIDE DEF N, sp
    <3> QED BY <1>1, <3>2
  <2> QED BY <2>1, <2>2
<1> QED BY <1>3, <1>4, <1>5, <1>6, <1>7

\* The ids of the allocator: those of a split, and those of all.
LEMMA AddSplitIs ==
  ASSUME NEW g, SoundGraph(g), NEW asked, NEW n, NEW c, NEW p, Passed(g, asked, n, c, p),
         NEW k \in 1 .. Len(p.splits), NEW ids \in Seq(Backends)
  PROVE  AddSplit(g, p, ids, k) \in Seq(Backends)
<1> DEFINE sp == p.splits[k]
           N == Len(sp.inputs)
           E == Seq(Backends)
           turn(acc, i) == acc \o <<p.ids[sp.inputs[i]], sp.backend_id>>
           F(f) == [i \in 0 .. Len(sp.inputs) |->
                      IF i = 0 THEN ids ELSE turn(f[i - 1], i)]
           after == CHOOSE f : f = F(f)
           nodes == SplitNodes(g, p, k)
           tail == [i \in 1 .. Len(nodes) |-> p.ids[nodes[i]]]
<1>1. /\ p.splits \in Seq(Parts(g)) /\ p.ids \in [Tensors(g) -> Backends]
      /\ sp.i_start \in 1 .. Len(g.nodes) /\ SplitEnd(g, p, k) \in Nat
      /\ SplitEnd(g, p, k) <= Len(g.nodes)
  <2>1. p.splits \in Seq(Parts(g)) /\ sp.i_start \in 1 .. Len(g.nodes)
        /\ SplitEnd(g, p, k) \in Nat /\ SplitEnd(g, p, k) <= Len(g.nodes)
    BY PassedSplits
  <2>2. p.ids \in [Tensors(g) -> Backends]
    BY DEF Passed
  <2> QED BY <2>1, <2>2
<1>2. N \in Nat /\ sp.backend_id \in Backends /\ \A i \in 1 .. N : sp.inputs[i] \in Tensors(g)
  <2>1. sp.inputs \in Seq(Tensors(g)) /\ sp.backend_id \in Backends
    BY <1>1, PartIs
  <2> QED BY <2>1
<1>3. ids \in E
  OBVIOUS
<1>4. \A i \in 1 .. N : \A acc \in E : turn(acc, i) \in E
  <2> TAKE i \in 1 .. N
  <2> TAKE acc \in E
  <2>1. p.ids[sp.inputs[i]] \in Backends
    BY <1>1, <1>2
  <2> QED BY <1>2, <2>1
<1> HIDE DEF E, sp, turn
<1>5. \E f : f = F(f)
  <2> DEFINE H == [i \in 1 .. N |-> [acc \in E |-> turn(acc, i)]]
  <2>1. \A i \in 1 .. N : \A acc \in E :
          H[i][acc] = turn(acc, i)
    OBVIOUS
  <2>2. TurnsIn(H, N, E)
    BY <1>4, <2>1 DEF TurnsIn
  <2> HIDE DEF H
  <2>3. PICK f : Made(H, N, ids, f) /\ \A i \in 0 .. N : f[i] \in E
    BY <1>2, <1>3, <2>2, LoopIn
  <2> DEFINE h == [i \in 0 .. N |-> f[i]]
  <2>4. ASSUME NEW i \in 0 .. N PROVE h[i] = F(h)[i]
    <3>1. CASE i = 0
      BY <1>2, <2>3, <3>1 DEF Made
    <3>2. CASE i # 0
      <4>1. i \in 1 .. N /\ i - 1 \in 0 .. N
        BY <3>2
      <4> QED BY <1>2, <2>1, <2>3, <4>1 DEF Made
    <3> QED BY <3>1, <3>2
  <2>5. h = F(h)
    BY <1>2, <2>4
  <2> QED BY <2>5
<1>6. after = F(after)
  BY <1>5
<1> HIDE DEF after
<1>7. after[0] = ids /\ \A i \in 1 .. N : after[i] = turn(after[i - 1], i)
  <2>1. \A i \in 0 .. N : after[i] = IF i = 0 THEN ids ELSE turn(after[i - 1], i)
    BY <1>2, <1>6
  <2> QED BY <1>2, <2>1
<1>8. after[N] \in E
  <2>1. after[0] \in E /\ \A i \in 1 .. N : after[i - 1] \in E => after[i] \in E
    BY <1>3, <1>4, <1>7
  <2>2. \A i \in 0 .. N : after[i] \in E
    BY <1>2, <2>1, StaysIn
  <2> QED BY <1>2, <2>2
<1>9. tail \in E
  <2>1. Len(nodes) \in Nat /\ \A i \in 1 .. Len(nodes) : nodes[i] \in Tensors(g)
    <3>1. g.nodes \in Seq(Tensors(g)) /\ Len(g.nodes) \in Nat
      BY GraphIs
    <3>2. nodes = SubSeq(g.nodes, sp.i_start, SplitEnd(g, p, k))
      BY DEF SplitNodes, sp
    <3>3. nodes \in Seq(Tensors(g))
      <4> DEFINE a == sp.i_start
                 z == SplitEnd(g, p, k)
      <4>1. a \in 1 .. Len(g.nodes) /\ z \in Nat /\ z <= Len(g.nodes)
        BY <1>1 DEF sp
      <4> HIDE DEF a, z
      <4>2. SubSeq(g.nodes, a, z) \in Seq(Tensors(g))
        BY <3>1, <4>1
      <4> QED BY <3>2, <4>2 DEF a, z
    <3> QED BY <3>3
  <2> HIDE DEF nodes
  <2>2. \A i \in 1 .. Len(nodes) : p.ids[nodes[i]] \in Backends
    BY <1>1, <2>1
  <2> QED BY <2>1, <2>2 DEF E
<1>10. AddSplit(g, p, ids, k) = after[N] \o tail
  BY DEF AddSplit, Along, after, sp, turn
<1> HIDE DEF tail
<1> QED BY <1>8, <1>9, <1>10 DEF E

LEMMA NodeIdsAre ==
  ASSUME NEW g, SoundGraph(g), NEW asked, NEW n, NEW c, NEW p, Passed(g, asked, n, c, p)
  PROVE  NodeBackendIds(g, p) \in Seq(Backends)
<1> DEFINE order == Positions(p.splits)
           N == Len(order)
           E == Seq(Backends)
           base == <<>>
           F(f) == [i \in 0 .. Len(order) |->
                      IF i = 0 THEN base ELSE AddSplit(g, p, f[i - 1], order[i])]
           after == CHOOSE f : f = F(f)
<1>1. N \in Nat /\ N = Len(p.splits) /\ \A i \in 1 .. N : order[i] = i
  <2>1. p.splits \in Seq(Parts(g)) /\ Len(p.splits) \in Nat
    BY PassedSplits
  <2> QED BY <2>1, PositionsIs
<1> HIDE DEF order
<1>2. base \in E
  OBVIOUS
<1>3. \A i \in 1 .. N : \A acc \in E : AddSplit(g, p, acc, order[i]) \in E
  BY <1>1, AddSplitIs
<1> HIDE DEF E, base
<1>4. \E f : f = F(f)
  <2> DEFINE H == [i \in 1 .. N |-> [acc \in E |-> AddSplit(g, p, acc, order[i])]]
  <2>1. \A i \in 1 .. N : \A acc \in E : H[i][acc] = AddSplit(g, p, acc, order[i])
    OBVIOUS
  <2>2. TurnsIn(H, N, E)
    BY <1>3, <2>1 DEF TurnsIn
  <2> HIDE DEF H
  <2>3. PICK f : Made(H, N, base, f) /\ \A i \in 0 .. N : f[i] \in E
    BY <1>1, <1>2, <2>2, LoopIn
  <2> DEFINE h == [i \in 0 .. N |-> f[i]]
  <2>4. ASSUME NEW i \in 0 .. N PROVE h[i] = F(h)[i]
    <3>1. CASE i = 0
      BY <1>1, <2>3, <3>1 DEF Made
    <3>2. CASE i # 0
      <4>1. i \in 1 .. N /\ i - 1 \in 0 .. N
        BY <3>2
      <4> QED BY <1>1, <2>1, <2>3, <4>1 DEF Made
    <3> QED BY <3>1, <3>2
  <2>5. h = F(h)
    BY <1>1, <2>4
  <2> QED BY <2>5
<1>5. after = F(after)
  BY <1>4
<1> HIDE DEF after
<1>6. after[0] = base /\ \A i \in 1 .. N : after[i] = AddSplit(g, p, after[i - 1], order[i])
  <2>1. \A i \in 0 .. N : after[i] = IF i = 0 THEN base ELSE AddSplit(g, p, after[i - 1], order[i])
    BY <1>1, <1>5
  <2> QED BY <1>1, <2>1
<1>7. after[N] \in E
  <2>1. after[0] \in E /\ \A i \in 1 .. N : after[i - 1] \in E => after[i] \in E
    BY <1>2, <1>3, <1>6
  <2>2. \A i \in 0 .. N : after[i] \in E
    BY <1>1, <2>1, StaysIn
  <2> QED BY <1>1, <2>2
<1>8. NodeBackendIds(g, p) = after[N]
  BY DEF NodeBackendIds, Along, after, order, base
<1> QED BY <1>7, <1>8 DEF E

LEMMA PlanIds ==
  ASSUME NEW g, SoundGraph(g), NEW asked \in Asked(g), NEW n, NEW c \in Nat,
         NEW p, IsPlan(g, p, Split(g, asked, n, c)), ~p.abort
  PROVE  p.node_backend_ids \in Seq(Backends)
<1> DEFINE ids == Assign(g, asked)
           acc == Pass5(g, ids, n, c)
           q == [ids |-> ids, splits |-> acc.splits, copies |-> acc.copies, src |-> acc.src,
                 graph_inputs |-> acc.graph_inputs, n |-> n, copy |-> c,
                 abort |-> acc.abort \/ Misplaced(g, asked)]
           s == Split(g, asked, n, c)
<1>1. /\ s.ids = ids /\ s.splits = acc.splits /\ s.copies = acc.copies /\ s.src = acc.src
      /\ s.n = n /\ s.copy = c /\ s.node_backend_ids = NodeBackendIds(g, q)
  BY Zenon DEF Split
<1> HIDE DEF s
<1>2. /\ p.ids = s.ids /\ p.splits = s.splits /\ p.copies = s.copies /\ p.src = s.src
      /\ p.n = s.n /\ p.copy = s.copy /\ p.node_backend_ids = s.node_backend_ids
  BY Zenon DEF IsPlan, s
<1>3. /\ q.ids = p.ids /\ q.splits = p.splits /\ q.copies = p.copies /\ q.src = p.src
      /\ q.n = p.n /\ q.copy = p.copy
  BY <1>1, <1>2
<1> HIDE DEF q
<1>4. Passed(g, asked, n, c, p)
  BY PlanPassed
<1>5. Passed(g, asked, n, c, q)
  BY <1>3, <1>4, Zenon DEF Passed
<1>6. NodeBackendIds(g, q) \in Seq(Backends)
  BY <1>5, NodeIdsAre
<1> QED BY <1>1, <1>2, <1>6

\* An operation of split k: its backend, and what it reads.
LEMMA PassedOp ==
  ASSUME NEW g, SoundGraph(g), NEW asked, NEW n, NEW c, NEW p, Passed(g, asked, n, c, p),
         NEW k \in 1 .. Len(p.splits), NEW i \in SplitOps(g, p, k)
  PROVE  LET x == g.nodes[i]
             b == p.splits[k].backend_id
         IN  /\ x \in OpNodes(g) /\ x \in Tensors(g) /\ b = p.ids[x] /\ b \in Backends
             /\ i \in 1 .. Len(g.nodes) /\ InPart(p.splits, k, i)
             /\ DOMAIN p.src[x] = 1 .. Len(p.src[x])
             /\ \A place \in Range(p.src[x]) : \E s \in Sources(g, x) :
                  s \in Tensors(g) /\ Served(g, p.ids, n, c, p.splits, k, s, place)
<1> DEFINE N == Len(g.nodes)
           x == g.nodes[i]
           b == p.splits[k].backend_id
<1>1. i \in 1 .. N /\ ~ViewOp(g, x) /\ InPart(p.splits, k, i)
  <2>1. i \in p.splits[k].i_start .. SplitEnd(g, p, k) /\ ~ViewOp(g, x)
    BY DEF SplitOps
  <2>2. /\ p.splits[k].i_start \in 1 .. N /\ SplitEnd(g, p, k) \in Nat /\ SplitEnd(g, p, k) <= N
        /\ Len(p.splits) \in Nat \ {0} /\ N \in Nat
        /\ \A m \in 1 .. Len(p.splits) : p.splits[m].i_start \in 1 .. N
    BY PassedSplits, GraphIs
  <2>3. i \in 1 .. N /\ p.splits[k].i_start <= i
    BY <2>1, <2>2
  <2>4. k < Len(p.splits) => i < p.splits[k + 1].i_start
    <3> SUFFICES ASSUME k < Len(p.splits) PROVE i < p.splits[k + 1].i_start
      OBVIOUS
    <3>1. k + 1 \in 1 .. Len(p.splits) /\ k # Len(p.splits)
      BY <2>2
    <3>2. SplitEnd(g, p, k) = p.splits[k + 1].i_start - 1 /\ p.splits[k + 1].i_start \in Nat
      BY <2>2, <3>1 DEF SplitEnd
    <3> QED BY <2>1, <3>2
  <2> QED BY <2>1, <2>3, <2>4 DEF InPart
<1>2. /\ Starts(g, p.ids, N, p.splits) /\ N \in Nat
      /\ Reads(g, p.ids, n, c, N + 1, 0, p.splits, p.src)
      /\ p.src \in [Tensors(g) -> Seq(Places(g))]
  BY GraphIs DEF Passed
<1>3. x \in OpNodes(g) /\ x \in Tensors(g)
  BY <1>1, GraphIs DEF OpNodes, Range
<1>4. b = p.ids[x]
  BY <1>1, <1>2 DEF Starts
<1>5. b \in Backends
  <2>1. p.splits \in Seq(Parts(g))
    BY <1>2 DEF Starts
  <2> QED BY <2>1, PartIs
<1>6. ASSUME NEW place \in Range(p.src[x])
      PROVE  \E s \in Sources(g, x) :
               s \in Tensors(g) /\ Served(g, p.ids, n, c, p.splits, k, s, place)
  <2>1. p.src[x] \in Seq(Places(g)) /\ Len(p.src[x]) = Len(g.t[x].src)
    BY <1>2, <1>3 DEF Reads
  <2>2. DOMAIN p.src[x] = 1 .. Len(p.src[x])
    BY <2>1
  <2>3. PICK l \in 1 .. Len(g.t[x].src) : place = p.src[x][l]
    BY <2>1, <2>2 DEF Range
  <2>4. g.t[x].src[l] \in Tensors(g) /\ g.t[x].src[l] \in Sources(g, x)
    BY <1>3, GraphIs DEF Sources, Range
  <2>5. i < N + 1
    BY <1>1, <1>2
  <2>6. Served(g, p.ids, n, c, p.splits, k, g.t[x].src[l], place)
    BY <1>1, <1>2, <2>3, <2>5 DEF Reads
  <2> QED BY <2>4, <2>6
<1>7. DOMAIN p.src[x] = 1 .. Len(p.src[x])
  <2>1. p.src[x] \in Seq(Places(g))
    BY <1>2, <1>3
  <2> QED BY <2>1
<1> QED BY <1>1, <1>3, <1>4, <1>5, <1>6, <1>7

\* What it writes and reads.
WritesReads(g, p, x) ==
  /\ Operation(g, p, x).to = PlaceOf(g, p, x)
  /\ PlaceOf(g, p, x).t = x /\ PlaceOf(g, p, x).b = Own
  /\ Range(Operation(g, p, x).from) = {Location(g, p, place) : place \in Range(p.src[x])}

LEMMA OperationIs ==
  ASSUME NEW g, NEW p, NEW x, DOMAIN p.src[x] = 1 .. Len(p.src[x])
  PROVE  WritesReads(g, p, x)
<1> DEFINE N == Len(p.src[x])
           from == [j \in 1 .. N |-> Location(g, p, p.src[x][j])]
<1>1. Operation(g, p, x).to = PlaceOf(g, p, x) /\ Operation(g, p, x).from = from
  BY TableIs DEF Operation
<1>2. PlaceOf(g, p, x).t = x /\ PlaceOf(g, p, x).b = Own
  BY DEF PlaceOf, Original
<1>3. DOMAIN p.src[x] = 1 .. N
  OBVIOUS
<1> HIDE DEF N
<1>4. Range(from) = {Location(g, p, place) : place \in Range(p.src[x])}
  BY <1>3, Zenon DEF Range
<1> QED BY <1>1, <1>2, <1>4 DEF WritesReads

\* The operations of a plan are those of its splits' nodes, in their order.
InOrder(g, p, k) ==
  /\ p.items[k] \in Seq(Range(p.items[k])) /\ Len(p.items[k]) \in Nat
  /\ \A i \in SplitOps(g, p, k) : \E j \in 1 .. Len(p.items[k]) :
       p.items[k][j] = Operation(g, p, g.nodes[i])
  /\ \A j \in 1 .. Len(p.items[k]) : \E i \in SplitOps(g, p, k) :
       p.items[k][j] = Operation(g, p, g.nodes[i])
  /\ \A j, l \in 1 .. Len(p.items[k]) : \A i, m \in SplitOps(g, p, k) :
       /\ p.items[k][j] = Operation(g, p, g.nodes[i])
       /\ p.items[k][l] = Operation(g, p, g.nodes[m])
       /\ l < j
       => m < i
  
LEMMA PlanItems ==
  ASSUME NEW g, SoundGraph(g), NEW asked, NEW n, NEW c,
         NEW p, IsPlan(g, p, Split(g, asked, n, c)), ~p.abort, Passed(g, asked, n, c, p),
         NEW k \in 1 .. Len(p.splits)
  PROVE  InOrder(g, p, k)
<1> DEFINE items == p.items[k]
<1>1. /\ items \in Seq(Range(items))
      /\ \A i \in SplitOps(g, p, k) : Operation(g, p, g.nodes[i]) \in Range(items)
      /\ \A j \in 1 .. Len(items) : \E i \in SplitOps(g, p, k) :
           /\ items[j] = Operation(g, p, g.nodes[i])
           /\ \A l \in 1 .. j - 1 : \A m \in SplitOps(g, p, k) :
                items[l] = Operation(g, p, g.nodes[m]) => m < i
  BY Zenon DEF IsPlan
<1> HIDE DEF items
<1>2. DOMAIN items = 1 .. Len(items) /\ Len(items) \in Nat
  BY <1>1
<1>3. ASSUME NEW i \in SplitOps(g, p, k), NEW m \in SplitOps(g, p, k),
             Operation(g, p, g.nodes[i]) = Operation(g, p, g.nodes[m])
      PROVE  i = m
  <2>1. /\ i \in 1 .. Len(g.nodes) /\ m \in 1 .. Len(g.nodes)
        /\ DOMAIN p.src[g.nodes[i]] = 1 .. Len(p.src[g.nodes[i]])
        /\ DOMAIN p.src[g.nodes[m]] = 1 .. Len(p.src[g.nodes[m]])
    BY PassedOp
  <2>2. g.nodes[i] = g.nodes[m]
    BY <1>3, <2>1, OperationIs DEF WritesReads
  <2>3. DOMAIN g.nodes = 1 .. Len(g.nodes) /\ IsInjective(g.nodes)
    BY GraphIs, Zenon DEF SoundGraph
  <2> QED BY <2>1, <2>2, <2>3 DEF IsInjective
<1>4. ASSUME NEW j \in 1 .. Len(items), NEW l \in 1 .. Len(items),
             NEW i \in SplitOps(g, p, k), NEW m \in SplitOps(g, p, k),
             items[j] = Operation(g, p, g.nodes[i]), items[l] = Operation(g, p, g.nodes[m]), l < j
      PROVE  m < i
  <2>1. PICK a \in SplitOps(g, p, k) :
          /\ items[j] = Operation(g, p, g.nodes[a])
          /\ \A e \in 1 .. j - 1 : \A d \in SplitOps(g, p, k) :
               items[e] = Operation(g, p, g.nodes[d]) => d < a
    BY <1>1
  <2>2. a = i
    BY <1>3, <1>4, <2>1
  <2>3. l \in 1 .. j - 1
    BY <1>2, <1>4
  <2> QED BY <1>4, <2>1, <2>2, <2>3
<1>5. \A i \in SplitOps(g, p, k) : \E j \in 1 .. Len(items) : items[j] = Operation(g, p, g.nodes[i])
  BY <1>1, <1>2 DEF Range
<1>6. \A j \in 1 .. Len(items) : \E i \in SplitOps(g, p, k) : items[j] = Operation(g, p, g.nodes[i])
  BY <1>1
<1> QED BY <1>1, <1>2, <1>4, <1>5, <1>6, Zenon DEF InOrder, items

\* An operand is in memory that the backend can use.
LEMMA ServedUsable ==
  ASSUME NEW g, SoundGraph(g), NEW asked, NEW n, NEW c, NEW p, Passed(g, asked, n, c, p),
         NEW k \in 1 .. Len(p.splits), p.splits[k].backend_id \in Backends,
         NEW s \in Tensors(g), NEW place, Served(g, p.ids, n, c, p.splits, k, s, place)
  PROVE  p.splits[k].backend_id \in CanUse(BufferAt(g, p, place))
<1> DEFINE b == p.splits[k].backend_id
           ids == p.ids
<1>1. /\ ids \in [Tensors(g) -> Backends \cup {Unassigned}]
      /\ Preallocated(g, s) => ids[s] \in CanUse(g.t[Base(g, s)].buffer)
      /\ View(g, s) => ids[s] \in {Unassigned, ids[Base(g, s)]}
  BY DEF Passed, Assigned, Assigning, ViewsFollow
<1>2. b \in CanUse(bufts[b]) /\ b # Own /\ b # Unassigned
  BY BackendFacts
<1>3. CASE place = CopyOf(s, b, c)
  <2>1. place.b = b
    BY <1>3 DEF CopyOf
  <2>2. BufferAt(g, p, place) = bufts[b]
    BY <1>2, <2>1 DEF BufferAt
  <2> QED BY <1>2, <2>2
<1>4. CASE place = Original(g, s, n, c) /\ (ids[s] = b \/ BufferSupported(g, ids, s, b))
  <2>1. place.b = Own /\ place.t = s
    BY <1>4 DEF Original
  <2>2. CASE Preallocated(g, s)
    <3>1. BufferAt(g, p, place) = g.t[Base(g, s)].buffer
      BY <2>1, <2>2 DEF BufferAt
    <3>2. b \in CanUse(g.t[Base(g, s)].buffer)
      BY <1>1, <1>4, <2>2 DEF BufferSupported
    <3> QED BY <3>1, <3>2
  <2>3. CASE ~Preallocated(g, s)
    <3>1. BufferAt(g, p, place) = bufts[ids[Base(g, s)]]
      BY <2>1, <2>3 DEF BufferAt
    <3>2. ids[s] # Unassigned => ids[s] = ids[Base(g, s)]
      <4>1. CASE g.t[s].view_src = None
        BY <4>1, BaseIs
      <4>2. CASE g.t[s].view_src # None
        BY <1>1, <2>3, <4>2 DEF View
      <4> QED BY <4>1, <4>2
    <3>3. CASE ids[s] = b
      BY <1>2, <3>1, <3>2, <3>3
    <3>4. CASE BufferSupported(g, ids, s, b)
      <4>1. b \in CanUse(bufts[IdOrBase(g, ids, s)])
        BY <2>3, <3>4 DEF BufferSupported
      <4>2. IdOrBase(g, ids, s) = ids[Base(g, s)]
        BY <3>2 DEF IdOrBase
      <4> QED BY <3>1, <4>1, <4>2
    <3> QED BY <1>4, <3>3, <3>4
  <2> QED BY <2>2, <2>3
<1> QED BY <1>3, <1>4 DEF Served

\* What compute_splits relies on: an operation reads originals, and copies that
\* are inputs of its split or of an earlier one on the same backend, and each
\* tensor is copied to a backend once.
SoundPlan(g, p, c) ==
  /\ p.ids \in [Tensors(g) -> Backends \cup {Unassigned}]
  /\ p.copies \subseteq Tensors(g) \X Backends
  /\ p.copy = c
  /\ p.splits \in Seq(Range(p.splits)) /\ Len(p.splits) <= Len(g.nodes)
  /\ \A k \in 1 .. Len(p.splits) :
       LET sp == p.splits[k]
           earlier == {j \in 1 .. k : p.splits[j].backend_id = sp.backend_id}
           copied == UNION {Range(p.splits[j].inputs) : j \in earlier}
       IN  /\ sp.inputs \in Seq(Range(sp.inputs)) /\ Len(sp.inputs) <= MaxSplitInputs
           /\ p.items[k] \in Seq(Range(p.items[k]))
           /\ \A item \in Range(p.items[k]) :
                /\ item.to.b = Own
                /\ \A loc \in Range(item.from) :
                     loc.b # Own => loc.b = sp.backend_id /\ loc.c = c /\ loc.t \in copied
           /\ \A j \in earlier \ {k} : Range(p.splits[j].inputs) \cap Range(sp.inputs) = {}

\* Each plan that the passes make has it.
LEMMA PlanCopies ==
  ASSUME NEW g, SoundGraph(g), NEW asked \in Asked(g), NEW n, NEW c \in Nat,
         NEW p, IsPlan(g, p, Split(g, asked, n, c)), ~p.abort
  PROVE  SoundPlan(g, p, c)
<1>1. Passed(g, asked, n, c, p)
  BY PlanPassed
<1>2. /\ p.splits \in Seq(Parts(g)) /\ Len(p.splits) \in Nat \ {0}
      /\ Len(p.splits) <= Len(g.nodes) /\ DOMAIN p.splits = 1 .. Len(p.splits)
  BY <1>1, PassedSplits
<1>3. /\ p.ids \in [Tensors(g) -> Backends \cup {Unassigned}]
      /\ p.copies \subseteq Tensors(g) \X Backends
      /\ p.copy = c /\ Fits(p.ids, p.splits, p.copies, FALSE)
  BY <1>1 DEF Passed, Assigned
<1>4. p.splits \in Seq(Range(p.splits))
  BY <1>2 DEF Range
<1>5. ASSUME NEW k \in 1 .. Len(p.splits)
      PROVE  LET sp == p.splits[k]
                 earlier == {j \in 1 .. k : p.splits[j].backend_id = sp.backend_id}
                 copied == UNION {Range(p.splits[j].inputs) : j \in earlier}
             IN  /\ sp.inputs \in Seq(Range(sp.inputs)) /\ Len(sp.inputs) <= MaxSplitInputs
                 /\ p.items[k] \in Seq(Range(p.items[k]))
                 /\ \A item \in Range(p.items[k]) :
                      /\ item.to.b = Own
                      /\ \A loc \in Range(item.from) :
                           loc.b # Own => loc.b = sp.backend_id /\ loc.c = c /\ loc.t \in copied
                 /\ \A j \in earlier \ {k} : Range(p.splits[j].inputs) \cap Range(sp.inputs) = {}
  <2> DEFINE sp == p.splits[k]
             b == sp.backend_id
             earlier == {j \in 1 .. k : p.splits[j].backend_id = b}
             copied == UNION {Range(p.splits[j].inputs) : j \in earlier}
  <2>1. sp.inputs \in Seq(Tensors(g)) /\ b \in Backends
    BY <1>2, PartIs
  <2>2. sp.inputs \in Seq(Range(sp.inputs))
    BY <2>1 DEF Range
  <2>3. Len(sp.inputs) <= MaxSplitInputs
    BY <1>3 DEF Fits
  <2>4. /\ p.items[k] \in Seq(Range(p.items[k]))
        /\ \A item \in Range(p.items[k]) :
             /\ item.to.b = Own
             /\ \E i \in SplitOps(g, p, k) :
                  Range(item.from) \subseteq
                    {Location(g, p, place) : place \in Range(p.src[g.nodes[i]])}
    <3>1. /\ p.items[k] \in Seq(Range(p.items[k])) /\ Len(p.items[k]) \in Nat
          /\ \A j \in 1 .. Len(p.items[k]) : \E i \in SplitOps(g, p, k) :
               p.items[k][j] = Operation(g, p, g.nodes[i])
      <4>1. InOrder(g, p, k)
        BY <1>1, PlanItems
      <4> QED BY <4>1, Zenon DEF InOrder
    <3>2. DOMAIN p.items[k] = 1 .. Len(p.items[k])
      BY <3>1
    <3>3. ASSUME NEW item \in Range(p.items[k])
          PROVE  /\ item.to.b = Own
                 /\ \E i \in SplitOps(g, p, k) :
                      Range(item.from) \subseteq
                        {Location(g, p, place) : place \in Range(p.src[g.nodes[i]])}
      <4>1. PICK j \in 1 .. Len(p.items[k]) : item = p.items[k][j]
        BY <3>2 DEF Range
      <4>2. PICK i \in SplitOps(g, p, k) : item = Operation(g, p, g.nodes[i])
        BY <3>1, <4>1
      <4>3. DOMAIN p.src[g.nodes[i]] = 1 .. Len(p.src[g.nodes[i]])
        BY <1>1, PassedOp
      <4> DEFINE x == g.nodes[i]
      <4>4. /\ Operation(g, p, x).to = PlaceOf(g, p, x) /\ PlaceOf(g, p, x).b = Own
            /\ Range(Operation(g, p, x).from) =
                 {Location(g, p, place) : place \in Range(p.src[x])}
        <5>1. WritesReads(g, p, x)
          BY <4>3, OperationIs
        <5> QED BY <5>1 DEF WritesReads
      <4>5. item.to.b = Own
        BY <4>2, <4>4
      <4>6. Range(item.from) \subseteq {Location(g, p, place) : place \in Range(p.src[x])}
        BY <4>2, <4>4
      <4> QED BY <4>5, <4>6
    <3> QED BY <3>1, <3>3
  <2>5. ASSUME NEW item \in Range(p.items[k]), NEW loc \in Range(item.from), loc.b # Own
        PROVE  loc.b = b /\ loc.c = c /\ loc.t \in copied
    <3>1. PICK i \in SplitOps(g, p, k) :
            Range(item.from) \subseteq
              {Location(g, p, place) : place \in Range(p.src[g.nodes[i]])}
      BY <2>4
    <3>2. PICK place \in Range(p.src[g.nodes[i]]) : loc = Location(g, p, place)
      BY <3>1
    <3>3. PICK s \in Sources(g, g.nodes[i]) : Served(g, p.ids, n, c, p.splits, k, s, place)
      BY <1>1, PassedOp
    <3>4. place.b # Own /\ loc = place
      <4>1. PlaceOf(g, p, Base(g, place.t)).b = Own
        BY DEF PlaceOf, Original
      <4> QED BY <2>5, <3>2, <4>1 DEF Location
    <3>5. /\ place = CopyOf(s, b, c)
          /\ \E m \in 1 .. k : p.splits[m].backend_id = b /\ s \in Range(p.splits[m].inputs)
      BY <3>3, <3>4 DEF Served, Original
    <3>6. place.b = b /\ place.c = c /\ place.t = s
      BY <3>5 DEF CopyOf
    <3> QED BY <3>4, <3>5, <3>6
  <2>6. ASSUME NEW j \in earlier \ {k} PROVE Range(p.splits[j].inputs) \cap Range(sp.inputs) = {}
    <3>1. j \in 1 .. Len(p.splits) /\ j # k /\ p.splits[j].backend_id = b
      BY <1>2
    <3> HIDE DEF earlier
    <3> QED BY <1>3, <3>1, Zenon DEF Fits
  <2> HIDE DEF copied, earlier, b
  <2> QED BY <2>2, <2>3, <2>4, <2>5, <2>6, Zenon DEF copied, earlier, b
<1> HIDE DEF IsPlan
<1> QED BY <1>2, <1>3, <1>4, <1>5, Zenon DEF SoundPlan

\* And its splits are sound.
LEMMA PlanSplits ==
  ASSUME NEW g, SoundGraph(g), NEW asked \in Asked(g), NEW n, NEW c \in Nat,
         NEW p, IsPlan(g, p, Split(g, asked, n, c)), ~p.abort
  PROVE  /\ \A x \in Tensors(g) : p.ids[x] \in Backends
         /\ \A k, m \in DOMAIN p.splits : k < m => SplitEnd(g, p, k) < p.splits[m].i_start
         /\ \A k \in DOMAIN p.splits :
              p.splits[k].i_start .. SplitEnd(g, p, k) \subseteq DOMAIN g.nodes
         /\ \A i \in DOMAIN g.nodes : \E k \in DOMAIN p.splits :
              i \in p.splits[k].i_start .. SplitEnd(g, p, k)
         /\ \A k \in DOMAIN p.splits : \A i \in SplitOps(g, p, k) :
              LET x == g.nodes[i]
                  b == p.splits[k].backend_id
              IN  /\ b = p.ids[x] /\ b \in CanCompute(g, x)
                  /\ \A place \in Range(p.src[x]) : b \in CanUse(BufferAt(g, p, place))
<1> DEFINE N == Len(g.nodes)
           L == Len(p.splits)
           start(k) == p.splits[k].i_start
<1>1. Passed(g, asked, n, c, p)
  BY PlanPassed
<1>2. /\ L \in Nat \ {0} /\ DOMAIN p.splits = 1 .. L /\ start(1) = 1
      /\ \A k \in 1 .. L :
           /\ start(k) \in 1 .. N /\ SplitEnd(g, p, k) \in Nat /\ SplitEnd(g, p, k) <= N
      /\ \A k, m \in 1 .. L : k < m => start(k) < start(m)
      /\ DOMAIN g.nodes = 1 .. N /\ N \in Nat
  BY <1>1, PassedSplits, GraphIs
<1>3. ASSUME NEW k \in 1 .. L, k # L
      PROVE  k + 1 \in 1 .. L /\ SplitEnd(g, p, k) = start(k + 1) - 1 /\ start(k + 1) \in 1 .. N
  <2>1. k + 1 \in 1 .. L
    BY <1>2, <1>3
  <2>2. SplitEnd(g, p, k) = start(k + 1) - 1
    BY <1>3 DEF SplitEnd
  <2> QED BY <1>2, <2>1, <2>2
<1>4. ASSUME NEW k \in 1 .. L, NEW m \in 1 .. L, k < m PROVE SplitEnd(g, p, k) < start(m)
  <2>1. k # L /\ start(m) \in 1 .. N
    BY <1>2, <1>4
  <2>2. k + 1 \in 1 .. L /\ SplitEnd(g, p, k) = start(k + 1) - 1 /\ start(k + 1) \in 1 .. N
    BY <1>3, <2>1
  <2>3. start(k + 1) <= start(m)
    <3>1. CASE k + 1 = m
      BY <2>1, <3>1
    <3>2. CASE k + 1 # m
      <4>1. k + 1 < m
        BY <1>4, <3>2
      <4>2. start(k + 1) < start(m)
        BY <1>2, <2>2, <4>1
      <4> HIDE DEF start
      <4> QED BY <2>1, <2>2, <4>2
    <3> QED BY <3>1, <3>2
  <2> HIDE DEF start, N
  <2> QED BY <2>1, <2>2, <2>3
<1>5. ASSUME NEW k \in 1 .. L PROVE start(k) .. SplitEnd(g, p, k) \subseteq 1 .. N
  BY <1>2
<1>6. ASSUME NEW i \in 1 .. N PROVE \E k \in 1 .. L : i \in start(k) .. SplitEnd(g, p, k)
  <2> DEFINE T == {k \in 1 .. L : k = L \/ i < start(k + 1)}
  <2>1. T \in SUBSET Nat /\ L \in T
    BY <1>2
  <2>2. PICK k \in T : \A m \in T : k <= m
    <3> HIDE DEF T
    <3> QED BY <2>1, Least
  <2>3. k \in 1 .. L /\ (k = L \/ i < start(k + 1))
    OBVIOUS
  <2>4. start(k) <= i
    <3>1. CASE k = 1
      BY <1>2, <3>1
    <3>2. CASE k # 1
      <4>1. k - 1 \in 1 .. L /\ k - 1 # L /\ (k - 1) + 1 = k
        BY <1>2, <2>3, <3>2
      <4>2. k - 1 \notin T
        <5> HIDE DEF T
        <5> QED BY <2>2, <2>3, <4>1
      <4>3. ~(i < start(k))
        BY <4>1, <4>2
      <4> QED BY <1>2, <2>3, <4>3
    <3> QED BY <3>1, <3>2
  <2>5. i <= SplitEnd(g, p, k)
    <3>1. CASE k = L
      BY <3>1 DEF SplitEnd
    <3>2. CASE k # L
      <4>1. SplitEnd(g, p, k) = start(k + 1) - 1 /\ start(k + 1) \in 1 .. N
        BY <1>3, <2>3, <3>2
      <4> HIDE DEF start, T
      <4> QED BY <2>3, <3>2, <4>1
    <3> QED BY <3>1, <3>2
  <2>6. start(k) \in Nat /\ SplitEnd(g, p, k) \in Nat
    BY <1>2, <2>3
  <2> HIDE DEF start, T
  <2>7. i \in start(k) .. SplitEnd(g, p, k)
    BY <2>4, <2>5, <2>6
  <2> QED BY <2>3, <2>7
<1>7. ASSUME NEW k \in 1 .. L, NEW i \in SplitOps(g, p, k)
      PROVE  LET x == g.nodes[i]
                 b == p.splits[k].backend_id
             IN  /\ b = p.ids[x] /\ b \in CanCompute(g, x)
                 /\ \A place \in Range(p.src[x]) : b \in CanUse(BufferAt(g, p, place))
  <2> DEFINE x == g.nodes[i]
             b == p.splits[k].backend_id
  <2>1. /\ x \in OpNodes(g) /\ b = p.ids[x] /\ b \in Backends
        /\ \A place \in Range(p.src[x]) : \E s \in Tensors(g) :
             Served(g, p.ids, n, c, p.splits, k, s, place)
    <3>1. x \in OpNodes(g) /\ b = p.ids[x] /\ b \in Backends
      BY <1>1, PassedOp
    <3>2. ASSUME NEW place \in Range(p.src[x])
          PROVE  \E s \in Tensors(g) : Served(g, p.ids, n, c, p.splits, k, s, place)
      BY <1>1, PassedOp
    <3> QED BY <3>1, <3>2
  <2>2. b \in CanCompute(g, x)
    <3>1. p.ids \in Assigned(g, asked)
      BY <1>1 DEF Passed
    <3> QED BY <2>1, <3>1 DEF Assigned, Assigning
  <2>3. ASSUME NEW place \in Range(p.src[x]) PROVE b \in CanUse(BufferAt(g, p, place))
    <3>1. PICK s \in Tensors(g) : Served(g, p.ids, n, c, p.splits, k, s, place)
      BY <2>1
    <3> QED BY <1>1, <2>1, <3>1, ServedUsable
  <2> QED BY <2>1, <2>2, <2>3
<1> HIDE DEF N, L, start
<1>8. /\ \A k, m \in 1 .. L : k < m => SplitEnd(g, p, k) < start(m)
      /\ \A k \in 1 .. L : start(k) .. SplitEnd(g, p, k) \subseteq 1 .. N
      /\ \A i \in 1 .. N : \E k \in 1 .. L : i \in start(k) .. SplitEnd(g, p, k)
  BY <1>4, <1>5, <1>6
<1>9. DOMAIN p.splits = 1 .. L /\ DOMAIN g.nodes = 1 .. N
  BY <1>2
<1>10. \A x \in Tensors(g) : p.ids[x] \in Backends
  BY <1>1 DEF Passed
<1> QED BY <1>7, <1>8, <1>9, <1>10, Zenon DEF start

\* A tensor that the user assigns stays there, or goes to a backend of higher
\* priority with the same buffer type.
LEMMA PlanKeeps ==
  ASSUME NEW g, SoundGraph(g), NEW asked \in Asked(g), NEW n, NEW c \in Nat,
         NEW p, IsPlan(g, p, Split(g, asked, n, c)), ~p.abort,
         NEW x \in Tensors(g), asked[x] # Unassigned
  PROVE  p.ids[x] <= asked[x] /\ bufts[p.ids[x]] = bufts[asked[x]]
<1>1. p.ids \in Assigned(g, asked)
  BY PlanPassed DEF Passed
<1> QED BY <1>1 DEF Assigned, Assigning

-----------------------------------------------------------------------------
(* Flow: what the operations of a plan find in the memory that they read.    *)

\* Weights, which nobody writes, and the places that the user writes.
AtRest(g, loc) ==
  loc.b = Own /\ loc.t \in Range(g.leafs) \ UserTensors(g) /\ g.t[loc.t].weights
UserPlace(g, p, loc) == loc.t \in UserTensors(g) /\ loc = PlaceOf(g, p, loc.t)

\* The splits that write a place before operation i of split k.
Writers(p, k, i, loc) ==
  {k1 \in 1 .. k : \E i1 \in 1 .. Len(p.items[k1]) :
                     p.items[k1][i1].to = loc /\ (k1 = k => i1 < i)}

\* An operation has its place for itself. It reads weights, what the user wrote,
\* and results of operations before; a backend with a queue reads its own results
\* only, unless they are copied, and nobody else reads those.
SoundItem(g, p, k, i) ==
  LET item == p.items[k][i]
      b == p.splits[k].backend_id
  IN  /\ item.to.t \in OpNodes(g) \ Range(g.leafs) /\ p.ids[item.to.t] = b
      /\ Writers(p, k, i, item.to) = {}
      /\ \A loc \in Range(item.from) : loc.b = Own =>
           \/ AtRest(g, loc)
           \/ UserPlace(g, p, loc) /\ b \notin Async
           \/ \E k1 \in Writers(p, k, i, loc) :
                \/ p.splits[k1].backend_id = b
                \/ b \notin Async /\ p.splits[k1].backend_id \notin Async
      /\ \A loc \in Range(item.from) : loc.b # Own => loc = CopyOf(loc.t, b, p.copy)

\* What is copied into split k has been given, or computed by a backend that is
\* awaited.
SoundInput(g, p, k, x) ==
  LET loc == Location(g, p, PlaceOf(g, p, x))
  IN  \/ AtRest(g, loc)
      \/ UserPlace(g, p, loc)
      \/ /\ ~g.t[x].input
         /\ \E k1 \in Writers(p, k, 1, loc) :
              p.splits[k1].backend_id \in Async => p.splits[k1].backend_id = p.ids[x]

\* The splits compute each node of the graph once, in an order that respects
\* what they read.
SoundFlow(g, p) ==
  /\ p.node_backend_ids \in Seq(Backends)
  /\ \A x \in OpNodes(g) : \E k \in 1 .. Len(p.splits) :
       \E i \in 1 .. Len(p.items[k]) : p.items[k][i].to = PlaceOf(g, p, x)
  /\ \A k \in 1 .. Len(p.splits) :
       /\ p.splits[k].backend_id \in Backends
       /\ \A i \in 1 .. Len(p.items[k]) : SoundItem(g, p, k, i)
       /\ \A x \in Range(p.splits[k].inputs) : SoundInput(g, p, k, x)

\* The memory that a tensor is in. A backend can use it, or the passes saw that
\* it cannot.
MemoryOf(g, p, x) ==
  IF Preallocated(g, x) THEN g.t[Base(g, x)].buffer ELSE bufts[p.ids[Base(g, x)]]

LEMMA MemoryIs ==
  ASSUME NEW g, SoundGraph(g), NEW asked, NEW n, NEW c, NEW p, Passed(g, asked, n, c, p),
         NEW s \in Tensors(g), NEW b \in Backends
  PROVE  LET y == Base(g, s)
         IN  /\ y \in Tensors(g) /\ Base(g, y) = y /\ MemoryOf(g, p, s) = MemoryOf(g, p, y)
             /\ p.ids[y] \in CanUse(MemoryOf(g, p, y)) /\ p.ids[s] \in CanUse(MemoryOf(g, p, y))
             /\ p.ids[s] \in Backends /\ p.ids[y] \in Backends
             /\ b \in CanUse(MemoryOf(g, p, y)) <=>
                  p.ids[s] = b \/ BufferSupported(g, p.ids, s, b)
<1> DEFINE y == Base(g, s)
           ids == p.ids
<1>1. /\ y \in Tensors(g) /\ Base(g, y) = y /\ (Preallocated(g, y) <=> Preallocated(g, s))
      /\ g.t[s].view_src = None => y = s
  BY BaseIs
<1>2. /\ ids \in [Tensors(g) -> Backends]
      /\ \A x \in Tensors(g) : Preallocated(g, x) => ids[x] \in CanUse(g.t[Base(g, x)].buffer)
      /\ View(g, s) => ids[s] \in {Unassigned, ids[y]}
  BY DEF Passed, Assigned, Assigning, ViewsFollow
<1>3. \A a \in Backends : a \in CanUse(bufts[a]) /\ a # Unassigned
  BY BackendFacts
<1>4. MemoryOf(g, p, s) = MemoryOf(g, p, y)
  BY <1>1 DEF MemoryOf
<1>5. ids[s] \in Backends /\ ids[y] \in Backends
  BY <1>1, <1>2
<1> HIDE DEF y, ids
<1>6. CASE Preallocated(g, s)
  <2>1. MemoryOf(g, p, y) = g.t[y].buffer
    BY <1>1, <1>6 DEF MemoryOf
  <2>2. ids[s] \in CanUse(g.t[y].buffer) /\ ids[y] \in CanUse(g.t[y].buffer)
    BY <1>1, <1>2, <1>6 DEF y
  <2>3. BufferSupported(g, ids, s, b) <=> b \in CanUse(g.t[y].buffer)
    BY <1>6 DEF BufferSupported, y
  <2> QED BY <1>1, <1>4, <1>5, <2>1, <2>2, <2>3 DEF y, ids
<1>7. CASE ~Preallocated(g, s)
  <2>1. ids[s] = ids[y]
    <3>1. CASE g.t[s].view_src = None
      BY <1>1, <3>1
    <3>2. CASE g.t[s].view_src # None
      BY <1>2, <1>3, <1>5, <1>7, <3>2 DEF View
    <3> QED BY <3>1, <3>2
  <2>2. MemoryOf(g, p, y) = bufts[ids[y]]
    BY <1>1, <1>7 DEF MemoryOf, ids
  <2>3. BufferSupported(g, ids, s, b) <=> b \in CanUse(bufts[ids[y]])
    <3>1. IdOrBase(g, ids, s) = ids[y]
      BY <1>3, <1>5, <2>1 DEF IdOrBase
    <3>2. ids[y] # Unassigned
      BY <1>3, <1>5
    <3> QED BY <1>7, <3>1, <3>2 DEF BufferSupported
  <2>4. ids[y] \in CanUse(bufts[ids[y]])
    BY <1>3, <1>5
  <2>5. b \in CanUse(MemoryOf(g, p, y)) <=> ids[s] = b \/ BufferSupported(g, ids, s, b)
    BY <2>1, <2>2, <2>3, <2>4
  <2> QED BY <1>1, <1>4, <1>5, <2>1, <2>2, <2>4, <2>5 DEF y, ids
<1> QED BY <1>6, <1>7

\* The memory of a backend with a queue is its own, and holds nothing of the user.
LEMMA Private ==
  ASSUME NEW g, SoundGraph(g), OrderedGraph(g), PrivateQueues(g), NEW asked \in Asked(g),
         NEW n, NEW c, NEW p, Passed(g, asked, n, c, p),
         NEW y \in Tensors(g), Base(g, y) = y, NEW b \in CanUse(MemoryOf(g, p, y))
  PROVE  /\ y \in OpNodes(g) /\ p.ids[y] # b => b \notin Async /\ p.ids[y] \notin Async
         /\ y \in UserTensors(g) => b \notin Async
<1> DEFINE ids == p.ids
           buf == g.t[y].buffer
<1>1. b \in Backends /\ ids[y] \in Backends
  BY Able DEF Passed
<1>2. /\ CPU \notin Async
      /\ \A d \in Async : \A a \in Backends \ {d} : d \notin CanUse(bufts[a]) /\ a \notin CanUse(bufts[d])
      /\ \A x \in Tensors(g) : Preallocated(g, x) /\ CanUse(g.t[Base(g, x)].buffer) \cap Async # {} =>
           \/ g.t[Base(g, x)].weights
           \/ Base(g, x) \in OpNodes(g) /\ \E d \in Async : CanUse(g.t[Base(g, x)].buffer) = {d}
      /\ \A ask \in g.asks : g.t[ask[1]].input => ask[2] \notin Async
  BY Zenon DEF PrivateQueues
<1>3. /\ Range(g.nodes) \cap Range(g.leafs) = {}
      /\ \A x \in Range(g.leafs) : ~(g.t[x].weights /\ g.t[x].input)
      /\ \A i \in 1 .. Len(g.nodes) : ~g.t[g.nodes[i]].weights
  BY Zenon DEF OrderedGraph
<1>4. y \in OpNodes(g) => ~g.t[y].weights
  BY <1>3, GraphIs DEF OpNodes, Range
<1>5. y \in UserTensors(g) =>
        /\ y \in Range(g.leafs) /\ y \notin OpNodes(g) /\ (Preallocated(g, y) => ~g.t[y].weights)
        /\ (~Preallocated(g, y) => g.t[y].input)
  BY <1>3 DEF UserTensors, OpNodes
<1>6. /\ Preallocated(g, y) => ids[y] \in CanUse(buf)
      /\ y \notin OpNodes(g) /\ g.t[y].input /\ ~Preallocated(g, y) /\ asked[y] = Unassigned => ids[y] = CPU
      /\ asked[y] # Unassigned => asked[y] \in Backends /\ bufts[ids[y]] = bufts[asked[y]]
  BY DEF Passed, Assigned, Assigning
<1>7. CASE Preallocated(g, y)
  <2>1. b \in CanUse(buf) /\ ids[y] \in CanUse(buf)
    BY <1>6, <1>7 DEF MemoryOf
  <2>2. CanUse(buf) \cap Async # {} =>
          g.t[y].weights \/ (y \in OpNodes(g) /\ \E d \in Async : CanUse(buf) = {d})
    BY <1>2, <1>7
  <2> HIDE DEF ids, buf
  <2>3. ASSUME y \in OpNodes(g), ids[y] # b PROVE CanUse(buf) \cap Async = {}
    BY <1>4, <2>1, <2>2, <2>3
  <2>4. ASSUME y \in UserTensors(g) PROVE CanUse(buf) \cap Async = {}
    BY <1>5, <1>7, <2>2, <2>4
  <2> QED BY <2>1, <2>3, <2>4 DEF ids
<1>8. CASE ~Preallocated(g, y)
  <2>1. b \in CanUse(bufts[ids[y]])
    BY <1>8 DEF MemoryOf
  <2> HIDE DEF ids
  <2>2. ids[y] # b => b \notin Async /\ ids[y] \notin Async
    BY <1>1, <1>2, <2>1
  <2>3. ASSUME y \in UserTensors(g) PROVE ids[y] \notin Async
    <3>1. CASE asked[y] = Unassigned
      BY <1>2, <1>5, <1>6, <1>8, <2>3, <3>1
    <3>2. CASE asked[y] # Unassigned
      <4>1. asked[y] \notin Async
        <5>1. g.asks \subseteq Tensors(g) \X Backends
          BY Zenon DEF SoundGraph
        <5>2. <<y, asked[y]>> \in g.asks
          BY <3>2, <5>1, AskedIs
        <5>3. <<y, asked[y]>>[1] = y /\ <<y, asked[y]>>[2] = asked[y]
          OBVIOUS
        <5> QED BY <1>2, <1>5, <1>8, <2>3, <5>2, <5>3
      <4>2. asked[y] \in Backends /\ ids[y] \in CanUse(bufts[asked[y]])
        BY <1>1, <1>6, <3>2, BackendFacts
      <4> QED BY <1>2, <4>1, <4>2
    <3> QED BY <3>1, <3>2
  <2> QED BY <2>2, <2>3 DEF ids
<1> QED BY <1>7, <1>8

\* The splits follow the nodes: each operation is in one, and one of an earlier
\* node not in a later split.
Follows(g, p) ==
  /\ \A k \in 1 .. Len(p.splits) : InOrder(g, p, k)
  /\ \A k, l \in 1 .. Len(p.splits) : \A i \in SplitOps(g, p, k) : \A m \in SplitOps(g, p, l) :
       i <= m => k <= l
  /\ \A i \in 1 .. Len(g.nodes) : ~ViewOp(g, g.nodes[i]) =>
       \E k \in 1 .. Len(p.splits) : i \in SplitOps(g, p, k)

LEMMA PlanFollows ==
  ASSUME NEW g, SoundGraph(g), NEW asked \in Asked(g), NEW n, NEW c \in Nat,
         NEW p, IsPlan(g, p, Split(g, asked, n, c)), ~p.abort
  PROVE  Follows(g, p)
<1> DEFINE L == Len(p.splits)
           start(k) == p.splits[k].i_start
<1>1. Passed(g, asked, n, c, p)
  BY PlanPassed
<1>2. /\ DOMAIN p.splits = 1 .. L /\ L \in Nat
      /\ \A k \in 1 .. L : start(k) \in 1 .. Len(g.nodes) /\ SplitEnd(g, p, k) \in Nat
      /\ DOMAIN g.nodes = 1 .. Len(g.nodes)
  BY <1>1, PassedSplits, GraphIs
<1>3. /\ \A k, m \in DOMAIN p.splits : k < m => SplitEnd(g, p, k) < start(m)
      /\ \A i \in DOMAIN g.nodes : \E k \in DOMAIN p.splits : i \in start(k) .. SplitEnd(g, p, k)
  BY PlanSplits
<1> HIDE DEF start, L
<1>4. ASSUME NEW k \in 1 .. L, NEW l \in 1 .. L, NEW i \in SplitOps(g, p, k),
             NEW m \in SplitOps(g, p, l), i <= m
      PROVE  k <= l
  <2>1. i \in start(k) .. SplitEnd(g, p, k) /\ m \in start(l) .. SplitEnd(g, p, l)
    BY DEF SplitOps, start
  <2>2. ~(l < k)
    <3> SUFFICES ASSUME l < k PROVE FALSE
      OBVIOUS
    <3>1. SplitEnd(g, p, l) < start(k)
      BY <1>2, <1>3
    <3>2. start(k) \in Nat /\ SplitEnd(g, p, l) \in Nat
      BY <1>2
    <3>3. i \in Int /\ m \in Int /\ start(k) <= i /\ m <= SplitEnd(g, p, l)
      BY <1>2, <2>1
    <3> QED BY <1>4, <3>1, <3>2, <3>3
  <2> QED BY <1>2, <2>2
<1>5. ASSUME NEW i \in 1 .. Len(g.nodes), ~ViewOp(g, g.nodes[i])
      PROVE  \E k \in 1 .. L : i \in SplitOps(g, p, k)
  BY <1>2, <1>3, <1>5 DEF SplitOps, start
<1>6. \A k \in 1 .. L : InOrder(g, p, k)
  BY <1>1, PlanItems DEF L
<1> QED BY <1>4, <1>5, <1>6, Zenon DEF Follows, L

\* Nobody writes the place of an operation before it is run, and the operations
\* of the nodes before have been run.
AfterEarlier(g, p, k, i, m) ==
  /\ Writers(p, k, i, PlaceOf(g, p, g.nodes[m])) = {}
  /\ \A d \in 1 .. Len(g.nodes) : d < m /\ ~ViewOp(g, g.nodes[d]) =>
       \E l \in Writers(p, k, i, PlaceOf(g, p, g.nodes[d])) :
         p.splits[l].backend_id = p.ids[g.nodes[d]]

LEMMA WritersAre ==
  ASSUME NEW g, SoundGraph(g), NEW asked, NEW n, NEW c, NEW p, Passed(g, asked, n, c, p),
         Follows(g, p), NEW k \in 1 .. Len(p.splits), NEW i \in 1 .. Len(p.items[k]),
         NEW m \in SplitOps(g, p, k), p.items[k][i] = Operation(g, p, g.nodes[m])
  PROVE  AfterEarlier(g, p, k, i, m)
<1> DEFINE N == Len(g.nodes)
           L == Len(p.splits)
<1>1. /\ L \in Nat /\ N \in Nat /\ DOMAIN g.nodes = 1 .. N
      /\ IsInjective(g.nodes)
  BY PassedSplits, GraphIs, Zenon DEF SoundGraph
<1>2. /\ \A l \in 1 .. L : InOrder(g, p, l)
      /\ \A a, l \in 1 .. L : \A d \in SplitOps(g, p, a) : \A e \in SplitOps(g, p, l) :
           d <= e => a <= l
      /\ \A d \in 1 .. N : ~ViewOp(g, g.nodes[d]) => \E l \in 1 .. L : d \in SplitOps(g, p, l)
  BY Zenon DEF Follows
<1>3. \A l \in 1 .. L :
        /\ Len(p.items[l]) \in Nat
        /\ \A d \in SplitOps(g, p, l) : \E j \in 1 .. Len(p.items[l]) :
             p.items[l][j] = Operation(g, p, g.nodes[d])
        /\ \A j \in 1 .. Len(p.items[l]) : \E d \in SplitOps(g, p, l) :
             p.items[l][j] = Operation(g, p, g.nodes[d])
        /\ \A j, e \in 1 .. Len(p.items[l]) : \A d, f \in SplitOps(g, p, l) :
             /\ p.items[l][j] = Operation(g, p, g.nodes[d])
             /\ p.items[l][e] = Operation(g, p, g.nodes[f])
             /\ e < j
             => f < d
  BY <1>2, Zenon DEF InOrder
<1>4. ASSUME NEW l \in 1 .. L, NEW d \in SplitOps(g, p, l)
      PROVE  /\ d \in 1 .. N /\ Operation(g, p, g.nodes[d]).to = PlaceOf(g, p, g.nodes[d])
             /\ PlaceOf(g, p, g.nodes[d]).t = g.nodes[d]
             /\ p.splits[l].backend_id = p.ids[g.nodes[d]]
  <2>1. /\ d \in 1 .. N /\ p.splits[l].backend_id = p.ids[g.nodes[d]]
        /\ DOMAIN p.src[g.nodes[d]] = 1 .. Len(p.src[g.nodes[d]])
    BY PassedOp
  <2>2. WritesReads(g, p, g.nodes[d])
    BY <2>1, OperationIs
  <2> QED BY <2>1, <2>2 DEF WritesReads
<1>5. ASSUME NEW l \in 1 .. L, NEW d \in SplitOps(g, p, l),
             PlaceOf(g, p, g.nodes[d]) = PlaceOf(g, p, g.nodes[m])
      PROVE  d = m
  <2>1. d \in 1 .. N /\ m \in 1 .. N /\ g.nodes[d] = g.nodes[m]
    BY <1>4, <1>5
  <2> QED BY <1>1, <2>1 DEF IsInjective
<1>6. ASSUME NEW l \in Writers(p, k, i, PlaceOf(g, p, g.nodes[m])) PROVE FALSE
  <2>1. PICK j \in 1 .. Len(p.items[l]) :
          /\ l \in 1 .. k /\ p.items[l][j].to = PlaceOf(g, p, g.nodes[m])
          /\ l = k => j < i
    BY DEF Writers
  <2>2. l \in 1 .. L /\ l <= k
    BY <1>1, <2>1
  <2>3. PICK d \in SplitOps(g, p, l) : p.items[l][j] = Operation(g, p, g.nodes[d])
    BY <1>3, <2>2
  <2>4. d = m
    BY <1>4, <1>5, <2>1, <2>2, <2>3
  <2>5. m \in 1 .. N
    BY <1>4
  <2>6. k <= l
    BY <1>1, <1>2, <2>2, <2>4, <2>5
  <2>7. l = k
    BY <1>1, <2>2, <2>6
  <2>8. m < m
    BY <1>3, <2>1, <2>3, <2>4, <2>7
  <2> QED BY <1>1, <2>5, <2>8
<1>7. ASSUME NEW d \in 1 .. N, d < m, ~ViewOp(g, g.nodes[d])
      PROVE  \E l \in Writers(p, k, i, PlaceOf(g, p, g.nodes[d])) :
               p.splits[l].backend_id = p.ids[g.nodes[d]]
  <2>1. PICK l \in 1 .. L : d \in SplitOps(g, p, l)
    BY <1>2, <1>7
  <2>2. m \in 1 .. N /\ p.splits[l].backend_id = p.ids[g.nodes[d]]
        /\ Operation(g, p, g.nodes[d]).to = PlaceOf(g, p, g.nodes[d])
    BY <1>4, <2>1
  <2>3. l <= k
    BY <1>1, <1>2, <1>7, <2>1, <2>2
  <2>4. PICK j \in 1 .. Len(p.items[l]) : p.items[l][j] = Operation(g, p, g.nodes[d])
    BY <1>3, <2>1
  <2>5. l = k => j < i
    <3> SUFFICES ASSUME l = k PROVE j < i
      OBVIOUS
    <3>1. ~(i < j)
      <4> SUFFICES ASSUME i < j PROVE FALSE
        OBVIOUS
      <4>1. m < d
        BY <1>3, <2>1, <2>4
      <4> QED BY <1>1, <1>7, <2>2, <4>1
    <3>2. i # j
      <4> SUFFICES ASSUME i = j PROVE FALSE
        OBVIOUS
      <4>1. Operation(g, p, g.nodes[d]) = Operation(g, p, g.nodes[m])
        BY <2>4
      <4>2. d = m
        BY <1>4, <1>5, <2>1, <4>1
      <4> QED BY <1>1, <1>7, <2>2, <4>2
    <3>3. Len(p.items[k]) \in Nat /\ i \in 1 .. Len(p.items[k]) /\ j \in 1 .. Len(p.items[k])
      BY <1>3, <2>4
    <3> QED BY <3>1, <3>2, <3>3
  <2>6. l \in 1 .. k /\ p.items[l][j].to = PlaceOf(g, p, g.nodes[d])
    BY <1>1, <2>1, <2>2, <2>3, <2>4
  <2>7. l \in Writers(p, k, i, PlaceOf(g, p, g.nodes[d]))
    BY <2>4, <2>5, <2>6 DEF Writers
  <2> QED BY <2>2, <2>7
<1> QED BY <1>6, <1>7 DEF AfterEarlier

\* What a node reads is in the memory of a leaf, or of a node before it.
LEMMA Earlier ==
  ASSUME NEW g, SoundGraph(g), OrderedGraph(g), NEW m \in 1 .. Len(g.nodes),
         ~ViewOp(g, g.nodes[m]), NEW s \in Sources(g, g.nodes[m])
  PROVE  LET y == Base(g, s)
         IN  \/ y \in Range(g.leafs)
             \/ \E d \in 1 .. Len(g.nodes) :
                  y = g.nodes[d] /\ d < m /\ ~ViewOp(g, y) /\ y \in OpNodes(g)
<1> DEFINE y == Base(g, s)
<1>1. y \in Range(g.leafs) \cup {g.nodes[d] : d \in 1 .. m - 1}
  BY Zenon DEF OrderedGraph
<1>2. s \in Tensors(g) /\ Len(g.nodes) \in Nat /\ DOMAIN g.nodes = 1 .. Len(g.nodes)
  BY GraphIs DEF Sources, Range
<1>3. y \in Tensors(g) /\ g.t[y].view_src = None
  BY <1>2, BaseIs
<1> HIDE DEF y
<1>4. ~ViewOp(g, y)
  BY <1>3, Zenon DEF SoundGraph
<1>5. ASSUME NEW d \in 1 .. m - 1, y = g.nodes[d]
      PROVE  d \in 1 .. Len(g.nodes) /\ d < m /\ y \in OpNodes(g)
  <2>1. d \in 1 .. Len(g.nodes) /\ d < m
    BY <1>2
  <2> QED BY <1>2, <1>4, <1>5, <2>1 DEF OpNodes, Range
<1> QED BY <1>1, <1>4, <1>5 DEF y

\* The user writes a leaf before each computation, or nobody does.
LEMMA LeafPlaces ==
  ASSUME NEW g, SoundGraph(g), NEW p, NEW y \in Range(g.leafs)
  PROVE  AtRest(g, PlaceOf(g, p, y)) \/ (y \in UserTensors(g) /\ UserPlace(g, p, PlaceOf(g, p, y)))
<1>1. PlaceOf(g, p, y).t = y /\ PlaceOf(g, p, y).b = Own
  BY DEF PlaceOf, Original
<1>2. Preallocated(g, y) \/ g.t[y].input
  BY Zenon DEF SoundGraph
<1>3. CASE y \in UserTensors(g)
  BY <1>1, <1>3 DEF UserPlace
<1>4. CASE y \notin UserTensors(g)
  <2>1. g.t[y].weights
    BY <1>2, <1>4 DEF UserTensors
  <2> QED BY <1>1, <1>4, <2>1 DEF AtRest
<1> QED BY <1>3, <1>4

LEMMA ItemFlows ==
  ASSUME NEW g, SoundGraph(g), OrderedGraph(g), PrivateQueues(g), NEW asked \in Asked(g),
         NEW n, NEW c, NEW p, Passed(g, asked, n, c, p), Follows(g, p),
         NEW k \in 1 .. Len(p.splits), NEW i \in 1 .. Len(p.items[k])
  PROVE  SoundItem(g, p, k, i)
<1> DEFINE item == p.items[k][i]
           b == p.splits[k].backend_id
<1>0. ASSUME NEW m \in SplitOps(g, p, k)
      PROVE  LET x == g.nodes[m]
             IN  /\ x \in OpNodes(g) /\ x \in Tensors(g) /\ b = p.ids[x] /\ b \in Backends
                 /\ m \in 1 .. Len(g.nodes) /\ DOMAIN p.src[x] = 1 .. Len(p.src[x])
                 /\ \A place \in Range(p.src[x]) : \E s \in Sources(g, x) :
                      s \in Tensors(g) /\ Served(g, p.ids, n, c, p.splits, k, s, place)
  <2> DEFINE x == g.nodes[m]
  <2>1. /\ x \in OpNodes(g) /\ x \in Tensors(g) /\ b = p.ids[x] /\ b \in Backends
        /\ m \in 1 .. Len(g.nodes) /\ DOMAIN p.src[x] = 1 .. Len(p.src[x])
    BY PassedOp
  <2>2. ASSUME NEW place \in Range(p.src[x])
        PROVE  \E s \in Sources(g, x) :
                 s \in Tensors(g) /\ Served(g, p.ids, n, c, p.splits, k, s, place)
    BY PassedOp
  <2> QED BY <2>1, <2>2
<1>1. PICK m \in SplitOps(g, p, k) : item = Operation(g, p, g.nodes[m])
  <2>1. InOrder(g, p, k)
    BY Zenon DEF Follows
  <2> QED BY <2>1, Zenon DEF InOrder
<1> DEFINE x == g.nodes[m]
<1>2. /\ x \in OpNodes(g) /\ x \in Tensors(g) /\ b = p.ids[x] /\ b \in Backends /\ m \in 1 .. Len(g.nodes)
      /\ DOMAIN p.src[x] = 1 .. Len(p.src[x])
      /\ \A place \in Range(p.src[x]) : \E s \in Sources(g, x) :
           s \in Tensors(g) /\ Served(g, p.ids, n, c, p.splits, k, s, place)
  BY <1>0, <1>1
<1>3. /\ item.to = PlaceOf(g, p, x) /\ item.to.t = x
      /\ Range(item.from) = {Location(g, p, place) : place \in Range(p.src[x])}
  <2>1. /\ Operation(g, p, x).to = PlaceOf(g, p, x) /\ PlaceOf(g, p, x).t = x
        /\ Range(Operation(g, p, x).from) = {Location(g, p, place) : place \in Range(p.src[x])}
    <3>1. WritesReads(g, p, x)
      BY <1>2, OperationIs
    <3> QED BY <3>1 DEF WritesReads
  <2> QED BY <1>1, <2>1
<1>4. x \notin Range(g.leafs) /\ ~ViewOp(g, x)
  <2>1. Range(g.nodes) \cap Range(g.leafs) = {}
    BY Zenon DEF OrderedGraph
  <2> QED BY <1>2, <2>1 DEF OpNodes
<1>5. AfterEarlier(g, p, k, i, m)
  BY <1>1, WritersAre
<1>6. b # Own /\ p.copy = c
  BY <1>2, BackendFacts DEF Passed
<1>7. ASSUME NEW loc \in Range(item.from)
      PROVE  /\ loc.b = Own =>
                  \/ AtRest(g, loc)
                  \/ UserPlace(g, p, loc) /\ b \notin Async
                  \/ \E k1 \in Writers(p, k, i, loc) :
                       \/ p.splits[k1].backend_id = b
                       \/ b \notin Async /\ p.splits[k1].backend_id \notin Async
             /\ loc.b # Own => loc = CopyOf(loc.t, b, p.copy)
  <2>1. PICK place \in Range(p.src[x]) : loc = Location(g, p, place)
    BY <1>3
  <2>2. PICK s \in Sources(g, x) : s \in Tensors(g) /\ Served(g, p.ids, n, c, p.splits, k, s, place)
    BY <1>2
  <2>3. CASE place = CopyOf(s, b, c)
    <3>1. place.b = b /\ place.t = s
      BY <2>3 DEF CopyOf
    <3>2. loc = place
      BY <1>6, <2>1, <3>1 DEF Location
    <3> QED BY <1>6, <2>3, <3>1, <3>2
  <2>4. CASE place = Original(g, s, n, c) /\ (p.ids[s] = b \/ BufferSupported(g, p.ids, s, b))
    <3> DEFINE y == Base(g, s)
    <3>1. loc = PlaceOf(g, p, y) /\ loc.b = Own
      <4>1. place.b = Own /\ place.t = s
        BY <2>4 DEF Original
      <4>2. loc = PlaceOf(g, p, y)
        BY <2>1, <4>1 DEF Location
      <4> QED BY <4>2 DEF PlaceOf, Original
    <3>2. y \in Tensors(g) /\ Base(g, y) = y /\ b \in CanUse(MemoryOf(g, p, y))
      BY <1>2, <2>2, <2>4, MemoryIs
    <3> HIDE DEF y
    <3>3. /\ y \in OpNodes(g) /\ p.ids[y] # b => b \notin Async /\ p.ids[y] \notin Async
          /\ y \in UserTensors(g) => b \notin Async
      BY <3>2, Private
    <3>4. CASE y \in Range(g.leafs)
      BY <3>1, <3>3, <3>4, LeafPlaces
    <3>5. CASE \E d \in 1 .. Len(g.nodes) :
                 y = g.nodes[d] /\ d < m /\ ~ViewOp(g, y) /\ y \in OpNodes(g)
      <4>1. PICK d \in 1 .. Len(g.nodes) :
              y = g.nodes[d] /\ d < m /\ ~ViewOp(g, y) /\ y \in OpNodes(g)
        BY <3>5
      <4>2. PICK k1 \in Writers(p, k, i, PlaceOf(g, p, y)) : p.splits[k1].backend_id = p.ids[y]
        BY <1>5, <4>1 DEF AfterEarlier
      <4>3. k1 \in Writers(p, k, i, loc)
        BY <3>1, <4>2
      <4>4. \/ p.splits[k1].backend_id = b
            \/ b \notin Async /\ p.splits[k1].backend_id \notin Async
        BY <3>3, <4>1, <4>2
      <4> QED BY <3>1, <4>3, <4>4
    <3> QED BY <1>2, <1>4, <2>2, <3>4, <3>5, Earlier DEF y
  <2> QED BY <2>2, <2>3, <2>4 DEF Served
<1>8. Writers(p, k, i, item.to) = {}
  BY <1>3, <1>5 DEF AfterEarlier
<1> HIDE DEF x
<1> QED BY <1>2, <1>3, <1>4, <1>7, <1>8 DEF SoundItem

LEMMA InputFlows ==
  ASSUME NEW g, SoundGraph(g), OrderedGraph(g), PrivateQueues(g), NEW asked \in Asked(g),
         NEW n, NEW c, NEW p, Passed(g, asked, n, c, p), Follows(g, p),
         NEW k \in 1 .. Len(p.splits), NEW x \in Range(p.splits[k].inputs)
  PROVE  SoundInput(g, p, k, x)
<1> DEFINE N == Len(g.nodes)
           b == p.splits[k].backend_id
           y == Base(g, x)
           loc == Location(g, p, PlaceOf(g, p, x))
<1>0. ASSUME NEW l \in 1 .. Len(p.splits), NEW e \in SplitOps(g, p, l)
      PROVE  /\ p.splits[l].backend_id = p.ids[g.nodes[e]]
             /\ Operation(g, p, g.nodes[e]).to = PlaceOf(g, p, g.nodes[e])
  <2>1. /\ p.splits[l].backend_id = p.ids[g.nodes[e]]
        /\ DOMAIN p.src[g.nodes[e]] = 1 .. Len(p.src[g.nodes[e]])
    BY PassedOp
  <2>2. WritesReads(g, p, g.nodes[e])
    BY <2>1, OperationIs
  <2> QED BY <2>1, <2>2 DEF WritesReads
<1>1. /\ N \in Nat /\ Len(p.splits) \in Nat /\ b \in Backends
      /\ \A l \in 1 .. Len(p.splits) : p.splits[l].i_start \in Nat
  BY PassedSplits, PartIs, GraphIs
<1>2. PICK m \in 1 .. N : InPart(p.splits, k, m) /\ Needs(g, p.ids, b, m, x)
  <2>1. Needed(g, p.ids, N, p.splits)
    BY DEF Passed
  <2> QED BY <2>1 DEF Needed
<1>3. /\ ~ViewOp(g, g.nodes[m]) /\ x \in Sources(g, g.nodes[m]) /\ x \in Tensors(g)
      /\ p.ids[x] # b /\ ~BufferSupported(g, p.ids, x, b)
  BY <1>2, GraphIs DEF Needs, Sources, Range
<1>4. m \in SplitOps(g, p, k)
  <2>1. p.splits[k].i_start <= m /\ (k < Len(p.splits) => m < p.splits[k + 1].i_start)
    BY <1>2 DEF InPart
  <2>2. CASE k = Len(p.splits)
    BY <1>1, <1>3, <2>1, <2>2 DEF SplitOps, SplitEnd
  <2>3. CASE k # Len(p.splits)
    <3>1. k < Len(p.splits) /\ k + 1 \in 1 .. Len(p.splits)
      BY <1>1, <2>3
    <3>2. SplitEnd(g, p, k) = p.splits[k + 1].i_start - 1 /\ p.splits[k + 1].i_start \in Nat
          /\ p.splits[k].i_start \in Nat
      BY <1>1, <2>3, <3>1 DEF SplitEnd
    <3> QED BY <1>3, <2>1, <3>1, <3>2 DEF SplitOps
  <2> QED BY <2>2, <2>3
<1>5. loc = PlaceOf(g, p, y)
  BY DEF Location, PlaceOf, Original
<1>6. /\ y \in Tensors(g) /\ Base(g, y) = y
      /\ p.ids[y] \in CanUse(MemoryOf(g, p, y)) /\ p.ids[x] \in CanUse(MemoryOf(g, p, y))
      /\ b \notin CanUse(MemoryOf(g, p, y))
  BY <1>1, <1>3, MemoryIs
<1> HIDE DEF loc, y
<1>7. CASE y \in Range(g.leafs)
  BY <1>5, <1>7, LeafPlaces, Zenon DEF SoundInput, loc
<1>8. CASE \E d \in 1 .. N : y = g.nodes[d] /\ d < m /\ ~ViewOp(g, y) /\ y \in OpNodes(g)
  <2>1. PICK d \in 1 .. N : y = g.nodes[d] /\ d < m /\ ~ViewOp(g, y) /\ y \in OpNodes(g)
    BY <1>8
  <2>2. PICK k1 \in 1 .. Len(p.splits) : d \in SplitOps(g, p, k1)
    BY <2>1, Zenon DEF Follows
  <2>3. /\ p.splits[k1].backend_id = p.ids[y]
        /\ Operation(g, p, y).to = PlaceOf(g, p, y)
    BY <1>0, <2>1, <2>2
  <2>4. k1 <= k
    <3>1. d <= m
      BY <1>1, <2>1
    <3> QED BY <1>4, <2>2, <3>1 DEF Follows
  <2>5. k1 # k
    BY <1>6, <2>3
  <2>6. k1 \in Writers(p, k, 1, loc)
    <3>1. PICK j \in 1 .. Len(p.items[k1]) : p.items[k1][j] = Operation(g, p, y)
      <4>1. InOrder(g, p, k1)
        BY Zenon DEF Follows
      <4> QED BY <2>1, <2>2, <4>1 DEF InOrder
    <3>2. k1 \in 1 .. k
      BY <1>1, <2>4
    <3> QED BY <1>5, <2>3, <2>5, <3>1, <3>2 DEF Writers
  <2>7. ~g.t[x].input
    <3>1. g.t[x].view_src # None => ~g.t[x].input
      BY <1>3, Zenon DEF SoundGraph
    <3>2. ~g.t[y].input
      BY <2>1, Zenon DEF OrderedGraph
    <3>3. g.t[x].view_src = None => y = x
      BY DEF Base, y
    <3> QED BY <3>1, <3>2, <3>3
  <2>8. p.ids[y] \in Async => p.ids[y] = p.ids[x]
    BY <1>6, <2>1, Private
  <2>9. p.splits[k1].backend_id \in Async => p.splits[k1].backend_id = p.ids[x]
    BY <2>3, <2>8
  <2> QED BY <2>6, <2>7, <2>9, Zenon DEF SoundInput, loc
<1> QED BY <1>3, <1>7, <1>8, Earlier DEF y

\* Each plan that the passes make of a graph in order has it.
LEMMA PlanFlows ==
  ASSUME NEW g, SoundGraph(g), OrderedGraph(g), PrivateQueues(g), NEW asked \in Asked(g),
         NEW n, NEW c \in Nat, NEW p, IsPlan(g, p, Split(g, asked, n, c)), ~p.abort
  PROVE  SoundFlow(g, p)
<1>1. Passed(g, asked, n, c, p) /\ Follows(g, p)
  BY PlanPassed, PlanFollows
<1>2. p.node_backend_ids \in Seq(Backends)
  BY PlanIds
<1>3. ASSUME NEW x \in OpNodes(g)
      PROVE  \E k \in 1 .. Len(p.splits) : \E i \in 1 .. Len(p.items[k]) :
               p.items[k][i].to = PlaceOf(g, p, x)
  <2>1. PICK m \in 1 .. Len(g.nodes) : x = g.nodes[m] /\ ~ViewOp(g, x)
    BY GraphIs DEF OpNodes, Range
  <2>2. PICK k \in 1 .. Len(p.splits) : m \in SplitOps(g, p, k)
    BY <1>1, <2>1, Zenon DEF Follows
  <2>3. PICK i \in 1 .. Len(p.items[k]) : p.items[k][i] = Operation(g, p, x)
    <3>1. InOrder(g, p, k)
      BY <1>1, Zenon DEF Follows
    <3> QED BY <2>1, <2>2, <3>1 DEF InOrder
  <2>4. Operation(g, p, x).to = PlaceOf(g, p, x)
    BY <1>1, <2>1, <2>2, PassedOp, OperationIs DEF WritesReads
  <2> QED BY <2>3, <2>4
<1>4. ASSUME NEW k \in 1 .. Len(p.splits)
      PROVE  /\ p.splits[k].backend_id \in Backends
             /\ \A i \in 1 .. Len(p.items[k]) : SoundItem(g, p, k, i)
             /\ \A x \in Range(p.splits[k].inputs) : SoundInput(g, p, k, x)
  <2>1. p.splits[k].backend_id \in Backends
    BY <1>1, PassedSplits, PartIs
  <2> QED BY <1>1, <2>1, ItemFlows, InputFlows
<1> QED BY <1>2, <1>3, <1>4, Zenon DEF SoundFlow
=============================================================================
