----------------------------- MODULE RpcProofs -------------------------------
(* Proofs, checked by TLAPS, about Rpc for any number of processes, buffers, *)
(* addresses, sessions, kinds and pieces of data: a process never has two    *)
(* connections; the two ends of one agree on the buffers of their session;   *)
(* and Rpc implements RemoteMemory, as long as the server is not killed      *)
(* while it writes a file.                                                   *)
EXTENDS Rpc, FiniteSetTheorems, SequenceTheorems, WellFoundedInduction, TLAPS

-----------------------------------------------------------------------------
(* Connections.                                                              *)

\* The types that the connections of processes rest on.
ConnectionTypes ==
  /\ cpc \in [Procs -> {"idle", "hello", "wait", "dead"}]
  /\ DOMAIN using = Procs /\ DOMAIN sock = Procs
  /\ owner \in Seq(Procs) /\ cl \in Seq({"open", "closed"})
  /\ Len(cl) = Len(owner)

\* The only connection of a process that may be open: the one it makes, and
\* after HELLO the one that get_socket remembers.
TheOne(p) == IF cpc[p] = "hello" THEN using[p] ELSE sock[p]

\* What makes OneConnection inductive: get_socket never forgets a connection
\* that is open.
OpenIsRemembered ==
  \A s \in Sessions : cl[s] = "open" => cpc[owner[s]] # "dead" /\ s = TheOne(owner[s])

RInv == ConnectionTypes /\ OpenIsRemembered

LEMMA SessionsFact ==
  ASSUME ConnectionTypes
  PROVE  /\ Sessions = 1 .. Len(owner) /\ DOMAIN cl = Sessions
         /\ Cardinality(Sessions) = Len(owner) /\ Len(owner) \in Nat
         /\ \A s \in Sessions : owner[s] \in Procs /\ cl[s] \in {"open", "closed"}
<1>1. Sessions = 1 .. Len(owner) /\ DOMAIN cl = 1 .. Len(owner) /\ Len(owner) \in Nat
  BY DEF ConnectionTypes, Sessions
<1>2. Cardinality(1 .. Len(owner)) = Len(owner)
  <2> DEFINE n == Len(owner)
  <2>1. n \in Nat
    BY <1>1
  <2> HIDE DEF n
  <2>2. Cardinality(1 .. n) = IF 1 > n THEN 0 ELSE n - 1 + 1
    BY <2>1, FS_Interval
  <2>3. Cardinality(1 .. n) = n
    BY <2>1, <2>2
  <2> QED BY <2>3 DEF n
<1>3. \A s \in 1 .. Len(owner) : owner[s] \in Procs /\ cl[s] \in {"open", "closed"}
  BY DEF ConnectionTypes
<1> QED BY <1>1, <1>2, <1>3

LEMMA InitRInv == Init => RInv
<1> SUFFICES ASSUME Init PROVE RInv
  OBVIOUS
<1>1. cpc = [p \in Procs |-> "idle"] /\ DOMAIN using = Procs /\ DOMAIN sock = Procs
      /\ owner = <<>> /\ cl = <<>>
  BY DEF Init
<1>2. owner \in Seq(Procs) /\ cl \in Seq({"open", "closed"}) /\ Len(cl) = Len(owner) /\ Sessions = {}
  BY <1>1 DEF Sessions
<1> QED BY <1>1, <1>2 DEF RInv, ConnectionTypes, OpenIsRemembered

\* The server's steps leave the processes and the clients' ends alone.
LEMMA ServerLeavesClients ==
  ServerStep \/ Kill \/ Restart => UNCHANGED <<cpc, using, sock, owner, cl>>
<1> USE DEF procVars, sessVars
<1>1. ASSUME NEW m, Answer(m) PROVE UNCHANGED <<cpc, using, sock, owner, cl>>
  BY <1>1 DEF Answer
<1>2. CASE ServeHello \/ ServeQuery \/ ServeAlloc \/ ServeFree \/ ServeClear \/ ServeSet
           \/ SetSaved \/ ServeHit \/ ServeMiss \/ ServeGet \/ ServeCopy \/ ServeGraph
  BY <1>1, <1>2 DEF ServeHello, ServeQuery, ServeAlloc, ServeFree, ServeClear, ServeSet,
     SetSaved, ServeHit, ServeMiss, ServeGet, ServeCopy, ServeGraph
<1>3. CASE Accept \/ OpenFile \/ SavePiece \/ EndSession \/ BrokenPipe \/ Kill \/ Restart
  BY <1>3 DEF Accept, OpenFile, SavePiece, EndSession, BrokenPipe, Kill, Down, Restart
<1> QED BY <1>2, <1>3 DEF ServerStep

\* A call that begins on the connection there is.
LEMMA SendRequestStep ==
  ASSUME RInv, NEW p \in Procs, SendRequest(p)
  PROVE  RInv'
<1>1. PICK c \in Calls :
        LET s == IF c.op \in ViaEndpoint THEN sock[p] ELSE ctx[p][c.i].sess
        IN  cpc[p] = "idle" /\ Begin(p, c, s, "wait") /\ UNCHANGED <<owner, cl>>
  BY DEF SendRequest, sessVars
<1>2. /\ cpc[p] = "idle" /\ cpc' = [cpc EXCEPT ![p] = "wait"] /\ UNCHANGED <<sock, owner, cl>>
      /\ DOMAIN using' = DOMAIN using /\ \A q \in Procs \ {p} : using'[q] = using[q]
  BY <1>1 DEF Begin, RInv, ConnectionTypes
<1>3. ConnectionTypes'
  BY <1>2 DEF RInv, ConnectionTypes
<1>4. OpenIsRemembered'
  BY <1>2, SessionsFact DEF RInv, ConnectionTypes, OpenIsRemembered, TheOne, Sessions
<1> QED BY <1>3, <1>4 DEF RInv

\* The other steps of a process in terms of the connections.
LEMMA ReturnStep ==
  ASSUME RInv, NEW p \in Procs, cpc[p] = "wait", NEW newCtx, Return(p, newCtx)
  PROVE  RInv'
<1> USE DEF RInv, ConnectionTypes
<1>1. /\ cpc' = [cpc EXCEPT ![p] = "idle"] /\ using' = [using EXCEPT ![p] = 0]
      /\ UNCHANGED <<sock, owner>>
      /\ cl' = cl \/ cl' = [cl EXCEPT ![using[p]] = "closed"]
  BY DEF Return
<1>2. /\ cl' \in Seq({"open", "closed"}) /\ Len(cl') = Len(cl)
      /\ \A s \in Sessions : cl'[s] = "open" => cl[s] = "open"
  BY <1>1, SessionsFact
<1>3. ConnectionTypes'
  BY <1>1, <1>2
<1>4. OpenIsRemembered'
  BY <1>1, <1>2, SessionsFact DEF OpenIsRemembered, TheOne, Sessions
<1> QED BY <1>3, <1>4

LEMMA EndStep ==
  ASSUME RInv, NEW p \in Procs, End(p)
  PROVE  RInv'
<1> USE DEF RInv, ConnectionTypes
<1>1. /\ cpc' = [cpc EXCEPT ![p] = "dead"] /\ using' = [using EXCEPT ![p] = 0]
      /\ sock' = [sock EXCEPT ![p] = 0] /\ owner' = owner
      /\ cl' = [s \in 1 .. Len(owner) |-> IF owner[s] = p THEN "closed" ELSE cl[s]]
  BY SessionsFact DEF End
<1>2. cl' \in Seq({"open", "closed"}) /\ Len(cl') = Len(owner)
  BY <1>1, SessionsFact
<1>3. ConnectionTypes'
  BY <1>1, <1>2
<1>4. OpenIsRemembered'
  BY <1>1, SessionsFact DEF OpenIsRemembered, TheOne, Sessions
<1> QED BY <1>3, <1>4

\* get_socket finds nothing alive, so that no connection of the process is open.
LEMMA ConnectStep ==
  ASSUME RInv, NEW p \in Procs, Connect(p)
  PROVE  RInv'
<1> USE DEF RInv, ConnectionTypes
<1> DEFINE n == Len(owner) + 1
<1>1. /\ cpc[p] = "idle" /\ cpc' = [cpc EXCEPT ![p] = "hello"] /\ sock' = sock
      /\ using' = [using EXCEPT ![p] = n]
      /\ owner' = Append(owner, p) /\ cl' = Append(cl, "open") /\ ~Alive(sock[p])
  BY SessionsFact DEF Connect, Begin
<1>2. ConnectionTypes'
  BY <1>1
<1>3. Sessions' = Sessions \cup {n} /\ n \notin Sessions /\ owner'[n] = p
      /\ \A s \in Sessions : owner'[s] = owner[s] /\ cl'[s] = cl[s]
  BY <1>1, SessionsFact DEF Sessions
<1>4. \A s \in Sessions : cl[s] = "open" => owner[s] # p
  BY <1>1, SessionsFact DEF OpenIsRemembered, TheOne, Alive
<1>5. OpenIsRemembered'
  BY <1>1, <1>3, <1>4, SessionsFact DEF OpenIsRemembered, TheOne
<1> QED BY <1>2, <1>5

LEMMA ReceiveHelloStep ==
  ASSUME RInv, NEW p \in Procs, ReceiveHello(p)
  PROVE  RInv'
<1>1. /\ cpc[p] = "hello" /\ cpc' = [cpc EXCEPT ![p] = "wait"]
      /\ sock' = [sock EXCEPT ![p] = using[p]] /\ UNCHANGED <<using, owner, cl>>
  BY DEF ReceiveHello, sessVars
<1> QED BY <1>1, SessionsFact DEF RInv, ConnectionTypes, OpenIsRemembered, TheOne, Sessions

LEMMA RInvStep == RInv /\ [Next]_vars => RInv'
<1> SUFFICES ASSUME RInv, [Next]_vars PROVE RInv'
  OBVIOUS
<1>1. CASE UNCHANGED <<cpc, using, sock, owner, cl>>
  BY <1>1 DEF RInv, ConnectionTypes, OpenIsRemembered, TheOne, Sessions
<1>2. CASE ServerStep \/ Kill \/ Restart \/ UNCHANGED vars
  BY <1>1, <1>2, ServerLeavesClients DEF vars, procVars, sessVars
<1>3. ASSUME NEW p \in Procs, SendRequest(p) \/ Connect(p)
      PROVE  RInv'
  BY <1>3, SendRequestStep, ConnectStep
<1>4. ASSUME NEW p \in Procs, ClientStep(p)
      PROVE  RInv'
  <2>1. CASE ReceiveHello(p)
    BY <2>1, ReceiveHelloStep
  <2>2. CASE ReceiveMiss(p)
    BY <1>1, <2>2 DEF ReceiveMiss, procVars, sessVars
  <2>3. CASE Abort(p)
    BY <2>3, EndStep DEF Abort
  <2>4. CASE \/ ReceiveDone(p) \/ ReceiveAlloc(p) \/ ReceiveFree(p)
             \/ ReceiveHit(p) \/ ReturnFailed(p)
    BY <2>4, ReturnStep DEF ReceiveDone, ReceiveAlloc, ReceiveFree, ReceiveHit,
       ReturnFailed, Received
  <2> QED BY <1>4, <2>1, <2>2, <2>3, <2>4 DEF ClientStep
<1>5. ASSUME NEW p \in Procs, ConnectRefused(p) \/ Die(p)
      PROVE  RInv'
  BY <1>5, EndStep DEF ConnectRefused, Die
<1> QED BY <1>2, <1>3, <1>4, <1>5 DEF Next

\* get_socket (ggml-rpc.cpp:448-487) never makes a second connection while the
\* first is open, however many buffers come and go, servers die and calls fail.
THEOREM ConnectionsUnique == Spec => []OneConnection
<1>1. RInv => OneConnection
  BY DEF RInv, OpenIsRemembered, OneConnection
<1> QED BY InitRInv, RInvStep, <1>1, PTL DEF Spec

-----------------------------------------------------------------------------
(* Buffers.  A process that is not in a call knows of the server's buffers;  *)
(* one whose alloc or free has been answered is one buffer behind.  That it  *)
(* is never further behind rests on the protocol: on the session that is     *)
(* served there is one request, or one response, or none, and it is of the   *)
(* call the process is in.                                                   *)

Ops  == {"none", "hello", "query", "alloc", "free", "clear", "get", "set", "hash",
         "copy", "graph"}
Reqs == {r \in [op : Ops, a : Addrs \cup {0}, b : Addrs \cup {0}, v : Values] :
           r.op = "hash" => r.v \in Big}
Rsps == [op : Ops, n : Nat, data : [Pieces -> Values] \cup {Nothing}]

\* The files of the server, by the hash of what was saved in them.
Files == [Hashes -> [data : Values, len : {Absent} \cup 0 .. NumPieces]]

WireTypes ==
  /\ req \in [Sessions -> Reqs] /\ rsp \in [Sessions -> Rsps]
  /\ \A s \in Sessions : rsp[s].op = "alloc" => rsp[s].n \in Addrs \cup {0}

Waiting(p) == cpc[p] \in {"hello", "wait"}

\* A process has the connections of its buffers and of its call.
InCall ==
  \A p \in Procs :
    /\ sock[p] # 0 => owner[sock[p]] = p
    /\ Waiting(p) => /\ using[p] \in Sessions /\ owner[using[p]] = p
                     /\ cl[using[p]] = "open" /\ call[p] \in Calls /\ Ready(p, call[p])
    /\ ~Waiting(p) => call[p] = NoCall
    /\ cpc[p] = "hello" => \A i \in Slots : ctx[p][i] = NoCtx
    /\ \A i \in Slots : ctx[p][i] # NoCtx =>
         owner[ctx[p][i].sess] = p /\ cl[ctx[p][i].sess] = "open"

\* The server has not taken notice of HELLO yet.
New(s) == sv[s] = "queued" \/ (s = cur /\ spc = "hello")

Serving ==
  /\ spc \in {"accept", "down"} => cur = 0 /\ buffers = {}
  /\ spc \notin {"accept", "down"} => cur \in Sessions /\ sv[cur] = "served"
  /\ \A s \in Sessions : sv[s] = "served" => s = cur
  /\ \A s \in Sessions : New(s) => /\ req[s] = Req("hello", 0, 0, 0) /\ rsp[s] = NoRsp
                                   /\ cl[s] = "open" => cpc[owner[s]] = "hello"
  /\ spc = "hello" => buffers = {}
  /\ spc = "saving" => req[cur].op = "set"

\* A response is of the call its process is in.
Responses ==
  \A s \in Sessions : cl[s] = "open" /\ rsp[s] # NoRsp =>
    LET p == owner[s]
    IN  /\ Waiting(p)
        /\ cpc[p] = "hello" => rsp[s].op = "hello"
        /\ cpc[p] = "wait" => \/ rsp[s].op = call[p].op
                              \/ rsp[s].op = "hash" /\ call[p].op = "set"

\* So is a request, on the session that is served.
Requests ==
  cur # 0 /\ cl[cur] = "open" =>
    LET p == owner[cur]
    IN  /\ req[cur] # NoReq => rsp[cur] = NoRsp /\ Waiting(p)
        /\ cpc[p] = "hello" => req[cur].op \in {"none", "hello"}
        /\ cpc[p] = "wait" =>
             \/ req[cur] = NoReq \/ req[cur] = Request(p, call[p])
             \/ /\ call[p].op = "set"
                /\ req[cur] = Req("set", ctx[p][call[p].i].ptr, 0, call[p].v)

\* The process and the server agree on the buffers up to the response that is
\* on its way.
Agree ==
  cur # 0 /\ cl[cur] = "open" =>
    LET p == owner[cur]
        r == rsp[cur]
    IN  /\ \A i, j \in Slots : ctx[p][i].sess = cur /\ ctx[p][i] = ctx[p][j] => i = j
        /\ r.op \notin {"alloc", "free"} => buffers = Pointers(p)
        /\ r.op = "alloc" => \/ r.n = 0 /\ buffers = Pointers(p)
                             \/ r.n \notin Pointers(p) /\ buffers = Pointers(p) \cup {r.n}
        /\ r.op = "free" => buffers = Pointers(p) \ {ctx[p][call[p].i].ptr}

BInv == TypeOK /\ WireTypes /\ InCall /\ Serving /\ Responses /\ Requests /\ Agree

-----------------------------------------------------------------------------
(* Calls, requests and the sessions they use.                                *)

LEMMA SessionSet ==
  ASSUME TypeOK
  PROVE  /\ Len(owner) \in Nat /\ Sessions = 1 .. Len(owner) /\ 0 \notin Sessions
         /\ \A s \in Sessions : owner[s] \in Procs /\ s \in Nat \ {0}
         /\ Sessions' = 1 .. Len(owner)' <=> DOMAIN owner' = 1 .. Len(owner')
<1>1. Len(owner) \in Nat /\ DOMAIN owner = 1 .. Len(owner)
      /\ \A s \in 1 .. Len(owner) : owner[s] \in Procs
  BY LenProperties, ElementOfSeq DEF TypeOK
<1> QED BY <1>1 DEF Sessions

LEMMA CallFacts ==
  ASSUME NEW c \in Calls
  PROVE  /\ c.op \in {"query", "alloc", "free", "clear", "get", "set", "copy", "graph"}
         /\ c.v \in Values
         /\ c.op # "query" => c.i \in Slots
         /\ c.op \in {"copy", "graph"} => c.j \in Slots
         /\ c # NoCall
<1>1. 0 \in Values
  BY RpcAssumption DEF Values
<1>2. CASE c = Call("query", 0, 0, 0)
  BY <1>1, <1>2 DEF Call, NoCall
<1>3. CASE \E op \in {"alloc", "free", "clear", "get"}, i \in Slots : c = Call(op, i, 0, 0)
  BY <1>1, <1>3 DEF Call, NoCall
<1>4. CASE \E i \in Slots, v \in Values : c = Call("set", i, 0, v)
  BY <1>4 DEF Call, NoCall
<1>5. CASE \E op \in {"copy", "graph"}, i \in Slots, j \in Slots : c = Call(op, i, j, 0)
  BY <1>1, <1>5 DEF Call, NoCall
<1> QED BY <1>2, <1>3, <1>4, <1>5 DEF Calls

LEMMA CtxFacts ==
  ASSUME TypeOK, NEW p \in Procs, NEW i \in Slots
  PROVE  /\ ctx[p][i] # NoCtx => /\ ctx[p][i].sess \in Sessions /\ ctx[p][i].sess # 0
                                 /\ ctx[p][i].ptr \in Addrs
         /\ ctx[p][i] = NoCtx => ctx[p][i].sess = 0 /\ ctx[p][i].ptr = 0
         /\ ctx[p][i].ptr \in Addrs \cup {0}
<1>1. ctx[p][i] \in [sess : Sessions, ptr : Addrs] \cup {NoCtx}
  BY DEF TypeOK
<1> QED BY <1>1, SessionSet DEF NoCtx

LEMMA RequestType ==
  ASSUME TypeOK, NEW p \in Procs, NEW c \in Calls
  PROVE  /\ Request(p, c) \in Reqs /\ Request(p, c) # NoReq
         /\ Request(p, c).op = c.op \/ (Request(p, c).op = "hash" /\ c.op = "set")
         /\ c.i \in Slots => Request(p, c).a = ctx[p][c.i].ptr
         /\ c.j \in Slots => Request(p, c).b = ctx[p][c.j].ptr
         /\ Request(p, c).v = c.v
<1> DEFINE a == IF c.i \in Slots THEN ctx[p][c.i].ptr ELSE 0
           b == IF c.j \in Slots THEN ctx[p][c.j].ptr ELSE 0
           op == IF c.op = "set" /\ c.v \in Big THEN "hash" ELSE c.op
<1>1. a \in Addrs \cup {0} /\ b \in Addrs \cup {0}
  BY CtxFacts
<1>2. /\ op \in Ops \ {"none"} /\ c.v \in Values /\ (op = c.op \/ (op = "hash" /\ c.op = "set"))
      /\ op = "hash" => c.v \in Big
  BY CallFacts DEF Ops
<1>3. Request(p, c) = Req(op, a, b, c.v)
  BY DEF Request
<1> HIDE DEF a, b, op
<1>4. /\ Request(p, c) \in Reqs /\ Request(p, c) # NoReq
      /\ Request(p, c).op = op /\ Request(p, c).a = a /\ Request(p, c).b = b
      /\ Request(p, c).v = c.v
  BY <1>1, <1>2, <1>3 DEF Req, Reqs, NoReq
<1> QED BY <1>2, <1>4 DEF a, b

LEMMA Constants ==
  /\ NoReq \in Reqs /\ NoRsp \in Rsps /\ NoReq.op = "none" /\ NoRsp.op = "none"
  /\ 0 \in Values
  /\ \A op \in Ops \ {"hash"} : \A v \in Values, a \in Addrs \cup {0}, b \in Addrs \cup {0} :
       Req(op, a, b, v) \in Reqs /\ Req(op, a, b, v).op = op
  /\ \A op \in Ops : \A n \in Nat, d \in [Pieces -> Values] \cup {Nothing} :
       Rsp(op, n, d) \in Rsps /\ Rsp(op, n, d).op = op /\ Rsp(op, n, d).n = n
<1>1. 0 \in Values
  BY RpcAssumption DEF Values
<1> QED BY <1>1 DEF NoReq, NoRsp, Req, Rsp, Reqs, Rsps, Ops, Nothing

\* A process in a call uses the only connection it has.
LEMMA TheSession ==
  ASSUME RInv, TypeOK, InCall, NEW s \in Sessions, cl[s] = "open"
  PROVE  /\ owner[s] \in Procs
         /\ Waiting(owner[s]) => using[owner[s]] = s
         /\ \A i \in Slots : ctx[owner[s]][i] # NoCtx => ctx[owner[s]][i].sess = s
<1>1. owner[s] \in Procs
  BY SessionSet
<1>2. \A t \in Sessions : cl[t] = "open" /\ owner[t] = owner[s] => t = s
  BY DEF RInv, OpenIsRemembered
<1>3. Waiting(owner[s]) => using[owner[s]] = s
  BY <1>1, <1>2 DEF InCall
<1>4. ASSUME NEW i \in Slots, ctx[owner[s]][i] # NoCtx
      PROVE  ctx[owner[s]][i].sess = s
  BY <1>1, <1>2, <1>4, CtxFacts DEF InCall
<1> QED BY <1>1, <1>3, <1>4

LEMMA Grow ==
  ASSUME NEW S, NEW f \in Seq(S), NEW x \in S
  PROVE  /\ Append(f, x) \in [1 .. Len(f) + 1 -> S] /\ Append(f, x)[Len(f) + 1] = x
         /\ \A i \in 1 .. Len(f) : Append(f, x)[i] = f[i]
<1>1. /\ Append(f, x) \in Seq(S) /\ Len(Append(f, x)) = Len(f) + 1
      /\ \A i \in 1 .. Len(f) : Append(f, x)[i] = f[i]
      /\ Append(f, x)[Len(f) + 1] = x
  BY AppendProperties
<1>2. Append(f, x) \in [1 .. Len(Append(f, x)) -> S]
  BY <1>1, LenProperties
<1> QED BY <1>1, <1>2

LEMMA AsSeq ==
  ASSUME NEW S, NEW n \in Nat, NEW f \in [1 .. n -> S]
  PROVE  f \in Seq(S) /\ Len(f) = n
BY SeqDef, LenProperties

\* What a step does not touch of the session that is served stays as it was.
LEMMA Untouched ==
  ASSUME Requests, Agree, TypeOK, cur' = cur, mem' = mem,
         cur # 0 /\ cl'[cur] = "open" =>
           /\ cl[cur] = "open"
           /\ owner'[cur] = owner[cur] /\ req'[cur] = req[cur] /\ rsp'[cur] = rsp[cur]
           /\ LET p == owner[cur]
              IN  cpc'[p] = cpc[p] /\ call'[p] = call[p] /\ ctx'[p] = ctx[p]
  PROVE  Requests' /\ Agree'
<1> SUFFICES ASSUME cur # 0, cl'[cur] = "open"
             PROVE  Requests' /\ Agree'
  BY DEF Requests, Agree
<1>1. cl[cur] = "open"
  OBVIOUS
<1>2. Requests'
  BY <1>1 DEF Requests, Waiting, Request
<1>3. Agree'
  <2>1. Pointers(owner[cur])' = Pointers(owner[cur])
    BY DEF Pointers
  <2>2. buffers' = buffers
    BY DEF buffers
  <2> QED BY <1>1, <2>1, <2>2 DEF Agree
<1> QED BY <1>2, <1>3

LEMMA InitBInv == Init => BInv
<1> SUFFICES ASSUME Init PROVE BInv
  OBVIOUS
<1>1. /\ cpc = [p \in Procs |-> "idle"] /\ call = [p \in Procs |-> NoCall]
      /\ using = [p \in Procs |-> 0] /\ sock = [p \in Procs |-> 0]
      /\ ctx = [p \in Procs |-> [i \in Slots |-> NoCtx]]
      /\ owner = <<>> /\ cl = <<>> /\ sv = <<>> /\ req = <<>> /\ rsp = <<>>
      /\ spc = "accept" /\ cur = 0 /\ mem = <<>> /\ caching \in BOOLEAN
      /\ cached = [h \in Hashes |-> [data |-> 0, len |-> Absent]]
  BY DEF Init
<1>2. Sessions = {} /\ buffers = {}
  BY <1>1 DEF Sessions, buffers
<1>3. TypeOK
  <2>1. owner \in Seq(Procs)
    BY <1>1
  <2>2. cl \in [Sessions -> {"open", "closed"}] /\ sv \in [Sessions -> {"queued", "served", "closed"}]
        /\ DOMAIN req = Sessions /\ DOMAIN rsp = Sessions
        /\ mem \in [buffers -> [Pieces -> Values]]
    BY <1>1, <1>2
  <2>3. cached \in [Hashes -> [data : Values, len : {Absent} \cup 0 .. NumPieces]]
    BY <1>1, Constants
  <2> QED BY <1>1, <1>2, <2>1, <2>2, <2>3 DEF TypeOK
<1>4. WireTypes
  BY <1>1, <1>2 DEF WireTypes
<1>5. InCall
  BY <1>1 DEF InCall, Waiting
<1>6. Serving
  BY <1>1, <1>2 DEF Serving
<1>7. Responses /\ Requests /\ Agree
  BY <1>1, <1>2 DEF Responses, Requests, Agree
<1> QED BY <1>3, <1>4, <1>5, <1>6, <1>7 DEF BInv

-----------------------------------------------------------------------------
(* The steps of the processes.                                               *)

LEMMA SendRequestKeeps ==
  ASSUME RInv, BInv, NEW p \in Procs, SendRequest(p)
  PROVE  BInv'
<1>1. /\ TypeOK /\ WireTypes /\ InCall /\ Serving /\ Responses /\ Requests /\ Agree
  BY DEF BInv
<1>2. PICK c \in Calls :
        LET s == IF c.op \in ViaEndpoint THEN sock[p] ELSE ctx[p][c.i].sess
        IN  /\ cpc[p] = "idle" /\ Ready(p, c)
            /\ c.op \in ViaEndpoint => Alive(sock[p])
            /\ Begin(p, c, s, "wait")
            /\ req' = [req EXCEPT ![s] = Request(p, c)]
            /\ UNCHANGED <<sessVars, rsp, servVars, cached>>
  BY DEF SendRequest
<1> DEFINE s == IF c.op \in ViaEndpoint THEN sock[p] ELSE ctx[p][c.i].sess
<1>3. s \in Sessions /\ cl[s] = "open" /\ owner[s] = p
  <2>1. CASE c.op \in ViaEndpoint
    <3>1. sock[p] # 0 /\ cl[sock[p]] = "open" /\ sock[p] \in Sessions
      BY <1>1, <1>2, <2>1 DEF Alive, TypeOK
    <3> QED BY <1>1, <2>1, <3>1 DEF InCall
  <2>2. CASE c.op \notin ViaEndpoint
    <3>1. c.i \in Slots /\ ctx[p][c.i] # NoCtx
      BY <1>2, <2>2, CallFacts DEF Ready, ViaEndpoint
    <3> QED BY <1>1, <2>2, <3>1, CtxFacts DEF InCall
  <2> QED BY <2>1, <2>2
<1>4. /\ cpc[p] = "idle" /\ Ready(p, c)
      /\ cpc' = [cpc EXCEPT ![p] = "wait"] /\ call' = [call EXCEPT ![p] = c]
      /\ using' = [using EXCEPT ![p] = s] /\ sock' = sock /\ ctx' = ctx
      /\ req' = [req EXCEPT ![s] = Request(p, c)]
      /\ owner' = owner /\ cl' = cl /\ sv' = sv /\ rsp' = rsp
      /\ spc' = spc /\ cur' = cur /\ mem' = mem /\ caching' = caching /\ cached' = cached
  BY <1>2 DEF Begin, sessVars, servVars
<1> HIDE DEF s
<1>5. Request(p, c) \in Reqs /\ Request(p, c) # NoReq
  BY <1>1, RequestType
<1>6. Sessions' = Sessions /\ buffers' = buffers
  BY <1>4 DEF Sessions, buffers
<1>7. TypeOK'
  BY <1>1, <1>3, <1>4, <1>6 DEF TypeOK
<1>8. WireTypes'
  BY <1>1, <1>4, <1>5, <1>6 DEF WireTypes
<1>9. InCall'
  <2>1. Ready(p, c)'
    BY <1>4 DEF Ready
  <2>2. \A q \in Procs : Ready(q, call[q]) => Ready(q, call[q])'  \/ q = p
    BY <1>1, <1>4 DEF Ready, TypeOK
  <2>3. /\ cpc'[p] = "wait" /\ using'[p] = s /\ call'[p] = c
        /\ \A q \in Procs \ {p} : cpc'[q] = cpc[q] /\ using'[q] = using[q] /\ call'[q] = call[q]
    BY <1>1, <1>4 DEF TypeOK
  <2> SUFFICES ASSUME NEW q \in Procs
               PROVE  /\ sock'[q] # 0 => owner'[sock'[q]] = q
                      /\ Waiting(q)' => /\ using'[q] \in Sessions' /\ owner'[using'[q]] = q
                                        /\ cl'[using'[q]] = "open" /\ call'[q] \in Calls
                                        /\ Ready(q, call[q])'
                      /\ ~Waiting(q)' => call'[q] = NoCall
                      /\ cpc'[q] = "hello" => \A i \in Slots : ctx'[q][i] = NoCtx
                      /\ \A i \in Slots : ctx'[q][i] # NoCtx =>
                           owner'[ctx'[q][i].sess] = q /\ cl'[ctx'[q][i].sess] = "open"
    BY DEF InCall
  <2>4. CASE q = p
    BY <1>1, <1>3, <1>4, <1>6, <2>1, <2>3, <2>4 DEF InCall, Waiting
  <2>5. CASE q # p
    BY <1>1, <1>4, <1>6, <2>2, <2>3, <2>5 DEF InCall, Waiting
  <2> QED BY <2>4, <2>5
<1>10. ~New(s)
  BY <1>1, <1>3, <1>4 DEF Serving
<1>11. Serving'
  <2>1. \A t \in Sessions : New(t)' <=> New(t)
    BY <1>4 DEF New
  <2>2. \A t \in Sessions : New(t) => req'[t] = req[t] /\ rsp'[t] = rsp[t]
    BY <1>1, <1>4, <1>10 DEF TypeOK
  <2>3. \A t \in Sessions : cpc'[owner[t]] = "hello" \/ cpc[owner[t]] # "hello"
    BY <1>1, <1>4, SessionSet DEF TypeOK
  <2>4. spc = "saving" => req'[cur].op = "set"
    <3> SUFFICES ASSUME spc = "saving" PROVE req'[cur].op = "set"
      OBVIOUS
    <3>1. cur \in Sessions /\ req[cur].op = "set"
      BY <1>1 DEF Serving
    <3>2. cur # s
      <4>1. cur # 0 /\ req[cur] # NoReq
        BY <1>1, <3>1, SessionSet, Constants
      <4> QED BY <1>1, <1>3, <1>4, <4>1 DEF Requests, Waiting
    <3> QED BY <1>1, <1>4, <3>1, <3>2 DEF TypeOK
  <2> QED BY <1>1, <1>4, <1>6, <2>1, <2>2, <2>3, <2>4 DEF Serving
<1>12. rsp[s] = NoRsp
  BY <1>1, <1>3, <1>4 DEF Responses, Waiting
<1>13. Responses'
  <2> SUFFICES ASSUME NEW t \in Sessions, cl[t] = "open", rsp[t] # NoRsp
               PROVE  /\ Waiting(owner[t])'
                      /\ cpc'[owner[t]] = "hello" => rsp[t].op = "hello"
                      /\ cpc'[owner[t]] = "wait" =>
                           \/ rsp[t].op = call'[owner[t]].op
                           \/ rsp[t].op = "hash" /\ call'[owner[t]].op = "set"
    BY <1>4, <1>6 DEF Responses
  <2>1. owner[t] # p
    BY <1>1, <1>3, <1>4, <1>12 DEF Responses, Waiting
  <2> QED BY <1>1, <1>4, <2>1, SessionSet DEF Responses, Waiting, TypeOK
<1>14. CASE cur = s
  <2>1. /\ cur # 0 /\ cl[cur] = "open" /\ owner[cur] = p
        /\ cpc'[p] = "wait" /\ call'[p] = c /\ req'[cur] = Request(p, c) /\ rsp[cur] = NoRsp
    BY <1>1, <1>3, <1>4, <1>12, <1>14, SessionSet DEF TypeOK
  <2>2. Request(p, call[p])' = Request(p, c)
    BY <1>4, <2>1 DEF Request
  <2>3. Requests'
    BY <1>4, <2>1, <2>2 DEF Requests, Waiting
  <2>4. Agree'
    <3>1. Pointers(owner[cur])' = Pointers(owner[cur])
      BY <1>4 DEF Pointers
    <3> QED BY <1>1, <1>4, <1>6, <2>1, <3>1, Constants DEF Agree
  <2> QED BY <1>7, <1>8, <1>9, <1>11, <1>13, <2>3, <2>4 DEF BInv
<1>15. CASE cur # s
  <2>1. cur # 0 /\ cl[cur] = "open" => owner[cur] # p
    <3> SUFFICES ASSUME cur # 0, cl[cur] = "open" PROVE owner[cur] # p
      OBVIOUS
    <3>1. cur \in Sessions
      BY <1>1 DEF TypeOK
    <3> QED BY <1>3, <1>15, <3>1 DEF RInv, OpenIsRemembered
  <2>2. Requests' /\ Agree'
    BY <1>1, <1>4, <1>15, <2>1, Untouched DEF TypeOK
  <2> QED BY <1>7, <1>8, <1>9, <1>11, <1>13, <2>2 DEF BInv
<1> QED BY <1>14, <1>15

\* Calls that go on: HELLO has been answered, or the hash is not known.
LEMMA GoOn ==
  ASSUME RInv, BInv, NEW p \in Procs, NEW q \in Reqs,
         LET s == using[p]
         IN  /\ Waiting(p) /\ rsp[s] # NoRsp
             /\ cpc' = [cpc EXCEPT ![p] = "wait"]
             /\ sock' = sock \/ sock' = [sock EXCEPT ![p] = s]
             /\ req' = [req EXCEPT ![s] = q]
             /\ rsp' = [rsp EXCEPT ![s] = NoRsp]
             /\ UNCHANGED <<call, using, ctx, sessVars, servVars, cached>>
             /\ rsp[s].op \notin {"alloc", "free"}
             /\ \/ q = Request(p, call[p])
                \/ call[p].op = "set" /\ q = Req("set", ctx[p][call[p].i].ptr, 0, call[p].v)
  PROVE  BInv'
<1> DEFINE s == using[p]
<1>1. /\ TypeOK /\ WireTypes /\ InCall /\ Serving /\ Responses /\ Requests /\ Agree
  BY DEF BInv
<1>2. /\ cpc' = [cpc EXCEPT ![p] = "wait"] /\ req' = [req EXCEPT ![s] = q]
      /\ rsp' = [rsp EXCEPT ![s] = NoRsp] /\ rsp[s] # NoRsp
      /\ call' = call /\ using' = using /\ ctx' = ctx /\ owner' = owner /\ cl' = cl /\ sv' = sv
      /\ spc' = spc /\ cur' = cur /\ mem' = mem /\ caching' = caching /\ cached' = cached
      /\ sock' = sock \/ sock' = [sock EXCEPT ![p] = s]
  BY DEF sessVars, servVars
<1>3. s \in Sessions /\ cl[s] = "open" /\ owner[s] = p
  BY <1>1 DEF InCall
<1> HIDE DEF s
<1>4. Sessions' = Sessions /\ buffers' = buffers
  BY <1>2 DEF Sessions, buffers
<1>5. ~New(s)
  BY <1>1, <1>2, <1>3 DEF Serving
<1>6. TypeOK'
  <2>1. cpc' \in [Procs -> {"idle", "hello", "wait", "dead"}]
    BY <1>1, <1>2 DEF TypeOK
  <2>2. sock' \in [Procs -> Sessions' \cup {0}]
    BY <1>1, <1>2, <1>3, <1>4 DEF TypeOK
  <2>3. DOMAIN req' = Sessions' /\ DOMAIN rsp' = Sessions'
    BY <1>1, <1>2, <1>4 DEF TypeOK
  <2> QED BY <1>1, <1>2, <1>4, <2>1, <2>2, <2>3 DEF TypeOK
<1>7. WireTypes'
  BY <1>1, <1>2, <1>3, <1>4, Constants DEF WireTypes, TypeOK
<1>8. /\ cpc'[p] = "wait" /\ sock'[p] \in {sock[p], s}
      /\ \A r \in Procs \ {p} : cpc'[r] = cpc[r] /\ sock'[r] = sock[r]
  BY <1>1, <1>2 DEF TypeOK
<1>9. InCall'
  <2>1. \A r \in Procs : Ready(r, call[r])' <=> Ready(r, call[r])
    BY <1>2 DEF Ready
  <2> SUFFICES ASSUME NEW r \in Procs
               PROVE  /\ sock'[r] # 0 => owner'[sock'[r]] = r
                      /\ Waiting(r)' => /\ using'[r] \in Sessions' /\ owner'[using'[r]] = r
                                        /\ cl'[using'[r]] = "open" /\ call'[r] \in Calls
                                        /\ Ready(r, call[r])'
                      /\ ~Waiting(r)' => call'[r] = NoCall
                      /\ cpc'[r] = "hello" => \A i \in Slots : ctx'[r][i] = NoCtx
                      /\ \A i \in Slots : ctx'[r][i] # NoCtx =>
                           owner'[ctx'[r][i].sess] = r /\ cl'[ctx'[r][i].sess] = "open"
    BY DEF InCall
  <2>2. CASE r = p
    BY <1>1, <1>2, <1>3, <1>4, <1>8, <2>1, <2>2 DEF InCall, Waiting
  <2>3. CASE r # p
    BY <1>1, <1>2, <1>4, <1>8, <2>1, <2>3 DEF InCall, Waiting
  <2> QED BY <2>2, <2>3
<1>10. Serving'
  <2>1. \A t \in Sessions : New(t)' <=> New(t)
    BY <1>2 DEF New
  <2>2. \A t \in Sessions : New(t) => req'[t] = req[t] /\ rsp'[t] = rsp[t]
    BY <1>1, <1>2, <1>5 DEF TypeOK
  <2>3. \A t \in Sessions : New(t) /\ cl[t] = "open" => cpc'[owner[t]] = "hello"
    <3> SUFFICES ASSUME NEW t \in Sessions, New(t), cl[t] = "open"
                 PROVE  cpc'[owner[t]] = "hello"
      OBVIOUS
    <3>1. cpc[owner[t]] = "hello" /\ t # s
      BY <1>1, <1>5 DEF Serving
    <3>2. owner[t] # p
      BY <1>3, <3>1 DEF RInv, OpenIsRemembered
    <3> QED BY <1>8, <3>1, <3>2, SessionSet, <1>1
  <2>4. spc = "saving" => req'[cur].op = "set"
    <3> SUFFICES ASSUME spc = "saving" PROVE req'[cur].op = "set"
      OBVIOUS
    <3>1. cur \in Sessions /\ req[cur].op = "set"
      BY <1>1 DEF Serving
    <3>2. cur # s
      <4>1. cur # 0 /\ req[cur] # NoReq
        BY <1>1, <3>1, SessionSet, Constants
      <4> QED BY <1>1, <1>2, <1>3, <4>1 DEF Requests
    <3> QED BY <1>1, <1>2, <3>1, <3>2 DEF TypeOK
  <2> QED BY <1>1, <1>2, <1>4, <2>1, <2>2, <2>3, <2>4 DEF Serving
<1>11. Responses'
  <2> SUFFICES ASSUME NEW t \in Sessions, cl[t] = "open", rsp'[t] # NoRsp
               PROVE  /\ Waiting(owner[t])'
                      /\ cpc'[owner[t]] = "hello" => rsp'[t].op = "hello"
                      /\ cpc'[owner[t]] = "wait" =>
                           \/ rsp'[t].op = call'[owner[t]].op
                           \/ rsp'[t].op = "hash" /\ call'[owner[t]].op = "set"
    BY <1>2, <1>4 DEF Responses
  <2>1. t # s /\ rsp'[t] = rsp[t]
    BY <1>1, <1>2, <1>3 DEF TypeOK
  <2>2. owner[t] # p
    BY <1>3, <2>1 DEF RInv, OpenIsRemembered
  <2> QED BY <1>1, <1>2, <1>8, <2>1, <2>2, SessionSet DEF Responses, Waiting
<1>12. CASE cur = s
  <2>1. /\ cur # 0 /\ cl[cur] = "open" /\ owner[cur] = p
        /\ cpc'[p] = "wait" /\ call'[p] = call[p] /\ req'[cur] = q /\ rsp'[cur] = NoRsp
    BY <1>1, <1>2, <1>3, <1>12, SessionSet DEF TypeOK
  <2>2. Request(p, call[p])' = Request(p, call[p])
    BY <1>2 DEF Request
  <2>3. Requests'
    BY <1>2, <2>1, <2>2 DEF Requests, Waiting
  <2>4. Agree'
    <3>1. Pointers(owner[cur])' = Pointers(owner[cur])
      BY <1>2 DEF Pointers
    <3> QED BY <1>1, <1>2, <1>4, <1>12, <2>1, <3>1, Constants DEF Agree, s
  <2> QED BY <1>6, <1>7, <1>9, <1>10, <1>11, <2>3, <2>4 DEF BInv
<1>13. CASE cur # s
  <2>1. cur # 0 /\ cl[cur] = "open" => owner[cur] # p
    <3> SUFFICES ASSUME cur # 0, cl[cur] = "open" PROVE owner[cur] # p
      OBVIOUS
    <3>1. cur \in Sessions
      BY <1>1 DEF TypeOK
    <3> QED BY <1>3, <1>13, <3>1 DEF RInv, OpenIsRemembered
  <2>2. Requests' /\ Agree'
    BY <1>1, <1>2, <1>13, <2>1, Untouched DEF TypeOK
  <2> QED BY <1>6, <1>7, <1>9, <1>10, <1>11, <2>2 DEF BInv
<1> QED BY <1>12, <1>13

LEMMA ReceiveHelloKeeps ==
  ASSUME RInv, BInv, NEW p \in Procs, ReceiveHello(p)
  PROVE  BInv'
<1>1. TypeOK /\ InCall
  BY DEF BInv
<1>2. /\ cpc[p] = "hello" /\ rsp[using[p]].op = "hello"
      /\ cpc' = [cpc EXCEPT ![p] = "wait"] /\ sock' = [sock EXCEPT ![p] = using[p]]
      /\ req' = [req EXCEPT ![using[p]] = Request(p, call[p])]
      /\ rsp' = [rsp EXCEPT ![using[p]] = NoRsp]
      /\ UNCHANGED <<call, using, ctx, sessVars, servVars, cached>>
  BY DEF ReceiveHello
<1>3. Waiting(p) /\ call[p] \in Calls /\ rsp[using[p]] # NoRsp
  BY <1>1, <1>2, Constants DEF InCall, Waiting
<1>4. Request(p, call[p]) \in Reqs
  BY <1>1, <1>3, RequestType
<1> QED BY <1>2, <1>3, <1>4, GoOn

LEMMA ReceiveMissKeeps ==
  ASSUME RInv, BInv, NEW p \in Procs, ReceiveMiss(p)
  PROVE  BInv'
<1> DEFINE q == Req("set", ctx[p][call[p].i].ptr, 0, call[p].v)
<1>1. TypeOK /\ InCall /\ Responses
  BY DEF BInv
<1>2. /\ cpc[p] = "wait" /\ rsp[using[p]].op = "hash"
      /\ req' = [req EXCEPT ![using[p]] = q] /\ rsp' = [rsp EXCEPT ![using[p]] = NoRsp]
      /\ UNCHANGED <<cpc, call, using, sock, ctx, sessVars, servVars, cached>>
  BY DEF ReceiveMiss, Received, procVars
<1>3. /\ Waiting(p) /\ call[p] \in Calls /\ rsp[using[p]] # NoRsp /\ using[p] \in Sessions
      /\ cl[using[p]] = "open" /\ owner[using[p]] = p
  BY <1>1, <1>2, Constants DEF InCall, Waiting
<1>4. call[p].op = "set"
  <2>1. call[p].op # "hash"
    BY <1>3, CallFacts
  <2> QED BY <1>1, <1>2, <1>3, <2>1 DEF Responses
<1>5. q \in Reqs
  <2>1. call[p].i \in Slots /\ call[p].v \in Values
    BY <1>3, <1>4, CallFacts
  <2>2. ctx[p][call[p].i].ptr \in Addrs \cup {0}
    BY <1>1, <2>1, CtxFacts
  <2> QED BY <2>1, <2>2, Constants DEF Ops
<1>6. cpc' = [cpc EXCEPT ![p] = "wait"]
  BY <1>1, <1>2 DEF TypeOK
<1> HIDE DEF q
<1>7. /\ sock' = sock /\ rsp[using[p]].op \notin {"alloc", "free"}
      /\ UNCHANGED <<call, using, ctx, sessVars, servVars, cached>>
  BY <1>2
<1> QED BY <1>2, <1>3, <1>4, <1>5, <1>6, <1>7, GoOn DEF q

\* The call returns with newCtx as the buffers that the process has from now on.
Ctxs == [Slots -> [sess : Sessions, ptr : Addrs] \cup {NoCtx}]

LEMMA ReturnKeeps ==
  ASSUME RInv, BInv, NEW p \in Procs, cpc[p] = "wait", NEW newCtx \in Ctxs,
         Return(p, newCtx),
         \A i \in Slots : newCtx[i] # NoCtx => newCtx[i].sess = using[p],
         using[p] = cur =>
           /\ req[cur] = NoReq
           /\ \A i, j \in Slots : newCtx[i].sess = cur /\ newCtx[i] = newCtx[j] => i = j
           /\ buffers = {newCtx[i].ptr : i \in {k \in Slots : newCtx[k].sess = cur}}
  PROVE  BInv'
<1> DEFINE s == using[p]
<1>1. /\ TypeOK /\ WireTypes /\ InCall /\ Serving /\ Responses /\ Requests /\ Agree
  BY DEF BInv
<1>2. /\ cpc' = [cpc EXCEPT ![p] = "idle"] /\ call' = [call EXCEPT ![p] = NoCall]
      /\ using' = [using EXCEPT ![p] = 0] /\ ctx' = [ctx EXCEPT ![p] = newCtx]
      /\ cl' = IF \E i \in Slots : newCtx[i].sess = s THEN cl ELSE [cl EXCEPT ![s] = "closed"]
      /\ rsp' = [rsp EXCEPT ![s] = NoRsp]
      /\ sock' = sock /\ owner' = owner /\ sv' = sv /\ req' = req
      /\ spc' = spc /\ cur' = cur /\ mem' = mem /\ caching' = caching /\ cached' = cached
  BY DEF Return, servVars
<1>3. s \in Sessions /\ cl[s] = "open" /\ owner[s] = p /\ s # 0
  BY <1>1, SessionSet DEF InCall, Waiting
<1> HIDE DEF s
<1>4. Sessions' = Sessions /\ buffers' = buffers
  BY <1>2 DEF Sessions, buffers
<1>5. /\ cl' \in [Sessions -> {"open", "closed"}]
      /\ \A t \in Sessions : t # s => cl'[t] = cl[t]
      /\ \A t \in Sessions : cl'[t] = "open" => cl[t] = "open"
      /\ \A i \in Slots : newCtx[i] # NoCtx => cl'[s] = "open"
  BY <1>1, <1>2, <1>3 DEF TypeOK, s
<1>6. ~New(s)
  BY <1>1, <1>3 DEF Serving
<1>7. TypeOK'
  BY <1>1, <1>2, <1>3, <1>4, <1>5 DEF TypeOK, Ctxs
<1>8. WireTypes'
  BY <1>1, <1>2, <1>3, <1>4, Constants DEF WireTypes, TypeOK
<1>9. /\ cpc'[p] = "idle" /\ call'[p] = NoCall /\ ctx'[p] = newCtx
      /\ \A r \in Procs \ {p} : /\ cpc'[r] = cpc[r] /\ call'[r] = call[r]
                                /\ ctx'[r] = ctx[r] /\ using'[r] = using[r]
  BY <1>1, <1>2 DEF TypeOK
<1>10. InCall'
  <2> SUFFICES ASSUME NEW r \in Procs
               PROVE  /\ sock'[r] # 0 => owner'[sock'[r]] = r
                      /\ Waiting(r)' => /\ using'[r] \in Sessions' /\ owner'[using'[r]] = r
                                        /\ cl'[using'[r]] = "open" /\ call'[r] \in Calls
                                        /\ Ready(r, call[r])'
                      /\ ~Waiting(r)' => call'[r] = NoCall
                      /\ cpc'[r] = "hello" => \A i \in Slots : ctx'[r][i] = NoCtx
                      /\ \A i \in Slots : ctx'[r][i] # NoCtx =>
                           owner'[ctx'[r][i].sess] = r /\ cl'[ctx'[r][i].sess] = "open"
    BY DEF InCall
  <2>1. CASE r = p
    <3>1. \A i \in Slots : ctx'[r][i] # NoCtx => ctx'[r][i].sess = s /\ cl'[s] = "open"
      BY <1>5, <1>9, <2>1 DEF s
    <3> QED BY <1>1, <1>2, <1>3, <1>9, <2>1, <3>1 DEF InCall, Waiting
  <2>2. CASE r # p
    <3>1. Ready(r, call[r])' <=> Ready(r, call[r])
      BY <1>9, <2>2 DEF Ready
    <3>2. Waiting(r) => using[r] # s /\ using[r] \in Sessions
      BY <1>1, <1>3, <2>2 DEF InCall
    <3>3. \A i \in Slots : ctx[r][i] # NoCtx => ctx[r][i].sess # s /\ ctx[r][i].sess \in Sessions
      BY <1>1, <1>3, <2>2, CtxFacts DEF InCall
    <3> QED BY <1>1, <1>2, <1>4, <1>5, <1>9, <2>2, <3>1, <3>2, <3>3 DEF InCall, Waiting
  <2> QED BY <2>1, <2>2
<1>11. Serving'
  <2>1. \A t \in Sessions : New(t)' <=> New(t)
    BY <1>2 DEF New
  <2>2. \A t \in Sessions : New(t) => req'[t] = req[t] /\ rsp'[t] = rsp[t]
    BY <1>1, <1>2, <1>6 DEF TypeOK
  <2>3. \A t \in Sessions : New(t) /\ cl'[t] = "open" => cpc'[owner[t]] = "hello"
    BY <1>1, <1>5, <1>9, SessionSet DEF Serving
  <2> QED BY <1>1, <1>2, <1>4, <2>1, <2>2, <2>3 DEF Serving
<1>12. Responses'
  <2> SUFFICES ASSUME NEW t \in Sessions, cl'[t] = "open", rsp'[t] # NoRsp
               PROVE  /\ Waiting(owner[t])'
                      /\ cpc'[owner[t]] = "hello" => rsp'[t].op = "hello"
                      /\ cpc'[owner[t]] = "wait" =>
                           \/ rsp'[t].op = call'[owner[t]].op
                           \/ rsp'[t].op = "hash" /\ call'[owner[t]].op = "set"
    BY <1>2, <1>4 DEF Responses
  <2>1. t # s /\ rsp'[t] = rsp[t] /\ cl[t] = "open"
    BY <1>1, <1>2, <1>3, <1>5 DEF TypeOK
  <2>2. owner[t] # p
    BY <1>3, <2>1 DEF RInv, OpenIsRemembered
  <2> QED BY <1>1, <1>2, <1>9, <2>1, <2>2, SessionSet DEF Responses, Waiting
<1>13. CASE cur = s
  <2>1. /\ cur # 0 /\ cl[cur] = "open" /\ owner[cur] = p /\ req'[cur] = NoReq
        /\ rsp'[cur] = NoRsp /\ cur' = cur /\ owner'[cur'] = p
    BY <1>1, <1>2, <1>3, <1>13, SessionSet DEF TypeOK, s
  <2>2. Requests'
    BY <1>2, <2>1, Constants DEF Requests
  <2>3. Pointers(p)' = {newCtx[i].ptr : i \in {k \in Slots : newCtx[k].sess = cur}}
    BY <1>2, <1>9 DEF Pointers
  <2>4. Agree'
    <3>1. /\ \A i, j \in Slots : newCtx[i].sess = cur /\ newCtx[i] = newCtx[j] => i = j
          /\ buffers = {newCtx[i].ptr : i \in {k \in Slots : newCtx[k].sess = cur}}
      BY <1>13 DEF s
    <3>2. rsp'[cur'].op = "none"
      BY <2>1, Constants
    <3> QED BY <1>4, <1>9, <2>1, <2>3, <3>1, <3>2 DEF Agree
  <2> QED BY <1>7, <1>8, <1>10, <1>11, <1>12, <2>2, <2>4 DEF BInv
<1>14. CASE cur # s
  <2>1. cur # 0 /\ cl'[cur] = "open" => cl[cur] = "open" /\ owner[cur] # p
    <3> SUFFICES ASSUME cur # 0, cl'[cur] = "open" PROVE cl[cur] = "open" /\ owner[cur] # p
      OBVIOUS
    <3>1. cur \in Sessions
      BY <1>1 DEF TypeOK
    <3> QED BY <1>3, <1>5, <1>14, <3>1 DEF RInv, OpenIsRemembered
  <2>2. Requests' /\ Agree'
    <3>1. cur # 0 /\ cl'[cur] = "open" =>
           /\ cl[cur] = "open"
           /\ owner'[cur] = owner[cur] /\ req'[cur] = req[cur] /\ rsp'[cur] = rsp[cur]
           /\ cpc'[owner[cur]] = cpc[owner[cur]] /\ call'[owner[cur]] = call[owner[cur]]
           /\ ctx'[owner[cur]] = ctx[owner[cur]]
      BY <1>1, <1>2, <1>14, <2>1 DEF TypeOK
    <3> QED BY <1>1, <1>2, <3>1, Untouched
  <2> QED BY <1>7, <1>8, <1>10, <1>11, <1>12, <2>2 DEF BInv
<1> QED BY <1>13, <1>14

\* What a process knows that is in a call and has its response.
LEMMA Answers ==
  ASSUME RInv, BInv, NEW p \in Procs, cpc[p] = "wait"
  PROVE  /\ using[p] \in Sessions /\ cl[using[p]] = "open" /\ owner[using[p]] = p
         /\ call[p] \in Calls /\ Ready(p, call[p]) /\ ctx[p] \in Ctxs
         /\ \A i \in Slots : ctx[p][i] # NoCtx => ctx[p][i].sess = using[p]
         /\ \A i \in Slots : ctx[p][i].sess # 0 => ctx[p][i] # NoCtx
         /\ rsp[using[p]] # NoRsp =>
              \/ rsp[using[p]].op = call[p].op
              \/ rsp[using[p]].op = "hash" /\ call[p].op = "set"
         /\ using[p] = cur => cur # 0 /\ (rsp[cur] # NoRsp => req[cur] = NoReq)
<1>1. /\ TypeOK /\ WireTypes /\ InCall /\ Serving /\ Responses /\ Requests /\ Agree
      /\ Waiting(p)
  BY DEF BInv, Waiting
<1>2. /\ using[p] \in Sessions /\ cl[using[p]] = "open" /\ owner[using[p]] = p
      /\ call[p] \in Calls /\ Ready(p, call[p]) /\ ctx[p] \in Ctxs
  BY <1>1 DEF InCall, TypeOK, Ctxs
<1>3. \A i \in Slots : ctx[p][i] # NoCtx => ctx[p][i].sess = using[p]
  BY <1>1, <1>2, TheSession
<1>4. using[p] = cur => cur # 0 /\ (rsp[cur] # NoRsp => req[cur] = NoReq)
  BY <1>1, <1>2, SessionSet DEF Requests
<1>5. \A i \in Slots : ctx[p][i].sess # 0 => ctx[p][i] # NoCtx
  BY DEF NoCtx
<1> QED BY <1>1, <1>2, <1>3, <1>4, <1>5 DEF Responses

\* A call that leaves the buffers as they were.
LEMMA ReturnSameKeeps ==
  ASSUME RInv, BInv, NEW p \in Procs, cpc[p] = "wait", Return(p, ctx[p]),
         rsp[using[p]].op \notin {"alloc", "free"},
         using[p] = cur => rsp[cur] # NoRsp
  PROVE  BInv'
<1>1. /\ ctx[p] \in Ctxs /\ \A i \in Slots : ctx[p][i] # NoCtx => ctx[p][i].sess = using[p]
  BY Answers
<1>2. ASSUME using[p] = cur
      PROVE  /\ req[cur] = NoReq
             /\ \A i, j \in Slots : ctx[p][i].sess = cur /\ ctx[p][i] = ctx[p][j] => i = j
             /\ buffers = {ctx[p][i].ptr : i \in {k \in Slots : ctx[p][k].sess = cur}}
  BY <1>2, Answers DEF BInv, Agree, Pointers
<1> QED BY <1>1, <1>2, ReturnKeeps

LEMMA ReceiveAllocKeeps ==
  ASSUME RInv, BInv, NEW p \in Procs, ReceiveAlloc(p)
  PROVE  BInv'
<1> DEFINE s == using[p]
           i == call[p].i
           n == rsp[s].n
           c == IF n = 0 THEN NoCtx ELSE [sess |-> s, ptr |-> n]
           new == [ctx[p] EXCEPT ![i] = c]
<1>1. /\ cpc[p] = "wait" /\ rsp[s].op = "alloc" /\ Return(p, new)
  BY DEF ReceiveAlloc, Received
<1>2. /\ s \in Sessions /\ cl[s] = "open" /\ owner[s] = p /\ call[p] \in Calls
      /\ Ready(p, call[p]) /\ ctx[p] \in Ctxs
      /\ \A k \in Slots : ctx[p][k] # NoCtx => ctx[p][k].sess = s
      /\ rsp[s] # NoRsp /\ call[p].op = "alloc" /\ s # 0
      /\ s = cur => cur # 0 /\ req[cur] = NoReq
  <2>1. rsp[s] # NoRsp /\ rsp[s].op # "hash"
    BY <1>1, Constants
  <2> QED BY <1>1, <2>1, Answers, SessionSet DEF BInv
<1>3. i \in Slots /\ ctx[p][i] = NoCtx /\ (n \in Addrs \/ n = 0) /\ 0 \notin Addrs
  BY <1>1, <1>2, CallFacts, RpcAssumption DEF Ready, BInv, WireTypes
<1>4. /\ new \in Ctxs /\ new[i] = c /\ \A k \in Slots \ {i} : new[k] = ctx[p][k]
      /\ c # NoCtx => c.sess = s
  BY <1>2, <1>3 DEF Ctxs, NoCtx
<1>5. \A k \in Slots : new[k] # NoCtx => new[k].sess = s
  BY <1>2, <1>4
<1>6. ASSUME s = cur
      PROVE  /\ req[cur] = NoReq
             /\ \A k, j \in Slots : new[k].sess = cur /\ new[k] = new[j] => k = j
             /\ buffers = {new[k].ptr : k \in {j \in Slots : new[j].sess = cur}}
  <2>1. /\ req[cur] = NoReq /\ cur # 0 /\ cl[cur] = "open" /\ owner[cur] = p
        /\ rsp[cur].op = "alloc" /\ rsp[cur].n = n
    BY <1>1, <1>2, <1>6
  <2>2. /\ \A k, j \in Slots : ctx[p][k].sess = cur /\ ctx[p][k] = ctx[p][j] => k = j
        /\ \/ n = 0 /\ buffers = Pointers(p)
           \/ n \notin Pointers(p) /\ buffers = Pointers(p) \cup {n}
    BY <2>1 DEF BInv, Agree
  <2>3. ctx[p][i].sess = 0 /\ NoCtx.sess = 0
    BY <1>3 DEF NoCtx
  <2> HIDE DEF new
  <2>4. CASE n = 0
    <3>1. \A k \in Slots : new[k] = ctx[p][k]
      BY <1>3, <1>4, <2>4
    <3>2. buffers = Pointers(p)
      <4>1. n = 0 /\ Pointers(p) \cup {0} # buffers
        <5>1. buffers \subseteq Addrs
          BY DEF BInv, TypeOK
        <5> QED BY <1>3, <2>4, <5>1
      <4> QED BY <2>2, <2>4, <4>1
    <3> QED BY <2>1, <2>2, <3>1, <3>2 DEF Pointers
  <2>5. CASE n # 0
    <3>1. n \notin Pointers(p) /\ buffers = Pointers(p) \cup {n} /\ c = [sess |-> cur, ptr |-> n]
      BY <1>6, <2>2, <2>5
    <3>2. \A k \in Slots : ctx[p][k].sess = cur => k # i /\ ctx[p][k].ptr # n
      BY <2>1, <2>3, <3>1 DEF Pointers
    <3>3. \A k, j \in Slots : new[k].sess = cur /\ new[k] = new[j] => k = j
      <4> SUFFICES ASSUME NEW k \in Slots, NEW j \in Slots, new[k].sess = cur, new[k] = new[j]
                   PROVE  k = j
        OBVIOUS
      <4>1. CASE k = i /\ j # i
        <5>1. new[j] = ctx[p][j] /\ new[k] = c
          BY <1>4, <4>1
        <5> QED BY <3>1, <3>2, <5>1
      <4>2. CASE k # i /\ j = i
        <5>1. ctx[p][k] = c
          BY <1>4, <4>2
        <5>2. c.sess = cur /\ c.ptr = n
          BY <3>1
        <5> QED BY <3>2, <5>1, <5>2
      <4>3. CASE k # i /\ j # i
        BY <1>4, <2>2, <4>3
      <4> QED BY <4>1, <4>2, <4>3
    <3>4. buffers = {new[k].ptr : k \in {j \in Slots : new[j].sess = cur}}
      <4>1. {j \in Slots : new[j].sess = cur} = {j \in Slots : ctx[p][j].sess = cur} \cup {i}
        BY <1>3, <1>4, <3>1, <3>2
      <4>2. new[i].ptr = n /\ \A k \in {j \in Slots : ctx[p][j].sess = cur} : new[k].ptr = ctx[p][k].ptr
        BY <1>4, <3>1, <3>2
      <4> QED BY <3>1, <4>1, <4>2 DEF Pointers
    <3> QED BY <2>1, <3>3, <3>4
  <2> QED BY <2>4, <2>5
<1> HIDE DEF new
<1> QED BY <1>1, <1>4, <1>5, <1>6, ReturnKeeps

LEMMA ReceiveFreeKeeps ==
  ASSUME RInv, BInv, NEW p \in Procs, ReceiveFree(p)
  PROVE  BInv'
<1> DEFINE s == using[p]
           i == call[p].i
           new == [ctx[p] EXCEPT ![i] = NoCtx]
<1>1. /\ cpc[p] = "wait" /\ rsp[s].op = "free" /\ Return(p, new)
  BY DEF ReceiveFree, Received
<1>2. /\ s \in Sessions /\ cl[s] = "open" /\ owner[s] = p /\ call[p] \in Calls
      /\ Ready(p, call[p]) /\ ctx[p] \in Ctxs
      /\ \A k \in Slots : ctx[p][k] # NoCtx => ctx[p][k].sess = s
      /\ rsp[s] # NoRsp /\ call[p].op = "free" /\ s # 0
      /\ s = cur => cur # 0 /\ req[cur] = NoReq
  <2>1. rsp[s] # NoRsp /\ rsp[s].op # "hash"
    BY <1>1, Constants
  <2> QED BY <1>1, <2>1, Answers, SessionSet DEF BInv
<1>3. i \in Slots /\ ctx[p][i] # NoCtx
  BY <1>2, CallFacts DEF Ready
<1>4. new \in Ctxs /\ new[i] = NoCtx /\ \A k \in Slots \ {i} : new[k] = ctx[p][k]
  BY <1>2, <1>3 DEF Ctxs
<1>5. \A k \in Slots : new[k] # NoCtx => new[k].sess = s
  BY <1>2, <1>4
<1>6. ASSUME s = cur
      PROVE  /\ req[cur] = NoReq
             /\ \A k, j \in Slots : new[k].sess = cur /\ new[k] = new[j] => k = j
             /\ buffers = {new[k].ptr : k \in {j \in Slots : new[j].sess = cur}}
  <2>1. /\ req[cur] = NoReq /\ cur # 0 /\ cl[cur] = "open" /\ owner[cur] = p
        /\ rsp[cur].op = "free" /\ ctx[p][i].sess = cur
    BY <1>1, <1>2, <1>3, <1>6
  <2>2. /\ \A k, j \in Slots : ctx[p][k].sess = cur /\ ctx[p][k] = ctx[p][j] => k = j
        /\ buffers = Pointers(p) \ {ctx[p][i].ptr}
    BY <2>1 DEF BInv, Agree
  <2>3. new[i].sess # cur
    BY <1>4, <2>1 DEF NoCtx
  <2> HIDE DEF new
  <2>4. {j \in Slots : new[j].sess = cur} = {j \in Slots : ctx[p][j].sess = cur} \ {i}
    BY <1>3, <1>4, <2>3
  <2>5. \A k, j \in Slots : new[k].sess = cur /\ new[k] = new[j] => k = j
    BY <1>4, <2>2, <2>3
  <2>6. \A k \in Slots \ {i} : ctx[p][k].sess = cur => ctx[p][k].ptr # ctx[p][i].ptr
    <3> SUFFICES ASSUME NEW k \in Slots \ {i}, ctx[p][k].sess = cur,
                        ctx[p][k].ptr = ctx[p][i].ptr
                 PROVE  FALSE
      OBVIOUS
    <3>1. ctx[p][k] \in [sess : Sessions, ptr : Addrs] /\ ctx[p][i] \in [sess : Sessions, ptr : Addrs]
      BY <1>2, <1>3, <2>1 DEF Ctxs, NoCtx
    <3>2. ctx[p][k] = ctx[p][i]
      BY <2>1, <3>1
    <3> QED BY <1>3, <2>1, <2>2, <3>2
  <2>7. {new[k].ptr : k \in {j \in Slots : new[j].sess = cur}}
          = {ctx[p][k].ptr : k \in {j \in Slots : ctx[p][j].sess = cur} \ {i}}
    BY <1>4, <2>4
  <2>8. {ctx[p][k].ptr : k \in {j \in Slots : ctx[p][j].sess = cur} \ {i}}
          = Pointers(p) \ {ctx[p][i].ptr}
    BY <2>6 DEF Pointers
  <2> QED BY <2>1, <2>2, <2>5, <2>7, <2>8
<1> HIDE DEF new
<1> QED BY <1>1, <1>4, <1>5, <1>6, ReturnKeeps

LEMMA ReturnsKeep ==
  ASSUME RInv, BInv, NEW p \in Procs, ReceiveDone(p) \/ ReceiveHit(p) \/ ReturnFailed(p)
  PROVE  BInv'
<1>1. CASE ReceiveDone(p) \/ ReceiveHit(p)
  <2>1. /\ cpc[p] = "wait" /\ Return(p, ctx[p])
        /\ rsp[using[p]].op \notin {"none", "alloc", "free"}
    BY <1>1 DEF ReceiveDone, ReceiveHit, Received
  <2> QED BY <2>1, Constants, ReturnSameKeeps
<1>2. CASE ReturnFailed(p)
  <2>1. /\ cpc[p] = "wait" /\ Return(p, ctx[p]) /\ sv[using[p]] = "closed"
        /\ rsp[using[p]] = NoRsp
    BY <1>2 DEF ReturnFailed, Unanswered
  <2>2. using[p] # cur
    BY <2>1, Answers, SessionSet DEF BInv, Serving
  <2> QED BY <2>1, <2>2, Constants, ReturnSameKeeps
<1> QED BY <1>1, <1>2

\* A process ends, and all its connections with it.
LEMMA EndKeeps ==
  ASSUME RInv, BInv, NEW p \in Procs, End(p)
  PROVE  BInv'
<1>1. /\ TypeOK /\ WireTypes /\ InCall /\ Serving /\ Responses /\ Requests /\ Agree
  BY DEF BInv
<1>2. /\ cpc' = [cpc EXCEPT ![p] = "dead"] /\ call' = [call EXCEPT ![p] = NoCall]
      /\ using' = [using EXCEPT ![p] = 0] /\ sock' = [sock EXCEPT ![p] = 0]
      /\ ctx' = [ctx EXCEPT ![p] = [i \in Slots |-> NoCtx]]
      /\ cl' = [s \in Sessions |-> IF owner[s] = p THEN "closed" ELSE cl[s]]
      /\ rsp' = [s \in Sessions |-> IF owner[s] = p THEN NoRsp ELSE rsp[s]]
      /\ owner' = owner /\ sv' = sv /\ req' = req
      /\ spc' = spc /\ cur' = cur /\ mem' = mem /\ caching' = caching /\ cached' = cached
  BY DEF End, servVars
<1>3. Sessions' = Sessions /\ buffers' = buffers
  BY <1>2 DEF Sessions, buffers
<1>4. \A s \in Sessions : cl'[s] = "open" => cl[s] = "open" /\ owner[s] # p
  BY <1>2
<1>5. TypeOK'
  BY <1>1, <1>2, <1>3 DEF TypeOK
<1>6. WireTypes'
  <2>1. \A s \in Sessions : rsp'[s] = NoRsp \/ rsp'[s] = rsp[s]
    BY <1>2
  <2>2. rsp' \in [Sessions -> Rsps]
    BY <1>1, <1>2, Constants DEF WireTypes
  <2> QED BY <1>1, <1>2, <1>3, <2>1, <2>2, Constants DEF WireTypes
<1>7. /\ cpc'[p] = "dead" /\ call'[p] = NoCall /\ sock'[p] = 0
      /\ ctx'[p] = [i \in Slots |-> NoCtx]
      /\ \A r \in Procs \ {p} : /\ cpc'[r] = cpc[r] /\ call'[r] = call[r]
                                /\ ctx'[r] = ctx[r] /\ using'[r] = using[r]
                                /\ sock'[r] = sock[r]
  BY <1>1, <1>2 DEF TypeOK
<1>8. InCall'
  <2> SUFFICES ASSUME NEW r \in Procs
               PROVE  /\ sock'[r] # 0 => owner'[sock'[r]] = r
                      /\ Waiting(r)' => /\ using'[r] \in Sessions' /\ owner'[using'[r]] = r
                                        /\ cl'[using'[r]] = "open" /\ call'[r] \in Calls
                                        /\ Ready(r, call[r])'
                      /\ ~Waiting(r)' => call'[r] = NoCall
                      /\ cpc'[r] = "hello" => \A i \in Slots : ctx'[r][i] = NoCtx
                      /\ \A i \in Slots : ctx'[r][i] # NoCtx =>
                           owner'[ctx'[r][i].sess] = r /\ cl'[ctx'[r][i].sess] = "open"
    BY DEF InCall
  <2>1. CASE r = p
    BY <1>7, <2>1 DEF Waiting
  <2>2. CASE r # p
    <3>1. Ready(r, call[r])' <=> Ready(r, call[r])
      BY <1>7, <2>2 DEF Ready
    <3>2. \A s \in Sessions : owner[s] = r => cl'[s] = cl[s]
      BY <1>2, <2>2
    <3>3. \A i \in Slots : ctx[r][i] # NoCtx => ctx[r][i].sess \in Sessions
      BY <1>1, CtxFacts
    <3> QED BY <1>1, <1>2, <1>3, <1>7, <2>2, <3>1, <3>2, <3>3 DEF InCall, Waiting
  <2> QED BY <2>1, <2>2
<1>9. Serving'
  <2>1. \A t \in Sessions : New(t)' <=> New(t)
    BY <1>2 DEF New
  <2>2. \A t \in Sessions : New(t) => rsp'[t] = NoRsp
    BY <1>1, <1>2 DEF Serving
  <2>3. \A t \in Sessions : New(t) /\ cl'[t] = "open" => cpc'[owner[t]] = "hello"
    BY <1>1, <1>4, <1>7, SessionSet DEF Serving
  <2> QED BY <1>1, <1>2, <1>3, <2>1, <2>2, <2>3 DEF Serving
<1>10. Responses'
  <2> SUFFICES ASSUME NEW t \in Sessions, cl'[t] = "open", rsp'[t] # NoRsp
               PROVE  /\ Waiting(owner[t])'
                      /\ cpc'[owner[t]] = "hello" => rsp'[t].op = "hello"
                      /\ cpc'[owner[t]] = "wait" =>
                           \/ rsp'[t].op = call'[owner[t]].op
                           \/ rsp'[t].op = "hash" /\ call'[owner[t]].op = "set"
    BY <1>2, <1>3 DEF Responses
  <2>1. owner[t] \in Procs \ {p} /\ rsp'[t] = rsp[t] /\ cl[t] = "open"
    BY <1>1, <1>2, <1>4, SessionSet
  <2>2. cpc'[owner[t]] = cpc[owner[t]] /\ call'[owner[t]] = call[owner[t]]
    BY <1>7, <2>1
  <2>3. rsp[t] # NoRsp
    BY <2>1
  <2>4. /\ Waiting(owner[t])
        /\ cpc[owner[t]] = "hello" => rsp[t].op = "hello"
        /\ cpc[owner[t]] = "wait" => \/ rsp[t].op = call[owner[t]].op
                                     \/ rsp[t].op = "hash" /\ call[owner[t]].op = "set"
    BY <1>1, <2>1, <2>3 DEF Responses
  <2>5. owner'[t] = owner[t]
    BY <1>2
  <2> QED BY <2>1, <2>2, <2>4, <2>5 DEF Waiting
<1>11. Requests' /\ Agree'
  <2>1. cur # 0 /\ cl'[cur] = "open" =>
         /\ cl[cur] = "open"
         /\ owner'[cur] = owner[cur] /\ req'[cur] = req[cur] /\ rsp'[cur] = rsp[cur]
         /\ cpc'[owner[cur]] = cpc[owner[cur]] /\ call'[owner[cur]] = call[owner[cur]]
         /\ ctx'[owner[cur]] = ctx[owner[cur]]
    <3> SUFFICES ASSUME cur # 0, cl'[cur] = "open"
                 PROVE  /\ cl[cur] = "open"
                        /\ owner'[cur] = owner[cur] /\ req'[cur] = req[cur]
                        /\ rsp'[cur] = rsp[cur]
                        /\ cpc'[owner[cur]] = cpc[owner[cur]]
                        /\ call'[owner[cur]] = call[owner[cur]]
                        /\ ctx'[owner[cur]] = ctx[owner[cur]]
      OBVIOUS
    <3>1. cur \in Sessions
      BY <1>1 DEF TypeOK
    <3>2. owner[cur] \in Procs \ {p} /\ cl[cur] = "open"
      BY <1>1, <1>4, <3>1, SessionSet
    <3> QED BY <1>2, <1>7, <3>1, <3>2
  <2> QED BY <1>1, <1>2, <2>1, Untouched
<1> QED BY <1>5, <1>6, <1>8, <1>9, <1>10, <1>11 DEF BInv

\* A process without a connection makes one, behind those there are.
LEMMA ConnectKeeps ==
  ASSUME RInv, BInv, NEW p \in Procs, Connect(p)
  PROVE  BInv'
<1> DEFINE n == Len(owner)
           s == n + 1
           hello == Req("hello", 0, 0, 0)
<1>1. /\ TypeOK /\ WireTypes /\ InCall /\ Serving /\ Responses /\ Requests /\ Agree
  BY DEF BInv
<1>2. n \in Nat /\ Sessions = 1 .. n /\ Cardinality(Sessions) = n /\ s \in Nat /\ s \notin Sessions
  BY <1>1, SessionsFact, SessionSet DEF RInv
<1>3. PICK c \in Calls :
        /\ cpc[p] = "idle" /\ Ready(p, c) /\ c.op \in ViaEndpoint /\ ~Alive(sock[p])
        /\ Begin(p, c, s, "hello")
        /\ owner' = Append(owner, p) /\ cl' = Append(cl, "open") /\ sv' = Append(sv, "queued")
        /\ req' = Append(req, hello) /\ rsp' = Append(rsp, NoRsp)
        /\ UNCHANGED <<servVars, cached>>
  BY <1>2 DEF Connect
<1>4. /\ cpc' = [cpc EXCEPT ![p] = "hello"] /\ call' = [call EXCEPT ![p] = c]
      /\ using' = [using EXCEPT ![p] = s] /\ sock' = sock /\ ctx' = ctx
      /\ spc' = spc /\ cur' = cur /\ mem' = mem /\ caching' = caching /\ cached' = cached
  BY <1>3 DEF Begin, servVars
<1>5. hello \in Reqs /\ NoRsp \in Rsps
  BY Constants DEF Ops
<1>0. n \in Nat /\ s = n + 1
  BY <1>2
<1> HIDE DEF hello, n, s
<1>6. /\ owner' \in [1 .. s -> Procs] /\ owner'[s] = p /\ \A t \in 1 .. n : owner'[t] = owner[t]
      /\ cl' \in [1 .. s -> {"open", "closed"}] /\ cl'[s] = "open"
      /\ \A t \in 1 .. n : cl'[t] = cl[t]
      /\ sv' \in [1 .. s -> {"queued", "served", "closed"}] /\ sv'[s] = "queued"
      /\ \A t \in 1 .. n : sv'[t] = sv[t]
  <2>1. /\ owner \in [1 .. n -> Procs] /\ cl \in [1 .. n -> {"open", "closed"}]
        /\ sv \in [1 .. n -> {"queued", "served", "closed"}]
    <3>1. owner \in [1 .. n -> Procs]
      BY <1>1, LenProperties DEF TypeOK, n
    <3> QED BY <1>1, <1>2, <3>1 DEF TypeOK
  <2>2. owner' \in [1 .. s -> Procs] /\ owner'[s] = p /\ \A t \in 1 .. n : owner'[t] = owner[t]
    <3>1. /\ Append(owner, p) \in [1 .. s -> Procs] /\ Append(owner, p)[s] = p
          /\ \A t \in 1 .. n : Append(owner, p)[t] = owner[t]
      <4>1. owner \in Seq(Procs) /\ Len(owner) = n
        BY <1>1 DEF TypeOK, n
      <4>2. Len(owner) + 1 = s /\ p \in Procs
        BY <1>0, <4>1
      <4> QED BY <4>1, <4>2, Grow
    <3> QED BY <1>3, <3>1
  <2>3. /\ cl' \in [1 .. s -> {"open", "closed"}] /\ cl'[s] = "open"
        /\ \A t \in 1 .. n : cl'[t] = cl[t]
    <3> DEFINE S == {"open", "closed"}
    <3>1. "open" \in S /\ cl \in [1 .. n -> S]
      BY <2>1
    <3> HIDE DEF S
    <3>2. /\ Append(cl, "open") \in [1 .. s -> S] /\ Append(cl, "open")[s] = "open"
          /\ \A t \in 1 .. n : Append(cl, "open")[t] = cl[t]
      <4>1. cl \in Seq(S) /\ Len(cl) = n
        BY <1>0, <3>1, AsSeq
      <4>2. Len(cl) + 1 = s /\ "open" \in S
        BY <1>0, <3>1, <4>1
      <4> QED BY <4>1, <4>2, Grow
    <3> QED BY <1>3, <3>2 DEF S
  <2>4. /\ sv' \in [1 .. s -> {"queued", "served", "closed"}] /\ sv'[s] = "queued"
        /\ \A t \in 1 .. n : sv'[t] = sv[t]
    <3> DEFINE S == {"queued", "served", "closed"}
    <3>1. "queued" \in S /\ sv \in [1 .. n -> S]
      BY <2>1
    <3> HIDE DEF S
    <3>2. /\ Append(sv, "queued") \in [1 .. s -> S] /\ Append(sv, "queued")[s] = "queued"
          /\ \A t \in 1 .. n : Append(sv, "queued")[t] = sv[t]
      <4>1. sv \in Seq(S) /\ Len(sv) = n
        BY <1>0, <3>1, AsSeq
      <4>2. Len(sv) + 1 = s /\ "queued" \in S
        BY <1>0, <3>1, <4>1
      <4> QED BY <4>1, <4>2, Grow
    <3> QED BY <1>3, <3>2 DEF S
  <2> QED BY <2>2, <2>3, <2>4
<1>7. /\ req' \in [1 .. s -> Reqs] /\ req'[s] = hello /\ \A t \in 1 .. n : req'[t] = req[t]
      /\ rsp' \in [1 .. s -> Rsps] /\ rsp'[s] = NoRsp /\ \A t \in 1 .. n : rsp'[t] = rsp[t]
  <2>1. req \in [1 .. n -> Reqs] /\ rsp \in [1 .. n -> Rsps]
    BY <1>1, <1>2 DEF WireTypes
  <2>2. req' \in [1 .. s -> Reqs] /\ req'[s] = hello /\ \A t \in 1 .. n : req'[t] = req[t]
    <3>1. /\ Append(req, hello) \in [1 .. s -> Reqs] /\ Append(req, hello)[s] = hello
          /\ \A t \in 1 .. n : Append(req, hello)[t] = req[t]
      <4>1. req \in Seq(Reqs) /\ Len(req) = n
        BY <1>0, <1>5, <2>1, AsSeq
      <4>2. Len(req) + 1 = s /\ hello \in Reqs
        BY <1>0, <1>5, <2>1, <4>1
      <4> QED BY <4>1, <4>2, Grow
    <3> QED BY <1>3, <3>1
  <2>3. rsp' \in [1 .. s -> Rsps] /\ rsp'[s] = NoRsp /\ \A t \in 1 .. n : rsp'[t] = rsp[t]
    <3>1. /\ Append(rsp, NoRsp) \in [1 .. s -> Rsps] /\ Append(rsp, NoRsp)[s] = NoRsp
          /\ \A t \in 1 .. n : Append(rsp, NoRsp)[t] = rsp[t]
      <4>1. rsp \in Seq(Rsps) /\ Len(rsp) = n
        BY <1>0, <1>5, <2>1, AsSeq
      <4>2. Len(rsp) + 1 = s /\ NoRsp \in Rsps
        BY <1>0, <1>5, <2>1, <4>1
      <4> QED BY <4>1, <4>2, Grow
    <3> QED BY <1>3, <3>1
  <2> QED BY <2>2, <2>3
<1>8. Sessions' = 1 .. s /\ Sessions' = Sessions \cup {s} /\ buffers' = buffers
  BY <1>0, <1>2, <1>4, <1>6 DEF Sessions, buffers
<1>9. \A t \in Sessions : cl[t] = "open" => owner[t] # p
  <2> SUFFICES ASSUME NEW t \in Sessions, cl[t] = "open", owner[t] = p PROVE FALSE
    OBVIOUS
  <2>1. t = sock[p]
    BY <1>3 DEF RInv, OpenIsRemembered, TheOne
  <2> QED BY <1>1, <1>3, <2>1, SessionSet DEF Alive
<1>10. \A i \in Slots : ctx[p][i] = NoCtx
  BY <1>1, <1>9, CtxFacts DEF InCall
<1>11. TypeOK'
  <2>1. owner' \in Seq(Procs)
    BY <1>1, <1>3, AppendProperties DEF TypeOK
  <2>2. ctx' \in [Procs -> [Slots -> [sess : Sessions', ptr : Addrs] \cup {NoCtx}]]
    BY <1>1, <1>4, <1>8 DEF TypeOK
  <2>3. using' \in [Procs -> Sessions' \cup {0}] /\ sock' \in [Procs -> Sessions' \cup {0}]
    BY <1>1, <1>4, <1>8 DEF TypeOK
  <2>4. call' \in [Procs -> Calls \cup {NoCall}]
    BY <1>1, <1>4 DEF TypeOK
  <2>5. cpc' \in [Procs -> {"idle", "hello", "wait", "dead"}]
    BY <1>1, <1>4 DEF TypeOK
  <2>6. cur' \in Sessions' \cup {0} /\ DOMAIN req' = Sessions' /\ DOMAIN rsp' = Sessions'
        /\ cl' \in [Sessions' -> {"open", "closed"}]
        /\ sv' \in [Sessions' -> {"queued", "served", "closed"}]
    BY <1>1, <1>4, <1>6, <1>7, <1>8 DEF TypeOK
  <2> QED BY <1>1, <1>4, <1>8, <2>1, <2>2, <2>3, <2>4, <2>5, <2>6 DEF TypeOK
<1>12. WireTypes'
  BY <1>1, <1>2, <1>7, <1>8, Constants DEF WireTypes
<1>13. /\ cpc'[p] = "hello" /\ call'[p] = c /\ using'[p] = s
       /\ \A r \in Procs \ {p} : /\ cpc'[r] = cpc[r] /\ call'[r] = call[r]
                                 /\ using'[r] = using[r]
  BY <1>1, <1>4 DEF TypeOK
<1>14. InCall'
  <2> SUFFICES ASSUME NEW r \in Procs
               PROVE  /\ sock'[r] # 0 => owner'[sock'[r]] = r
                      /\ Waiting(r)' => /\ using'[r] \in Sessions' /\ owner'[using'[r]] = r
                                        /\ cl'[using'[r]] = "open" /\ call'[r] \in Calls
                                        /\ Ready(r, call[r])'
                      /\ ~Waiting(r)' => call'[r] = NoCall
                      /\ cpc'[r] = "hello" => \A i \in Slots : ctx'[r][i] = NoCtx
                      /\ \A i \in Slots : ctx'[r][i] # NoCtx =>
                           owner'[ctx'[r][i].sess] = r /\ cl'[ctx'[r][i].sess] = "open"
    BY DEF InCall
  <2>1. sock'[r] # 0 => owner'[sock'[r]] = r
    BY <1>1, <1>2, <1>4, <1>6 DEF InCall, TypeOK
  <2>2. CASE r = p
    <3>1. Ready(p, c)'
      BY <1>3, <1>4 DEF Ready
    <3>2. Ready(r, call[r])' /\ call'[r] \in Calls
      BY <1>13, <2>2, <3>1
    <3>3. /\ using'[r] = s /\ s \in Sessions' /\ owner'[s] = r /\ cl'[s] = "open"
          /\ cpc'[r] = "hello" /\ \A i \in Slots : ctx'[r][i] = NoCtx
      BY <1>4, <1>6, <1>8, <1>10, <1>13, <2>2
    <3> QED BY <2>1, <3>2, <3>3 DEF Waiting
  <2>3. CASE r # p
    <3>1. Ready(r, call[r])' <=> Ready(r, call[r])
      BY <1>4, <1>13, <2>3 DEF Ready
    <3>2. \A i \in Slots : ctx[r][i] # NoCtx => ctx[r][i].sess \in Sessions
      BY <1>1, CtxFacts
    <3>3. /\ cpc'[r] = cpc[r] /\ call'[r] = call[r] /\ using'[r] = using[r]
          /\ ctx'[r] = ctx[r]
      BY <1>4, <1>13, <2>3
    <3>4. \A t \in Sessions : t \in Sessions' /\ owner'[t] = owner[t] /\ cl'[t] = cl[t]
      BY <1>2, <1>6, <1>8
    <3> QED BY <1>1, <2>1, <3>1, <3>2, <3>3, <3>4 DEF InCall, Waiting
  <2> QED BY <2>2, <2>3
<1>15. cur # s /\ (cur # 0 => cur \in Sessions)
  BY <1>0, <1>1, <1>2 DEF TypeOK
<1>16. Serving'
  <2>1. \A t \in Sessions : New(t)' <=> New(t)
    BY <1>2, <1>4, <1>6 DEF New
  <2>2. \A t \in Sessions : New(t) /\ cl'[t] = "open" => cpc'[owner'[t]] = "hello"
    <3> SUFFICES ASSUME NEW t \in Sessions, New(t), cl'[t] = "open"
                 PROVE  cpc'[owner'[t]] = "hello"
      OBVIOUS
    <3>1. cl[t] = "open" /\ owner'[t] = owner[t] /\ cpc[owner[t]] = "hello"
      BY <1>1, <1>2, <1>6 DEF Serving
    <3> QED BY <1>1, <1>9, <1>13, <3>1, SessionSet
  <2>3. \A t \in Sessions : New(t) => req'[t] = Req("hello", 0, 0, 0) /\ rsp'[t] = NoRsp
    BY <1>1, <1>2, <1>7 DEF Serving
  <2>4. /\ req'[s] = Req("hello", 0, 0, 0) /\ rsp'[s] = NoRsp
        /\ cpc'[owner'[s]] = "hello"
    BY <1>6, <1>7, <1>13 DEF hello
  <2>5. \A t \in Sessions' : New(t)' => /\ req'[t] = Req("hello", 0, 0, 0) /\ rsp'[t] = NoRsp
                                        /\ cl'[t] = "open" => cpc'[owner'[t]] = "hello"
    BY <1>8, <2>1, <2>2, <2>3, <2>4
  <2>6. \A t \in Sessions' : sv'[t] = "served" => t = cur
    <3>1. \A t \in Sessions : sv'[t] = "served" => t = cur
      BY <1>1, <1>2, <1>6 DEF Serving
    <3>2. sv'[s] # "served"
      BY <1>6
    <3> QED BY <1>8, <3>1, <3>2
  <2>7. cur # 0 => cur \in Sessions' /\ sv'[cur] = sv[cur] /\ req'[cur] = req[cur]
    BY <1>2, <1>6, <1>7, <1>8, <1>15
  <2> QED BY <1>1, <1>4, <1>8, <2>5, <2>6, <2>7, SessionSet DEF Serving
<1>17. Responses'
  <2> SUFFICES ASSUME NEW t \in Sessions', cl'[t] = "open", rsp'[t] # NoRsp
               PROVE  /\ Waiting(owner[t])'
                      /\ cpc'[owner'[t]] = "hello" => rsp'[t].op = "hello"
                      /\ cpc'[owner'[t]] = "wait" =>
                           \/ rsp'[t].op = call'[owner'[t]].op
                           \/ rsp'[t].op = "hash" /\ call'[owner'[t]].op = "set"
    BY DEF Responses
  <2>1. /\ t \in Sessions /\ rsp'[t] = rsp[t] /\ cl[t] = "open" /\ owner'[t] = owner[t]
    BY <1>2, <1>6, <1>7, <1>8
  <2>2. owner[t] \in Procs \ {p}
    BY <1>1, <1>9, <2>1, SessionSet
  <2> QED BY <1>1, <1>13, <2>1, <2>2 DEF Responses, Waiting
<1>18. Requests' /\ Agree'
  <2>1. cur # 0 /\ cl'[cur] = "open" =>
         /\ cl[cur] = "open"
         /\ owner'[cur] = owner[cur] /\ req'[cur] = req[cur] /\ rsp'[cur] = rsp[cur]
         /\ cpc'[owner[cur]] = cpc[owner[cur]] /\ call'[owner[cur]] = call[owner[cur]]
         /\ ctx'[owner[cur]] = ctx[owner[cur]]
    BY <1>1, <1>2, <1>4, <1>6, <1>7, <1>9, <1>13, <1>15, SessionSet
  <2> QED BY <1>1, <1>4, <2>1, Untouched
<1> QED BY <1>11, <1>12, <1>14, <1>16, <1>17, <1>18 DEF BInv

-----------------------------------------------------------------------------
(* The steps of the server.                                                  *)

LEMMA Least ==
  ASSUME NEW T \in SUBSET Nat, T # {}
  PROVE  \E x \in T : \A y \in T : x <= y
<1> DEFINE R == OpToRel(<, Nat)
<1>1. IsWellFoundedOn(R, Nat)
  BY NatLessThanWellFounded
<1> HIDE DEF R
<1>2. PICK x \in T : \A y \in T : ~ (<<y, x>> \in R)
  BY <1>1, WFMin
<1>3. \A y \in Nat : y < x => <<y, x>> \in R
  BY DEF R, OpToRel
<1>4. ASSUME NEW y \in T PROVE x <= y
  <2>1. x \in Nat /\ y \in Nat
    OBVIOUS
  <2>2. ~(y < x)
    BY <1>2, <1>3, <2>1
  <2> QED BY <2>1, <2>2
<1> QED BY <1>4

\* start_server takes the connection that has waited longest.
LEMMA AcceptKeeps ==
  ASSUME BInv, Accept
  PROVE  BInv'
<1>1. /\ TypeOK /\ WireTypes /\ InCall /\ Serving /\ Responses /\ Requests /\ Agree
  BY DEF BInv
<1> DEFINE s == cur'
<1>2. /\ spc = "accept" /\ sv' = [sv EXCEPT ![s] = "served"] /\ spc' = "hello"
      /\ cpc' = cpc /\ call' = call /\ using' = using /\ sock' = sock /\ ctx' = ctx
      /\ owner' = owner /\ cl' = cl /\ req' = req /\ rsp' = rsp
      /\ mem' = mem /\ caching' = caching /\ cached' = cached
  BY DEF Accept, procVars, wireVars
<1>3. s \in Queued
  <2>1. Queued \subseteq Nat /\ Queued # {}
    BY <1>1, SessionSet DEF Queued, Accept
  <2>2. \E x \in Queued : \A y \in Queued : x <= y
    BY <2>1, Least
  <2>3. s = CHOOSE x \in Queued : \A y \in Queued : x <= y
    BY DEF Accept
  <2> QED BY <2>2, <2>3
<1>4. s \in Sessions /\ sv[s] = "queued" /\ s # 0 /\ cur = 0 /\ buffers = {}
  BY <1>1, <1>2, <1>3, SessionSet DEF Queued, Serving
<1>5. Sessions' = Sessions /\ buffers' = buffers
  BY <1>2 DEF Sessions, buffers
<1>6. /\ req[s] = Req("hello", 0, 0, 0) /\ rsp[s] = NoRsp
      /\ cl[s] = "open" => cpc[owner[s]] = "hello"
  BY <1>1, <1>4 DEF Serving, New
<1> HIDE DEF s
<1>7. TypeOK'
  <2>1. cur' \in Sessions' \cup {0}
    BY <1>4, <1>5 DEF s
  <2> QED BY <1>1, <1>2, <1>5, <2>1 DEF TypeOK
<1>8. WireTypes'
  BY <1>1, <1>2, <1>5 DEF WireTypes
<1>9. InCall'
  BY <1>1, <1>2, <1>5 DEF InCall, Waiting, Ready
<1>10. Serving'
  <2>1. sv'[s] = "served" /\ \A t \in Sessions : t # s => sv'[t] = sv[t]
    BY <1>1, <1>2, <1>4 DEF TypeOK
  <2>2. \A t \in Sessions : New(t)' => New(t)
    BY <1>2, <1>4, <2>1 DEF New, s
  <2>3. \A t \in Sessions : sv'[t] = "served" => t = s
    BY <1>1, <1>4, <2>1, SessionSet DEF Serving
  <2> QED BY <1>1, <1>2, <1>4, <1>5, <2>1, <2>2, <2>3 DEF Serving, s
<1>11. Responses'
  BY <1>1, <1>2, <1>5 DEF Responses, Waiting
<1>12. Requests'
  BY <1>2, <1>6, Constants DEF Requests, Waiting, s, Ops, Req
<1>13. Agree'
  <2>1. cl[s] = "open" => \A i \in Slots : ctx[owner[s]][i] = NoCtx
    BY <1>1, <1>4, <1>6, SessionSet DEF InCall
  <2>2. cl[s] = "open" => \A i \in Slots : ctx[owner[s]][i].sess # s
    BY <1>4, <2>1 DEF NoCtx
  <2>3. cl[s] = "open" => {ctx[owner[s]][i].ptr : i \in {k \in Slots : ctx[owner[s]][k].sess = s}} = {}
    BY <2>2
  <2> QED BY <1>2, <1>4, <1>5, <1>6, <2>2, <2>3, Constants DEF Agree, Pointers, s
<1> QED BY <1>7, <1>8, <1>9, <1>10, <1>11, <1>12, <1>13 DEF BInv

\* Of the request that the server has, and of the process that sent it.
LEMMA Asked ==
  ASSUME BInv, NEW op, op # "none", Requested(op)
  PROVE  /\ cur \in Sessions /\ cur # 0 /\ req[cur] \in Reqs /\ req[cur] # NoReq
         /\ req[cur].op = op
         /\ cl[cur] = "open" =>
              /\ owner[cur] \in Procs /\ rsp[cur] = NoRsp /\ Waiting(owner[cur])
              /\ buffers = Pointers(owner[cur])
              /\ cpc[owner[cur]] = "hello" => op = "hello"
              /\ cpc[owner[cur]] = "wait" =>
                   \/ op = call[owner[cur]].op
                   \/ op = "hash" /\ call[owner[cur]].op = "set"
              /\ op = "free" =>
                   req[cur].a = ctx[owner[cur]][call[owner[cur]].i].ptr
<1>1. /\ TypeOK /\ WireTypes /\ InCall /\ Serving /\ Responses /\ Requests /\ Agree
  BY DEF BInv
<1>2. cur \in Sessions /\ cur # 0 /\ req[cur] \in Reqs /\ req[cur] # NoReq /\ req[cur].op = op
  BY <1>1, Constants DEF Requested, TypeOK, WireTypes
<1> SUFFICES ASSUME cl[cur] = "open"
             PROVE  /\ owner[cur] \in Procs /\ rsp[cur] = NoRsp /\ Waiting(owner[cur])
                    /\ buffers = Pointers(owner[cur])
                    /\ cpc[owner[cur]] = "hello" => op = "hello"
                    /\ cpc[owner[cur]] = "wait" =>
                         \/ op = call[owner[cur]].op
                         \/ op = "hash" /\ call[owner[cur]].op = "set"
                    /\ op = "free" =>
                         req[cur].a = ctx[owner[cur]][call[owner[cur]].i].ptr
  BY <1>2
<1> DEFINE p == owner[cur]
<1>3. p \in Procs
  BY <1>1, <1>2, SessionSet
<1>4. rsp[cur] = NoRsp /\ Waiting(p) /\ call[p] \in Calls
  BY <1>1, <1>2, <1>3 DEF Requests, InCall
<1>5. buffers = Pointers(p)
  BY <1>1, <1>2, <1>4, Constants DEF Agree
<1>6. cpc[p] = "hello" => op = "hello"
  BY <1>1, <1>2 DEF Requests
<1>7. cpc[p] = "wait" =>
        \/ req[cur] = Request(p, call[p])
        \/ call[p].op = "set" /\ req[cur] = Req("set", ctx[p][call[p].i].ptr, 0, call[p].v)
  BY <1>1, <1>2 DEF Requests
<1>8. Req("set", ctx[p][call[p].i].ptr, 0, call[p].v).op = "set"
  BY DEF Req
<1>9. cpc[p] = "wait" => op = call[p].op \/ (op = "hash" /\ call[p].op = "set")
  BY <1>1, <1>2, <1>3, <1>4, <1>7, <1>8, RequestType
<1>10. op = "free" => req[cur].a = ctx[p][call[p].i].ptr
  <2> SUFFICES ASSUME op = "free" PROVE req[cur].a = ctx[p][call[p].i].ptr
    OBVIOUS
  <2>1. cpc[p] = "wait" /\ call[p].op = "free" /\ req[cur] = Request(p, call[p])
    BY <1>2, <1>4, <1>6, <1>7, <1>8, <1>9 DEF Waiting
  <2>2. call[p].i \in Slots
    BY <1>4, <2>1, CallFacts
  <2> QED BY <1>1, <1>3, <1>4, <2>1, <2>2, RequestType
<1> QED BY <1>3, <1>4, <1>5, <1>6, <1>9, <1>10

\* Only large data is offered by its hash.
LEMMA HashedIsBig ==
  ASSUME BInv, Requested("hash")
  PROVE  Arg.v \in Big
BY Asked DEF Arg, Reqs

\* What the set of buffers is after a command.
Follows(m) ==
  /\ m.op \notin {"alloc", "free"} => buffers' = buffers
  /\ m.op = "alloc" =>
       /\ m.n \in Addrs \cup {0}
       /\ \/ m.n = 0 /\ buffers' = buffers
          \/ m.n \notin buffers /\ buffers' = buffers \cup {m.n}
  /\ m.op = "free" => buffers' = buffers \ {req[cur].a}

\* A handler that answers with m.
LEMMA AnswerKeeps ==
  ASSUME BInv, NEW m \in Rsps, m.op # "none", Requested(m.op), Answer(m),
         spc \in {"hello", "recv", "saving"},
         buffers' \subseteq Addrs, mem' \in [buffers' -> [Pieces -> Values]],
         cached' \in Files,
         Follows(m)
  PROVE  BInv'
<1>1. /\ TypeOK /\ WireTypes /\ InCall /\ Serving /\ Responses /\ Requests /\ Agree
  BY DEF BInv
<1> DEFINE p == owner[cur]
           op == m.op
<1>2. /\ cur \in Sessions /\ cur # 0
      /\ cl[cur] = "open" =>
           /\ p \in Procs /\ rsp[cur] = NoRsp /\ Waiting(p) /\ buffers = Pointers(p)
           /\ cpc[p] = "hello" => op = "hello"
           /\ cpc[p] = "wait" => op = call[p].op \/ (op = "hash" /\ call[p].op = "set")
           /\ op = "free" => req[cur].a = ctx[p][call[p].i].ptr
  BY Asked
<1>3. /\ cpc' = cpc /\ call' = call /\ using' = using /\ sock' = sock /\ ctx' = ctx
      /\ owner' = owner /\ cl' = cl /\ sv' = sv /\ cur' = cur /\ caching' = caching
      /\ req' = [req EXCEPT ![cur] = NoReq]
      /\ \/ cl[cur] = "open" /\ spc' = "recv" /\ rsp' = [rsp EXCEPT ![cur] = m]
         \/ cl[cur] = "closed" /\ spc' \in {"recv", "dying"} /\ rsp' = rsp
  BY DEF Answer, procVars, sessVars
<1>4. Sessions' = Sessions
  BY <1>3 DEF Sessions
<1>5. /\ req'[cur] = NoReq /\ (cl[cur] = "open" => rsp'[cur] = m)
      /\ \A t \in Sessions : t # cur => req'[t] = req[t] /\ rsp'[t] = rsp[t]
  BY <1>1, <1>2, <1>3 DEF TypeOK
<1>6. sv[cur] = "served"
  BY <1>1 DEF Serving
<1> HIDE DEF p, op
<1>7. TypeOK'
  <2>1. DOMAIN req' = Sessions /\ DOMAIN rsp' = Sessions
        /\ spc' \in {"accept", "hello", "recv", "saving", "dying", "down"}
    BY <1>1, <1>3 DEF TypeOK
  <2> QED BY <1>1, <1>3, <1>4, <2>1 DEF TypeOK, Files
<1>8. WireTypes'
  <2>1. req' \in [Sessions -> Reqs]
    BY <1>1, <1>3, Constants DEF WireTypes
  <2>2. rsp' \in [Sessions -> Rsps]
    BY <1>1, <1>3 DEF WireTypes
  <2>3. \A t \in Sessions : rsp'[t] = m \/ rsp'[t] = rsp[t]
    BY <1>2, <1>3, <1>5
  <2> QED BY <1>1, <1>4, <2>1, <2>2, <2>3 DEF WireTypes, Follows
<1>9. InCall'
  BY <1>1, <1>3, <1>4 DEF InCall, Waiting, Ready
<1>10. Serving'
  <2>1. \A t \in Sessions : New(t)' => New(t) /\ t # cur
    BY <1>3, <1>6 DEF New
  <2> QED BY <1>1, <1>2, <1>3, <1>4, <1>5, <1>6, <2>1 DEF Serving
<1>11. Responses'
  <2> SUFFICES ASSUME NEW t \in Sessions, cl[t] = "open", rsp'[t] # NoRsp
               PROVE  /\ Waiting(owner[t])
                      /\ cpc[owner[t]] = "hello" => rsp'[t].op = "hello"
                      /\ cpc[owner[t]] = "wait" =>
                           \/ rsp'[t].op = call[owner[t]].op
                           \/ rsp'[t].op = "hash" /\ call[owner[t]].op = "set"
    BY <1>3, <1>4 DEF Responses, Waiting
  <2>1. CASE t = cur
    BY <1>2, <1>5, <2>1 DEF p, op
  <2>2. CASE t # cur
    BY <1>1, <1>5, <2>2 DEF Responses
  <2> QED BY <2>1, <2>2
<1>12. Requests'
  BY <1>3, <1>5, Constants DEF Requests
<1>13. Agree'
  <2> SUFFICES ASSUME cl[cur] = "open" PROVE Agree'
    BY <1>3 DEF Agree
  <2>1. Pointers(p)' = Pointers(p)
    BY <1>3 DEF Pointers, p
  <2>2. \A i, j \in Slots : ctx[p][i].sess = cur /\ ctx[p][i] = ctx[p][j] => i = j
    BY <1>1, <1>2 DEF Agree, p
  <2> QED BY <1>2, <1>3, <1>5, <2>1, <2>2 DEF Agree, Follows, p, op
<1> QED BY <1>7, <1>8, <1>9, <1>10, <1>11, <1>12, <1>13 DEF BInv

\* The handlers.
LEMMA ServesKeep ==
  ASSUME BInv, \/ ServeHello \/ ServeQuery \/ ServeFree \/ ServeClear \/ ServeSet
               \/ SetSaved \/ ServeMiss \/ ServeGet
  PROVE  BInv'
<1>1. /\ buffers \subseteq Addrs /\ mem \in [buffers -> [Pieces -> Values]]
      /\ cached \in Files
      /\ \A a \in buffers : mem[a] \in [Pieces -> Values]
  BY DEF BInv, TypeOK, Files
<1>2. ASSUME NEW op \in Ops, NEW n \in Nat, NEW d \in [Pieces -> Values] \cup {Nothing}
      PROVE  Rsp(op, n, d) \in Rsps /\ Rsp(op, n, d).op = op
  BY Constants
<1>3. ASSUME mem' = mem, NEW m, m.op \notin {"alloc", "free"}
      PROVE  /\ Follows(m) /\ buffers' \subseteq Addrs
             /\ mem' \in [buffers' -> [Pieces -> Values]]
  BY <1>1, <1>3 DEF Follows, buffers
<1>4. ASSUME NEW a, NEW d \in [Pieces -> Values], mem' = [mem EXCEPT ![a] = d],
             NEW m, m.op \notin {"alloc", "free"}
      PROVE  /\ Follows(m) /\ buffers' \subseteq Addrs
             /\ mem' \in [buffers' -> [Pieces -> Values]]
  <2>1. buffers' = buffers
    BY <1>4 DEF buffers
  <2> QED BY <1>1, <1>4, <2>1 DEF Follows
<1>5. CASE ServeHello
  BY <1>1, <1>2, <1>3, <1>5, AnswerKeeps DEF ServeHello, Ops
<1>6. CASE ServeQuery
  BY <1>1, <1>2, <1>3, <1>6, AnswerKeeps DEF ServeQuery, Ops
<1>7. CASE ServeMiss
  BY <1>1, <1>2, <1>3, <1>7, AnswerKeeps DEF ServeMiss, Ops
<1>8. CASE ServeGet
  <2>1. Arg.a \in buffers
    BY <1>8 DEF ServeGet, Known
  <2>2. mem[Arg.a] \in [Pieces -> Values]
    BY <1>1, <2>1
  <2> QED BY <1>1, <1>2, <1>3, <1>8, <2>2, AnswerKeeps DEF ServeGet, Ops
<1>9. ASSUME NEW op \in {"clear", "set"}, Requested(op)
      PROVE  Whole(Arg.v) \in [Pieces -> Values]
  <2>1. req[cur] \in Reqs
    BY <1>9, Asked
  <2> QED BY <2>1 DEF Whole, Arg, Reqs
<1>10. CASE ServeClear
  <2>1. /\ Requested("clear") /\ spc \in {"hello", "recv", "saving"}
        /\ mem' = [mem EXCEPT ![Arg.a] = Whole(Arg.v)] /\ cached' = cached
        /\ Answer(Rsp("clear", 0, Nothing))
    BY <1>10 DEF ServeClear
  <2>2. Rsp("clear", 0, Nothing) \in Rsps /\ Rsp("clear", 0, Nothing).op = "clear"
    BY <1>2 DEF Ops
  <2>3. Follows(Rsp("clear", 0, Nothing)) /\ buffers' \subseteq Addrs
        /\ mem' \in [buffers' -> [Pieces -> Values]]
    BY <1>4, <1>9, <2>1, <2>2
  <2> QED BY <1>1, <2>1, <2>2, <2>3, AnswerKeeps
<1>11. CASE ServeSet
  <2>1. /\ Requested("set") /\ spc \in {"hello", "recv", "saving"}
        /\ mem' = [mem EXCEPT ![Arg.a] = Whole(Arg.v)] /\ cached' = cached
        /\ Answer(Rsp("set", 0, Nothing))
    BY <1>11 DEF ServeSet
  <2>2. Rsp("set", 0, Nothing) \in Rsps /\ Rsp("set", 0, Nothing).op = "set"
    BY <1>2 DEF Ops
  <2>3. Follows(Rsp("set", 0, Nothing)) /\ buffers' \subseteq Addrs
        /\ mem' \in [buffers' -> [Pieces -> Values]]
    BY <1>4, <1>9, <2>1, <2>2
  <2> QED BY <1>1, <2>1, <2>2, <2>3, AnswerKeeps
<1>12. CASE SetSaved
  <2>1. /\ Requested("set") /\ spc \in {"hello", "recv", "saving"}
        /\ mem' = [mem EXCEPT ![Arg.a] = Whole(Arg.v)] /\ cached' = cached
        /\ Answer(Rsp("set", 0, Nothing))
    BY <1>12, SessionSet DEF SetSaved, BInv, Serving, TypeOK, Requested
  <2>2. Rsp("set", 0, Nothing) \in Rsps /\ Rsp("set", 0, Nothing).op = "set"
    BY <1>2 DEF Ops
  <2>3. Follows(Rsp("set", 0, Nothing)) /\ buffers' \subseteq Addrs
        /\ mem' \in [buffers' -> [Pieces -> Values]]
    BY <1>4, <1>9, <2>1, <2>2
  <2> QED BY <1>1, <2>1, <2>2, <2>3, AnswerKeeps
<1>13. CASE ServeFree
  <2>1. buffers' = buffers \ {Arg.a} /\ mem' \in [buffers' -> [Pieces -> Values]]
    BY <1>1, <1>13 DEF ServeFree, buffers
  <2>2. Follows(Rsp("free", 0, Nothing))
    BY <2>1 DEF Follows, Rsp, Arg
  <2> QED BY <1>1, <1>2, <1>13, <2>1, <2>2, AnswerKeeps DEF ServeFree, Ops
<1> QED BY <1>5, <1>6, <1>7, <1>8, <1>10, <1>11, <1>12, <1>13

\* The handlers that write what they compute from the buffers.
LEMMA ServesWriteKeep ==
  ASSUME BInv, ServeHit \/ ServeCopy \/ ServeGraph
  PROVE  BInv'
<1>1. /\ buffers \subseteq Addrs /\ mem \in [buffers -> [Pieces -> Values]]
      /\ cached \in Files
      /\ \A a \in buffers : mem[a] \in [Pieces -> Values]
  BY DEF BInv, TypeOK, Files
<1>2. PICK op \in {"hash", "copy", "graph"}, n \in {0, 1}, a \in buffers,
           d \in [Pieces -> Values] :
        /\ spc = "recv" /\ Requested(op) /\ mem' = [mem EXCEPT ![a] = d] /\ cached' = cached
        /\ Answer(Rsp(op, n, Nothing))
  <2>1. CASE ServeHit
    <3> DEFINE e == Over(mem[Arg.a], File)
    <3>1. Arg.a \in buffers /\ Requested("hash")
      BY <2>1 DEF ServeHit, Known
    <3>2. Hash[Arg.v] \in Hashes
      BY <3>1, HashedIsBig DEF Hashes
    <3>3. File.data \in Values
      BY <1>1, <3>2 DEF File, Files
    <3>4. e \in [Pieces -> Values]
      BY <1>1, <3>1, <3>3 DEF Over
    <3>5. mem' = [mem EXCEPT ![Arg.a] = e]
      BY <1>1, <2>1, <3>1 DEF ServeHit
    <3> HIDE DEF e
    <3> QED BY <2>1, <3>1, <3>4, <3>5 DEF ServeHit
  <2>2. CASE ServeCopy
    BY <1>1, <2>2 DEF ServeCopy, Known
  <2>3. CASE ServeGraph
    <3> DEFINE e == [k \in Pieces |-> Operate(mem[Arg.a][k])]
    <3>1. Arg.a \in buffers /\ Arg.b \in buffers
      BY <2>3 DEF ServeGraph, Known
    <3>2. \A v \in Values : Operate(v) \in Values
      BY RpcAssumption DEF Operate, Values
    <3>3. e \in [Pieces -> Values]
      BY <1>1, <3>1, <3>2
    <3>4. mem' = [mem EXCEPT ![Arg.b] = e]
      BY <2>3 DEF ServeGraph
    <3> HIDE DEF e
    <3> QED BY <2>3, <3>1, <3>3, <3>4 DEF ServeGraph
  <2> QED BY <2>1, <2>2, <2>3
<1> DEFINE m == Rsp(op, n, Nothing)
<1>3. m \in Rsps /\ m.op = op
  BY Constants DEF Ops
<1>4. buffers' = buffers /\ mem' \in [buffers' -> [Pieces -> Values]]
  BY <1>1, <1>2 DEF buffers
<1>5. Follows(m)
  BY <1>3, <1>4 DEF Follows
<1>6. m.op # "none" /\ Requested(m.op) /\ Answer(m)
  BY <1>2, <1>3
<1> HIDE DEF m
<1> QED BY <1>1, <1>2, <1>3, <1>4, <1>5, <1>6, AnswerKeeps

LEMMA ServeAllocKeeps ==
  ASSUME BInv, ServeAlloc
  PROVE  BInv'
<1>1. /\ buffers \subseteq Addrs /\ mem \in [buffers -> [Pieces -> Values]]
      /\ cached \in Files
  BY DEF BInv, TypeOK, Files
<1>2. \A a \in Addrs \cup {0} : /\ Rsp("alloc", a, Nothing) \in Rsps
                                /\ Rsp("alloc", a, Nothing).op = "alloc"
                                /\ Rsp("alloc", a, Nothing).n = a
  BY Constants, RpcAssumption DEF Ops
<1>3. PICK a \in Addrs \cup {0} :
        /\ spc = "recv" /\ Requested("alloc") /\ cached' = cached
        /\ Answer(Rsp("alloc", a, Nothing))
        /\ \/ /\ a \in Addrs \ buffers
              /\ \E c \in [Pieces -> Values] :
                   mem' = [x \in buffers \cup {a} |-> IF x = a THEN c ELSE mem[x]]
           \/ a = 0 /\ mem' = mem
  BY DEF ServeAlloc
<1> DEFINE m == Rsp("alloc", a, Nothing)
<1>4. m \in Rsps /\ m.op = "alloc" /\ m.n = a
  BY <1>2
<1>5. /\ buffers' \subseteq Addrs /\ mem' \in [buffers' -> [Pieces -> Values]]
      /\ \/ a = 0 /\ buffers' = buffers
         \/ a \notin buffers /\ buffers' = buffers \cup {a}
  <2>1. CASE a = 0 /\ mem' = mem
    <3>1. buffers' = buffers
      BY <2>1 DEF buffers
    <3> QED BY <1>1, <2>1, <3>1
  <2>2. ASSUME a \in Addrs \ buffers, NEW c \in [Pieces -> Values],
               mem' = [x \in buffers \cup {a} |-> IF x = a THEN c ELSE mem[x]]
        PROVE  <1>5
    <3>1. buffers' = buffers \cup {a}
      BY <2>2 DEF buffers
    <3> QED BY <1>1, <2>2, <3>1
  <2> QED BY <1>3, <2>1, <2>2
<1>6. Follows(m)
  BY <1>4, <1>5 DEF Follows
<1>7. Requested(m.op) /\ Answer(m)
  BY <1>3, <1>4
<1> HIDE DEF m
<1> QED BY <1>1, <1>3, <1>4, <1>5, <1>6, <1>7, AnswerKeeps

\* The steps that write the file of a tensor.
LEMMA SaveKeeps ==
  ASSUME BInv, OpenFile \/ SavePiece
  PROVE  BInv'
<1>1. /\ TypeOK /\ WireTypes /\ InCall /\ Serving /\ Responses /\ Requests /\ Agree
  BY DEF BInv
<1>2. /\ cpc' = cpc /\ call' = call /\ using' = using /\ sock' = sock /\ ctx' = ctx
      /\ owner' = owner /\ cl' = cl /\ sv' = sv /\ req' = req /\ rsp' = rsp
      /\ cur' = cur /\ mem' = mem /\ caching' = caching /\ spc' = "saving"
      /\ spc \in {"recv", "saving"}
  BY DEF OpenFile, SavePiece, procVars, sessVars, wireVars, servVars
<1>3. cached' \in Files
  <2> DEFINE L == {Absent} \cup 0 .. NumPieces
             h == Hash[Arg.v]
  <2>1. Arg.v \in Values
    <3>1. Requested("set")
      BY <1>1, SessionSet DEF Serving, OpenFile, SavePiece, Requested
    <3> QED BY <3>1, Asked DEF Arg, Reqs
  <2>2. /\ cached \in [Hashes -> [data : Values, len : L]]
        /\ 0 \in L /\ \A n \in L : n < NumPieces => n + 1 \in L
    BY <1>1, RpcAssumption DEF TypeOK, Absent
  <2>3. CASE cached' = [cached EXCEPT ![h] = [data |-> Arg.v, len |-> 0]]
    <3> HIDE DEF L, h
    <3>1. cached' \in [Hashes -> [data : Values, len : L]]
      BY <2>1, <2>2, <2>3
    <3> QED BY <3>1 DEF L, Files
  <2>4. CASE cached[h].len < NumPieces /\ cached' = [cached EXCEPT ![h].len = @ + 1]
    <3> HIDE DEF L, h
    <3>1. h \in Hashes => cached[h].data \in Values /\ cached[h].len + 1 \in L
      BY <2>2, <2>4
    <3>2. cached' = [cached EXCEPT ![h] = [data |-> cached[h].data, len |-> cached[h].len + 1]]
      <4>1. h \in Hashes => [cached[h] EXCEPT !.len = @ + 1]
                              = [data |-> cached[h].data, len |-> cached[h].len + 1]
        BY <2>2
      <4> QED BY <2>2, <2>4, <4>1
    <3>3. cached' \in [Hashes -> [data : Values, len : L]]
      BY <2>2, <3>1, <3>2
    <3> QED BY <3>3 DEF L, Files
  <2> QED BY <2>3, <2>4 DEF OpenFile, SavePiece
<1>4. Sessions' = Sessions /\ buffers' = buffers
  BY <1>2 DEF Sessions, buffers
<1>5. TypeOK' /\ WireTypes'
  BY <1>1, <1>2, <1>3, <1>4 DEF TypeOK, WireTypes, Files
<1>6. InCall' /\ Responses'
  BY <1>1, <1>2, <1>4 DEF InCall, Responses, Waiting, Ready
<1>7. Serving'
  <2>1. req[cur].op = "set"
    BY <1>1 DEF Serving, OpenFile, SavePiece, Requested
  <2>2. \A t \in Sessions : New(t)' => New(t)
    BY <1>2 DEF New
  <2> QED BY <1>1, <1>2, <1>4, <2>1, <2>2 DEF Serving
<1>8. Requests' /\ Agree'
  BY <1>1, <1>2, Untouched
<1> QED BY <1>5, <1>6, <1>7, <1>8 DEF BInv

\* The server closes its ends of sessions and frees the buffers it has.
LEMMA LeaveKeeps ==
  ASSUME BInv, EndSession \/ Down \/ Restart
  PROVE  BInv'
<1>1. /\ TypeOK /\ WireTypes /\ InCall /\ Serving /\ Responses /\ Requests /\ Agree
  BY DEF BInv
<1>2. /\ cpc' = cpc /\ call' = call /\ using' = using /\ sock' = sock /\ ctx' = ctx
      /\ owner' = owner /\ cl' = cl /\ req' = req /\ rsp' = rsp /\ cached' = cached
      /\ caching' \in BOOLEAN /\ spc' \in {"accept", "down"}
      /\ sv' \in {sv, [sv EXCEPT ![cur] = "closed"], [s \in Sessions |-> "closed"]}
  BY <1>1 DEF EndSession, Down, Restart, procVars, sessVars, wireVars, TypeOK
<1>3. cur' = 0 /\ mem' = <<>>
  <2>1. CASE Restart
    <3>1. cur = 0 /\ DOMAIN mem = {} /\ mem \in [buffers -> [Pieces -> Values]]
      BY <1>1, <2>1 DEF Restart, Serving, TypeOK, buffers
    <3> QED BY <2>1, <3>1 DEF Restart, buffers
  <2> QED BY <2>1 DEF EndSession, Down
<1>4. Sessions' = Sessions /\ buffers' = {}
  BY <1>2, <1>3 DEF Sessions, buffers
<1>5. sv' \in [Sessions -> {"queued", "served", "closed"}]
  BY <1>1, <1>2 DEF TypeOK
<1>6. \A t \in Sessions : sv'[t] # "served" /\ (New(t)' => New(t))
  <2>1. CASE EndSession
    BY <1>1, <1>2, <2>1 DEF EndSession, New, Serving, TypeOK
  <2>2. CASE Down
    BY <2>2 DEF Down, New
  <2>3. CASE Restart
    BY <1>1, <2>3, SessionSet DEF Restart, sessVars, New, Serving
  <2> QED BY <2>1, <2>2, <2>3
<1>7. TypeOK'
  <2>1. mem' \in [buffers' -> [Pieces -> Values]] /\ buffers' \subseteq Addrs
    BY <1>3, <1>4
  <2> QED BY <1>1, <1>2, <1>3, <1>4, <1>5, <2>1 DEF TypeOK
<1>8. WireTypes' /\ InCall' /\ Responses'
  BY <1>1, <1>2, <1>4 DEF WireTypes, InCall, Responses, Waiting, Ready
<1>9. Serving'
  BY <1>1, <1>2, <1>3, <1>4, <1>6 DEF Serving
<1>10. Requests' /\ Agree'
  BY <1>3 DEF Requests, Agree
<1> QED BY <1>7, <1>8, <1>9, <1>10 DEF BInv

LEMMA ServerKeeps ==
  ASSUME BInv, ServerStep \/ Kill \/ Restart
  PROVE  BInv'
<1>1. CASE Accept
  BY <1>1, AcceptKeeps
<1>2. CASE \/ ServeHello \/ ServeQuery \/ ServeFree \/ ServeClear \/ ServeSet
           \/ SetSaved \/ ServeMiss \/ ServeGet
  BY <1>2, ServesKeep
<1>3. CASE ServeHit \/ ServeCopy \/ ServeGraph
  BY <1>3, ServesWriteKeep
<1>4. CASE ServeAlloc
  BY <1>4, ServeAllocKeeps
<1>5. CASE OpenFile \/ SavePiece
  BY <1>5, SaveKeeps
<1>6. CASE EndSession \/ BrokenPipe \/ Kill \/ Restart
  BY <1>6, LeaveKeeps DEF BrokenPipe, Kill
<1> QED BY <1>1, <1>2, <1>3, <1>4, <1>5, <1>6 DEF ServerStep

-----------------------------------------------------------------------------

LEMMA BInvStep == RInv /\ BInv /\ [Next]_vars => BInv'
<1> SUFFICES ASSUME RInv, BInv, [Next]_vars PROVE BInv'
  OBVIOUS
<1>1. CASE UNCHANGED vars
  <2>1. /\ cpc' = cpc /\ call' = call /\ using' = using /\ sock' = sock /\ ctx' = ctx
        /\ owner' = owner /\ cl' = cl /\ sv' = sv /\ req' = req /\ rsp' = rsp
        /\ spc' = spc /\ cur' = cur /\ mem' = mem /\ caching' = caching /\ cached' = cached
    BY <1>1 DEF vars, procVars, sessVars, wireVars, servVars
  <2>2. Sessions' = Sessions /\ buffers' = buffers /\ \A t : New(t)' <=> New(t)
    BY <2>1 DEF Sessions, buffers, New
  <2>3. TypeOK' /\ WireTypes'
    BY <2>1, <2>2 DEF BInv, TypeOK, WireTypes
  <2>4. InCall' /\ Responses' /\ Serving'
    BY <2>1, <2>2 DEF BInv, InCall, Responses, Serving, Waiting, Ready
  <2>5. Requests' /\ Agree'
    BY <2>1, Untouched DEF BInv
  <2> QED BY <2>3, <2>4, <2>5 DEF BInv
<1>2. CASE ServerStep \/ Kill \/ Restart
  BY <1>2, ServerKeeps
<1>3. ASSUME NEW p \in Procs, SendRequest(p) \/ Connect(p)
      PROVE  BInv'
  BY <1>3, SendRequestKeeps, ConnectKeeps
<1>4. ASSUME NEW p \in Procs, ClientStep(p)
      PROVE  BInv'
  <2>1. CASE ReceiveHello(p)
    BY <2>1, ReceiveHelloKeeps
  <2>2. CASE ReceiveMiss(p)
    BY <2>2, ReceiveMissKeeps
  <2>3. CASE ReceiveDone(p) \/ ReceiveHit(p) \/ ReturnFailed(p)
    BY <2>3, ReturnsKeep
  <2>4. CASE ReceiveAlloc(p)
    BY <2>4, ReceiveAllocKeeps
  <2>5. CASE ReceiveFree(p)
    BY <2>5, ReceiveFreeKeeps
  <2>6. CASE Abort(p)
    BY <2>6, EndKeeps DEF Abort
  <2> QED BY <1>4, <2>1, <2>2, <2>3, <2>4, <2>5, <2>6 DEF ClientStep
<1>5. ASSUME NEW p \in Procs, ConnectRefused(p) \/ Die(p)
      PROVE  BInv'
  BY <1>5, EndKeeps DEF ConnectRefused, Die
<1> QED BY <1>1, <1>2, <1>3, <1>4, <1>5 DEF Next

LEMMA Invariance == Spec => [](RInv /\ BInv)
BY InitRInv, InitBInv, RInvStep, BInvStep, PTL DEF Spec

\* Every variable keeps its type: no address other than the allocator's, no
\* session that was not made and no call the program does not make ever gets
\* into the state of the two ends.
THEOREM RpcType == Spec => []TypeOK
<1>1. BInv => TypeOK
  BY DEF BInv
<1> QED BY Invariance, <1>1, PTL

\* ggml_backend_rpc_buffer_context::remote_ptr and rpc_server::buffers agree:
\* between two requests the server has just the buffers the process knows of,
\* whatever calls, failures, restarts and other processes have been there.
THEOREM BuffersAgree == Spec => []SameBuffers
<1>1. BInv => SameBuffers
  <2> SUFFICES ASSUME BInv, cur # 0, cl[cur] = "open"
               PROVE  LET p == owner[cur]
                      IN  /\ \A i, j \in Slots :
                               ctx[p][i].sess = cur /\ ctx[p][i] = ctx[p][j] => i = j
                          /\ rsp[cur] = NoRsp => Pointers(p) = buffers
                          /\ call[p].op \notin {"alloc", "free"} => Pointers(p) = buffers
    BY DEF SameBuffers
  <2> DEFINE p == owner[cur]
  <2>1. cur \in Sessions
    BY DEF BInv, TypeOK
  <2>2. rsp[cur] = NoRsp => Pointers(p) = buffers
    BY Constants DEF BInv, Agree
  <2>3. rsp[cur] # NoRsp /\ call[p].op \notin {"alloc", "free"}
          => rsp[cur].op \notin {"alloc", "free"}
    BY <2>1 DEF BInv, Responses, Waiting
  <2> QED BY <2>2, <2>3 DEF BInv, Agree
<1> QED BY Invariance, <1>1, PTL

-----------------------------------------------------------------------------
(* Remote buffers as private memory.                                         *)

\* The state of the memory that Rpc stands for: what is behind slot i of
\* process p, and the call that p is in.
At(p, i) ==
  LET b == Place(p, i)
  IN  IF cur # 0 /\ b.sess = cur /\ b.ptr \in buffers THEN mem[b.ptr] ELSE Nothing
Job(p) ==
  IF Answered(p) THEN [op |-> "done", data |-> rsp[using[p]].data] ELSE call[p]

Store == [p \in Procs |-> [i \in Slots |-> At(p, i)]]
Jobs  == [p \in Procs |-> Job(p)]

Done(d) == [op |-> "done", data |-> d]
Empty   == [i \in Slots |-> Nothing]

-----------------------------------------------------------------------------
(* The steps of RemoteMemory in terms of At and Job.                         *)

LEMMA MemoryIs ==
  /\ Memory!Init <=> Store = [p \in Procs |-> Empty] /\ Jobs = [p \in Procs |-> NoCall]
  /\ \A p \in Procs :
       /\ Memory!Begin(p) <=> /\ Jobs[p] = NoCall /\ Store' = Store
                              /\ \E c \in Calls : Jobs' = [Jobs EXCEPT ![p] = c]
       /\ Memory!Return(p) <=> /\ Jobs[p].op = "done" /\ Store' = Store
                               /\ Jobs' = [Jobs EXCEPT ![p] = NoCall]
       /\ Memory!Lose(p) <=> /\ Store' = [Store EXCEPT ![p] = Empty]
                             /\ Jobs' \in {Jobs, [Jobs EXCEPT ![p] = NoCall]}
<1>1. Memory!Init <=> Store = [p \in Procs |-> Empty] /\ Jobs = [p \in Procs |-> NoCall]
  BY DEF Memory!Init, Store, Jobs, At, Job, Empty
<1>2. ASSUME NEW p \in Procs
      PROVE  Memory!Begin(p) <=> /\ Jobs[p] = NoCall /\ Store' = Store
                                 /\ \E c \in Calls : Jobs' = [Jobs EXCEPT ![p] = c]
  BY DEF Memory!Begin, Memory!Turn, Store, Jobs, At, Job
<1>3. ASSUME NEW p \in Procs
      PROVE  Memory!Return(p) <=> /\ Jobs[p].op = "done" /\ Store' = Store
                                  /\ Jobs' = [Jobs EXCEPT ![p] = NoCall]
  BY DEF Memory!Return, Memory!Turn, Store, Jobs, At, Job
<1>4. ASSUME NEW p \in Procs
      PROVE  Memory!Lose(p) <=> /\ Store' = [Store EXCEPT ![p] = Empty]
                                /\ Jobs' \in {Jobs, [Jobs EXCEPT ![p] = NoCall]}
  BY DEF Memory!Lose, Store, Jobs, At, Job, Empty
<1> QED BY <1>1, <1>2, <1>3, <1>4

\* A call of process p that puts d into the buffer behind slot k.
LEMMA PerformIs ==
  ASSUME NEW p \in Procs
  PROVE  LET c == Jobs[p]
             Put(k, d) == Store' = [Store EXCEPT ![p][k] = d]
             Turn(x) == Jobs' = [Jobs EXCEPT ![p] = x]
             Has(k) == Store[p][k] # Nothing
         IN  /\ c.op = "query" /\ Store' = Store /\ Turn(Done(Nothing)) => Memory!Perform(p)
             /\ c.op = "alloc" /\ Store' = Store /\ Turn(Done(Nothing)) => Memory!Perform(p)
             /\ \A d \in [Pieces -> Values] :
                  c.op = "alloc" /\ Put(c.i, d) /\ Turn(Done(Nothing)) => Memory!Perform(p)
             /\ /\ c.op = "free" /\ Has(c.i) /\ Put(c.i, Nothing) /\ Turn(Done(Nothing))
                => Memory!Perform(p)
             /\ c.op = "clear" /\ Has(c.i) /\ Put(c.i, Whole(c.v)) /\ Turn(Done(Nothing))
                => Memory!Perform(p)
             /\ \A d \in Outcomes(Store[p][c.i], c.v) :
                  c.op = "set" /\ Has(c.i) /\ Put(c.i, d) /\ Turn(Done(Nothing))
                  => Memory!Perform(p)
             /\ c.op = "get" /\ Has(c.i) /\ Store' = Store /\ Turn(Done(Store[p][c.i]))
                => Memory!Perform(p)
             /\ /\ c.op = "copy" /\ Has(c.i) /\ Has(c.j) /\ Put(c.j, Store[p][c.i])
                /\ Turn(Done(Nothing))
                => Memory!Perform(p)
             /\ /\ c.op = "graph" /\ Has(c.i) /\ Has(c.j)
                /\ Put(c.j, [k \in Pieces |-> Operate(Store[p][c.i][k])])
                /\ Turn(Done(Nothing))
                => Memory!Perform(p)
<1> USE DEF Memory!Perform, Memory!Turn, Memory!Put, Memory!Has, Memory!Done,
        Memory!Whole, Memory!Content, Store, Jobs, At, Job, Done, Whole
<1> QED OBVIOUS

LEMMA SomethingThere ==
  ASSUME NEW d \in [Pieces -> Values]
  PROVE  d # Nothing
<1>1. 1 \in Pieces
  BY RpcAssumption DEF Pieces
<1>2. DOMAIN d = Pieces /\ DOMAIN Nothing = {}
  BY DEF Nothing
<1> QED BY <1>1, <1>2

\* A step that concerns process p only.
LEMMA OneMoves ==
  ASSUME NEW p \in Procs,
         \A q \in Procs \ {p} : (\A i \in Slots : At(q, i)' = At(q, i)) /\ Job(q)' = Job(q)
  PROVE  /\ Jobs' = [Jobs EXCEPT ![p] = Job(p)']
         /\ Job(p)' = Job(p) => Jobs' = Jobs
         /\ (\A i \in Slots : At(p, i)' = At(p, i)) => Store' = Store
         /\ (\A i \in Slots : At(p, i)' = Nothing) => Store' = [Store EXCEPT ![p] = Empty]
         /\ Jobs[p] = Job(p) /\ \A i \in Slots : Store[p][i] = At(p, i)
<1> USE DEF Store, Jobs
<1>1. Jobs' = [Jobs EXCEPT ![p] = Job(p)']
  OBVIOUS
<1>2. Job(p)' = Job(p) => Jobs' = Jobs
  OBVIOUS
<1>3. (\A i \in Slots : At(p, i)' = At(p, i)) => Store' = Store
  OBVIOUS
<1>4. (\A i \in Slots : At(p, i)' = Nothing) => Store' = [Store EXCEPT ![p] = Empty]
  BY DEF Empty
<1>5. Jobs[p] = Job(p) /\ \A i \in Slots : Store[p][i] = At(p, i)
  OBVIOUS
<1> QED BY <1>1, <1>2, <1>3, <1>4, <1>5

LEMMA OneWrites ==
  ASSUME NEW p \in Procs, NEW k \in Slots, NEW d,
         \A q \in Procs \ {p} : \A i \in Slots : At(q, i)' = At(q, i),
         \A i \in Slots : At(p, i)' = IF i = k THEN d ELSE At(p, i)
  PROVE  Store' = [Store EXCEPT ![p][k] = d]
BY DEF Store

\* What a process stands for depends on its own variables and its response.
LEMMA Same ==
  ASSUME NEW q \in Procs, cur' = cur, mem' = mem,
         cpc'[q] = cpc[q], call'[q] = call[q], using'[q] = using[q], ctx'[q] = ctx[q],
         Waiting(q) => rsp'[using[q]] = rsp[using[q]]
  PROVE  (\A i \in Slots : At(q, i)' = At(q, i)) /\ Job(q)' = Job(q)
<1>1. (\A op : Received(q, op)' <=> Received(q, op)) /\ (Answered(q)' <=> Answered(q))
  BY DEF Received, Answered, Waiting
<1>2. (\A op : Received(q, op) => rsp'[using[q]] = rsp[using[q]])
      /\ (Answered(q) => rsp'[using[q]] = rsp[using[q]])
  BY DEF Received, Answered, Waiting
<1>3. Job(q)' = Job(q)
  BY <1>1, <1>2 DEF Job
<1>4. \A i \in Slots : Place(q, i)' = Place(q, i)
  BY <1>1, <1>2 DEF Place
<1> QED BY <1>3, <1>4 DEF At, buffers

\* Only the process of the session that is served has buffers.
OthersEmpty ==
  \A q \in Procs : cur = 0 \/ cl[cur] = "closed" \/ q # owner[cur]
                     => \A i \in Slots : At(q, i) = Nothing

LEMMA OthersAreEmpty == RInv /\ BInv => OthersEmpty
<1> SUFFICES ASSUME RInv, BInv, NEW q \in Procs, NEW i \in Slots,
                    cur = 0 \/ cl[cur] = "closed" \/ q # owner[cur],
                    cur # 0, Place(q, i).sess = cur
             PROVE  FALSE
  BY DEF OthersEmpty, At
<1>1. TypeOK /\ InCall
  BY DEF BInv
<1>2. CASE Received(q, "alloc") /\ call[q].i = i
  BY <1>1, <1>2 DEF Place, InCall, Waiting, Received
<1>3. CASE ~(Received(q, "alloc") /\ call[q].i = i)
  <2>1. ctx[q][i].sess = cur
    BY <1>3 DEF Place
  <2>2. ctx[q][i] # NoCtx
    BY <2>1 DEF NoCtx
  <2> QED BY <1>1, <2>1, <2>2 DEF InCall
<1> QED BY <1>2, <1>3

\* The slots of a process that waits for an answer or for nothing.
LEMMA SlotsOfServed ==
  ASSUME RInv, BInv, cur # 0, cl[cur] = "open", rsp[cur].op \notin {"alloc", "free"},
         NEW i \in Slots
  PROVE  LET p == owner[cur]
         IN  /\ ctx[p][i] # NoCtx => /\ ctx[p][i].sess = cur /\ ctx[p][i].ptr \in buffers
                                     /\ At(p, i) = mem[ctx[p][i].ptr]
             /\ ctx[p][i] = NoCtx => At(p, i) = Nothing
             /\ At(p, i) # Nothing <=> ctx[p][i] # NoCtx
             /\ \A j \in Slots :
                  ctx[p][i] # NoCtx /\ ctx[p][j] # NoCtx /\ ctx[p][i].ptr = ctx[p][j].ptr => i = j
<1> DEFINE p == owner[cur]
<1>1. TypeOK /\ InCall /\ Agree
  BY DEF BInv
<1>2. cur \in Sessions /\ p \in Procs
  BY <1>1, SessionSet DEF TypeOK
<1>3. \A j \in Slots : ctx[p][j] # NoCtx => ctx[p][j].sess = cur
  BY <1>1, <1>2, TheSession
<1>4. buffers = Pointers(p)
  BY <1>1 DEF Agree
<1>5. ctx[p][i] # NoCtx => ctx[p][i].sess = cur /\ ctx[p][i].ptr \in buffers
  BY <1>3, <1>4 DEF Pointers
<1>6. Place(p, i) = ctx[p][i]
  <2>1. ~Received(p, "alloc")
    <3> SUFFICES ASSUME Received(p, "alloc") PROVE FALSE
      OBVIOUS
    <3>1. using[p] = cur
      BY <1>1, <1>2, TheSession DEF Received, Waiting
    <3> QED BY <3>1 DEF Received
  <2> QED BY <2>1 DEF Place
<1>7. /\ ctx[p][i] # NoCtx => At(p, i) = mem[ctx[p][i].ptr]
      /\ ctx[p][i] = NoCtx => At(p, i) = Nothing
  BY <1>5, <1>6 DEF At, NoCtx
<1>8. ctx[p][i] # NoCtx => mem[ctx[p][i].ptr] \in [Pieces -> Values]
  BY <1>1, <1>5 DEF TypeOK
<1>9. ASSUME NEW j \in Slots, ctx[p][i] # NoCtx, ctx[p][j] # NoCtx,
             ctx[p][i].ptr = ctx[p][j].ptr
      PROVE  i = j
  <2>1. ctx[p][i].sess = cur /\ ctx[p][j].sess = cur
    BY <1>3, <1>9
  <2>2. /\ ctx[p][i] \in [sess : Sessions, ptr : Addrs] \cup {NoCtx}
        /\ ctx[p][j] \in [sess : Sessions, ptr : Addrs] \cup {NoCtx}
    BY <1>1, <1>2 DEF TypeOK
  <2>3. ctx[p][i] = ctx[p][j]
    BY <1>9, <2>1, <2>2
  <2> QED BY <1>1, <2>1, <2>3 DEF Agree
<1>10. At(p, i) # Nothing <=> ctx[p][i] # NoCtx
  BY <1>7, <1>8, SomethingThere
<1>11. \A j \in Slots :
                  ctx[p][i] # NoCtx /\ ctx[p][j] # NoCtx /\ ctx[p][i].ptr = ctx[p][j].ptr => i = j
  BY <1>9
<1> QED BY <1>5, <1>7, <1>10, <1>11

-----------------------------------------------------------------------------
(* The steps of the processes.                                               *)

LEMMA PlainStays ==
  ASSUME NEW p \in Procs, cur' = cur, mem' = mem, ctx'[p] = ctx[p],
         ~Received(p, "alloc"), ~Received(p, "alloc")'
  PROVE  \A i \in Slots : At(p, i)' = At(p, i)
<1>1. \A i \in Slots : Place(p, i)' = ctx[p][i] /\ Place(p, i) = ctx[p][i]
  BY DEF Place
<1> QED BY <1>1 DEF At, buffers

\* A call begins.
LEMMA BeginMaps ==
  ASSUME RInv, BInv, NEW p \in Procs, NEW c \in Calls, cpc[p] = "idle",
         cpc' = [cpc EXCEPT ![p] = "wait"] \/ cpc' = [cpc EXCEPT ![p] = "hello"],
         call' = [call EXCEPT ![p] = c], ctx' = ctx, cur' = cur, mem' = mem,
         rsp'[using'[p]] = NoRsp,
         \A q \in Procs \ {p} : using'[q] = using[q],
         \A s \in Sessions : rsp'[s] = rsp[s]
  PROVE  Memory!Begin(p)
<1>1. TypeOK /\ InCall
  BY DEF BInv
<1>2. /\ call[p] = NoCall /\ cpc'[p] \in {"hello", "wait"} /\ call'[p] = c
      /\ \A q \in Procs \ {p} : cpc'[q] = cpc[q] /\ call'[q] = call[q]
  BY <1>1 DEF InCall, Waiting, TypeOK
<1>3. /\ ~Received(p, "alloc") /\ ~Answered(p)
      /\ ~Received(p, "alloc")' /\ ~Answered(p)'
  BY Constants DEF Received, Answered
<1>4. Job(p) = NoCall /\ Job(p)' = c
  BY <1>2, <1>3 DEF Job
<1>5. \A i \in Slots : At(p, i)' = At(p, i)
  BY <1>3, PlainStays
<1>6. ASSUME NEW q \in Procs \ {p}
      PROVE  (\A i \in Slots : At(q, i)' = At(q, i)) /\ Job(q)' = Job(q)
  <2>1. Waiting(q) => rsp'[using[q]] = rsp[using[q]]
    BY <1>1 DEF InCall
  <2> QED BY <1>2, <2>1, Same
<1>7. Jobs' = [Jobs EXCEPT ![p] = Job(p)'] /\ Store' = Store /\ Jobs[p] = Job(p)
  BY <1>5, <1>6, OneMoves
<1> QED BY <1>4, <1>7, MemoryIs

\* The session of a call that uses the connection there is.
LEMMA Sends ==
  ASSUME RInv, BInv, NEW p \in Procs, SendRequest(p)
  PROVE  \E c \in Calls, s \in Sessions :
           /\ cl[s] = "open" /\ owner[s] = p /\ cpc[p] = "idle" /\ rsp[s] = NoRsp
           /\ cpc' = [cpc EXCEPT ![p] = "wait"] /\ call' = [call EXCEPT ![p] = c]
           /\ using' = [using EXCEPT ![p] = s] /\ req' = [req EXCEPT ![s] = Request(p, c)]
           /\ sock' = sock /\ ctx' = ctx /\ rsp' = rsp
           /\ UNCHANGED <<sessVars, servVars, cached>>
<1>1. TypeOK /\ InCall /\ Responses
  BY DEF BInv
<1>2. PICK c \in Calls :
        LET s == IF c.op \in ViaEndpoint THEN sock[p] ELSE ctx[p][c.i].sess
        IN  /\ cpc[p] = "idle" /\ Ready(p, c)
            /\ c.op \in ViaEndpoint => Alive(sock[p])
            /\ Begin(p, c, s, "wait")
            /\ req' = [req EXCEPT ![s] = Request(p, c)]
            /\ UNCHANGED <<sessVars, rsp, servVars, cached>>
  BY DEF SendRequest
<1> DEFINE s == IF c.op \in ViaEndpoint THEN sock[p] ELSE ctx[p][c.i].sess
<1>3. s \in Sessions /\ cl[s] = "open" /\ owner[s] = p
  <2>1. CASE c.op \in ViaEndpoint
    <3>1. sock[p] # 0 /\ cl[sock[p]] = "open" /\ sock[p] \in Sessions
      BY <1>1, <1>2, <2>1 DEF Alive, TypeOK
    <3> QED BY <1>1, <2>1, <3>1 DEF InCall
  <2>2. CASE c.op \notin ViaEndpoint
    <3>1. c.i \in Slots /\ ctx[p][c.i] # NoCtx
      BY <1>2, <2>2, CallFacts DEF Ready, ViaEndpoint
    <3> QED BY <1>1, <2>2, <3>1, CtxFacts DEF InCall
  <2> QED BY <2>1, <2>2
<1>4. /\ cpc[p] = "idle"
      /\ cpc' = [cpc EXCEPT ![p] = "wait"] /\ call' = [call EXCEPT ![p] = c]
      /\ using' = [using EXCEPT ![p] = s] /\ sock' = sock /\ ctx' = ctx
      /\ req' = [req EXCEPT ![s] = Request(p, c)]
      /\ rsp' = rsp /\ UNCHANGED <<sessVars, servVars, cached>>
  BY <1>2 DEF Begin
<1> HIDE DEF s
<1>5. rsp[s] = NoRsp
  BY <1>1, <1>3, <1>4 DEF Responses, Waiting
<1> QED BY <1>3, <1>4, <1>5

LEMMA SendRequestMaps ==
  ASSUME RInv, BInv, NEW p \in Procs, SendRequest(p)
  PROVE  Memory!Begin(p)
<1>1. PICK c \in Calls, s \in Sessions :
        /\ cpc[p] = "idle" /\ rsp[s] = NoRsp
        /\ cpc' = [cpc EXCEPT ![p] = "wait"] /\ call' = [call EXCEPT ![p] = c]
        /\ using' = [using EXCEPT ![p] = s]
        /\ ctx' = ctx /\ rsp' = rsp /\ UNCHANGED servVars
  BY Sends
<1>2. using'[p] = s /\ \A q \in Procs \ {p} : using'[q] = using[q]
  BY <1>1 DEF BInv, TypeOK
<1>3. cur' = cur /\ mem' = mem
  BY <1>1 DEF servVars
<1> QED BY <1>1, <1>2, <1>3, BeginMaps

LEMMA ConnectMaps ==
  ASSUME RInv, BInv, NEW p \in Procs, Connect(p)
  PROVE  Memory!Begin(p)
<1> DEFINE s == Cardinality(Sessions) + 1
<1>1. PICK c \in Calls :
        /\ cpc[p] = "idle" /\ Begin(p, c, s, "hello") /\ rsp' = Append(rsp, NoRsp)
        /\ UNCHANGED servVars
  BY DEF Connect
<1>2. /\ cpc' = [cpc EXCEPT ![p] = "hello"] /\ call' = [call EXCEPT ![p] = c]
      /\ using' = [using EXCEPT ![p] = s] /\ ctx' = ctx /\ cur' = cur /\ mem' = mem
  BY <1>1 DEF Begin, servVars
<1>3. using'[p] = s /\ \A q \in Procs \ {p} : using'[q] = using[q]
  BY <1>2 DEF BInv, TypeOK
<1>4. rsp'[s] = NoRsp /\ \A t \in Sessions : rsp'[t] = rsp[t]
  <2> DEFINE n == Len(owner)
  <2>1. n \in Nat /\ Sessions = 1 .. n /\ s = n + 1
    BY SessionsFact, SessionSet DEF RInv, BInv
  <2> HIDE DEF s, n
  <2>2. rsp \in [1 .. n -> Rsps] /\ NoRsp \in Rsps
    BY <2>1, Constants DEF BInv, WireTypes
  <2>3. rsp \in Seq(Rsps) /\ Len(rsp) = n
    BY <2>1, <2>2, AsSeq
  <2>4. /\ Append(rsp, NoRsp)[Len(rsp) + 1] = NoRsp
        /\ \A i \in 1 .. Len(rsp) : Append(rsp, NoRsp)[i] = rsp[i]
    BY <2>2, <2>3, Grow
  <2> QED BY <1>1, <2>1, <2>3, <2>4
<1> HIDE DEF s
<1> QED BY <1>1, <1>2, <1>3, <1>4, BeginMaps

Stutters == Store' = Store /\ Jobs' = Jobs

\* A process in a call takes a response: the others see nothing of it.
LEMMA OthersKeep ==
  ASSUME RInv, BInv, NEW p \in Procs, Waiting(p), cur' = cur, mem' = mem,
         rsp' = [rsp EXCEPT ![using[p]] = NoRsp],
         \A q \in Procs \ {p} : /\ cpc'[q] = cpc[q] /\ call'[q] = call[q]
                                /\ using'[q] = using[q] /\ ctx'[q] = ctx[q],
         NEW q \in Procs \ {p}
  PROVE  (\A i \in Slots : At(q, i)' = At(q, i)) /\ Job(q)' = Job(q)
<1>1. TypeOK /\ InCall
  BY DEF BInv
<1>2. Waiting(q) => using[q] # using[p] /\ using[q] \in Sessions
  BY <1>1 DEF InCall
<1>3. Waiting(q) => rsp'[using[q]] = rsp[using[q]]
  BY <1>1, <1>2 DEF TypeOK
<1> QED BY <1>3, Same

\* The call goes on with its next request.
LEMMA GoOnStutters ==
  ASSUME RInv, BInv, NEW p \in Procs, ReceiveHello(p) \/ ReceiveMiss(p)
  PROVE  Stutters
<1>1. TypeOK /\ InCall
  BY DEF BInv
<1>2. /\ cur' = cur /\ mem' = mem /\ call' = call /\ using' = using /\ ctx' = ctx
      /\ rsp' = [rsp EXCEPT ![using[p]] = NoRsp] /\ Waiting(p)
      /\ \A q \in Procs \ {p} : cpc'[q] = cpc[q]
  BY <1>1 DEF ReceiveHello, ReceiveMiss, servVars, procVars, Received, Waiting, TypeOK
<1>3. rsp'[using[p]] = NoRsp
  BY <1>1, <1>2 DEF InCall, TypeOK
<1>4. /\ ~Received(p, "alloc") /\ ~Answered(p)
      /\ ~Received(p, "alloc")' /\ ~Answered(p)'
  BY <1>2, <1>3, Constants DEF ReceiveHello, ReceiveMiss, Received, Answered
<1>5. Job(p)' = Job(p) /\ \A i \in Slots : At(p, i)' = At(p, i)
  BY <1>2, <1>4, PlainStays DEF Job
<1>6. \A q \in Procs \ {p} : (\A i \in Slots : At(q, i)' = At(q, i)) /\ Job(q)' = Job(q)
  BY <1>2, OthersKeep
<1> QED BY <1>5, <1>6, OneMoves DEF Stutters

\* The call returns: the slots of the process were already what they will be.
LEMMA ReturnMaps ==
  ASSUME RInv, BInv, NEW p \in Procs, Answered(p), NEW newCtx, Return(p, newCtx),
         \A i \in Slots :
           LET b == newCtx[i]
           IN  At(p, i) = IF cur # 0 /\ b.sess = cur /\ b.ptr \in buffers
                          THEN mem[b.ptr] ELSE Nothing
  PROVE  Memory!Return(p)
<1>1. TypeOK /\ InCall /\ Waiting(p)
  BY DEF BInv, Answered, Waiting
<1>2. /\ cpc' = [cpc EXCEPT ![p] = "idle"] /\ call' = [call EXCEPT ![p] = NoCall]
      /\ using' = [using EXCEPT ![p] = 0] /\ ctx' = [ctx EXCEPT ![p] = newCtx]
      /\ rsp' = [rsp EXCEPT ![using[p]] = NoRsp] /\ cur' = cur /\ mem' = mem
  BY DEF Return, servVars
<1>3. /\ cpc'[p] = "idle" /\ call'[p] = NoCall /\ ctx'[p] = newCtx
      /\ \A q \in Procs \ {p} : /\ cpc'[q] = cpc[q] /\ call'[q] = call[q]
                                /\ using'[q] = using[q] /\ ctx'[q] = ctx[q]
  BY <1>1, <1>2 DEF TypeOK
<1>4. ~Received(p, "alloc")' /\ ~Answered(p)'
  BY <1>3 DEF Received, Answered
<1>5. Job(p).op = "done" /\ Job(p)' = NoCall
  BY <1>3, <1>4 DEF Job
<1>6. \A i \in Slots : At(p, i)' = At(p, i)
  <2>1. \A i \in Slots : Place(p, i)' = newCtx[i]
    BY <1>3, <1>4 DEF Place
  <2>2. buffers' = buffers
    BY <1>2 DEF buffers
  <2> QED BY <1>2, <2>1, <2>2 DEF At
<1>7. \A q \in Procs \ {p} : (\A i \in Slots : At(q, i)' = At(q, i)) /\ Job(q)' = Job(q)
  BY <1>1, <1>2, <1>3, OthersKeep
<1>8. Jobs' = [Jobs EXCEPT ![p] = Job(p)'] /\ Store' = Store /\ Jobs[p] = Job(p)
  BY <1>6, <1>7, OneMoves
<1> QED BY <1>5, <1>8, MemoryIs

LEMMA ReceiveMaps ==
  ASSUME RInv, BInv, NEW p \in Procs,
         ReceiveDone(p) \/ ReceiveHit(p) \/ ReceiveAlloc(p) \/ ReceiveFree(p)
  PROVE  Memory!Return(p)
<1>1. TypeOK /\ InCall /\ WireTypes
  BY DEF BInv
<1>2. CASE ReceiveDone(p) \/ ReceiveHit(p)
  <2>1. /\ Return(p, ctx[p]) /\ ~Received(p, "alloc") /\ Answered(p)
    BY <1>2, Constants DEF ReceiveDone, ReceiveHit, Received, Answered
  <2>2. \A i \in Slots : Place(p, i) = ctx[p][i]
    BY <2>1 DEF Place
  <2>3. \A i \in Slots :
          At(p, i) = IF cur # 0 /\ ctx[p][i].sess = cur /\ ctx[p][i].ptr \in buffers
                     THEN mem[ctx[p][i].ptr] ELSE Nothing
    BY <2>2 DEF At
  <2> QED BY <2>1, <2>3, ReturnMaps
<1>3. CASE ReceiveAlloc(p)
  <2> DEFINE n == rsp[using[p]].n
             c == IF n = 0 THEN NoCtx ELSE [sess |-> using[p], ptr |-> n]
             new == [ctx[p] EXCEPT ![call[p].i] = c]
  <2>1. Return(p, new) /\ Received(p, "alloc") /\ Answered(p) /\ cpc[p] = "wait"
    BY <1>3, Constants DEF ReceiveAlloc, Received, Answered
  <2>2. 0 \notin buffers
    BY <1>1, RpcAssumption DEF TypeOK
  <2>3. ASSUME NEW i \in Slots
        PROVE  At(p, i) = IF cur # 0 /\ new[i].sess = cur /\ new[i].ptr \in buffers
                          THEN mem[new[i].ptr] ELSE Nothing
    <3>1. CASE i = call[p].i
      <4>1. Place(p, i) = [sess |-> using[p], ptr |-> n]
        BY <2>1, <3>1 DEF Place
      <4>2. new[i] = c
        BY <1>1, <3>1 DEF TypeOK
      <4>3. CASE n = 0
        <5>1. At(p, i) = Nothing
          BY <2>2, <4>1, <4>3 DEF At
        <5>2. new[i].ptr = 0
          BY <4>2, <4>3 DEF NoCtx
        <5> HIDE DEF new
        <5> QED BY <2>2, <5>1, <5>2
      <4>4. CASE n # 0
        <5>1. new[i] = Place(p, i)
          BY <4>1, <4>2, <4>4
        <5> HIDE DEF new
        <5> QED BY <5>1 DEF At
      <4> QED BY <4>3, <4>4
    <3>2. CASE i # call[p].i
      <4>1. Place(p, i) = ctx[p][i] /\ new[i] = ctx[p][i]
        BY <1>1, <3>2 DEF Place, TypeOK
      <4> HIDE DEF new
      <4> QED BY <4>1 DEF At
    <3> QED BY <3>1, <3>2
  <2> HIDE DEF new
  <2> QED BY <2>1, <2>3, ReturnMaps
<1>4. CASE ReceiveFree(p)
  <2> DEFINE new == [ctx[p] EXCEPT ![call[p].i] = NoCtx]
             i == call[p].i
  <2>1. Return(p, new) /\ ~Received(p, "alloc") /\ Received(p, "free") /\ Answered(p)
    BY <1>4, Constants DEF ReceiveFree, Received, Answered
  <2>2. /\ using[p] \in Sessions /\ cl[using[p]] = "open" /\ owner[using[p]] = p
        /\ call[p].op = "free" /\ call[p] \in Calls /\ Ready(p, call[p]) /\ cpc[p] = "wait"
        /\ rsp[using[p]].op = "free"
        /\ \A k \in Slots : ctx[p][k] # NoCtx => ctx[p][k].sess = using[p]
    BY <2>1, Answers, Constants DEF Received
  <2>3. i \in Slots
    BY <2>2, CallFacts
  <2>4. At(p, i) = Nothing
    <3>1. Place(p, i) = ctx[p][i]
      BY <2>1 DEF Place
    <3> SUFFICES ASSUME cur # 0, ctx[p][i].sess = cur PROVE ctx[p][i].ptr \notin buffers
      BY <3>1 DEF At
    <3>2. using[p] = cur
      BY <2>2, <2>3 DEF NoCtx
    <3> QED BY <2>2, <3>2 DEF BInv, Agree
  <2>5. ASSUME NEW k \in Slots
        PROVE  At(p, k) = IF cur # 0 /\ new[k].sess = cur /\ new[k].ptr \in buffers
                          THEN mem[new[k].ptr] ELSE Nothing
    <3>1. CASE k = i
      <4>1. new[k] = NoCtx
        BY <1>1, <3>1 DEF TypeOK
      <4> HIDE DEF new, i
      <4> QED BY <2>4, <3>1, <4>1 DEF NoCtx
    <3>2. CASE k # i
      <4>1. Place(p, k) = ctx[p][k] /\ new[k] = ctx[p][k]
        BY <1>1, <2>1, <3>2 DEF Place, TypeOK
      <4> HIDE DEF new
      <4> QED BY <4>1 DEF At
    <3> QED BY <3>1, <3>2
  <2> HIDE DEF new
  <2> QED BY <2>1, <2>5, ReturnMaps
<1> QED BY <1>2, <1>3, <1>4

\* The process ends, or learns that the server has: its buffers are gone.
LEMMA LoseMaps ==
  ASSUME RInv, BInv, NEW p \in Procs, ReturnFailed(p) \/ End(p)
  PROVE  Memory!Lose(p)
<1>1. TypeOK /\ InCall /\ Serving
  BY DEF BInv
<1>2. CASE ReturnFailed(p)
  <2>1. /\ cpc[p] = "wait" /\ Waiting(p) /\ sv[using[p]] = "closed" /\ rsp[using[p]] = NoRsp
        /\ Return(p, ctx[p])
    BY <1>2 DEF ReturnFailed, Unanswered, Waiting
  <2>2. cpc' = [cpc EXCEPT ![p] = "idle"] /\ call' = [call EXCEPT ![p] = NoCall]
        /\ using' = [using EXCEPT ![p] = 0] /\ ctx' = [ctx EXCEPT ![p] = ctx[p]]
        /\ rsp' = [rsp EXCEPT ![using[p]] = NoRsp] /\ cur' = cur /\ mem' = mem
    BY <2>1 DEF Return, servVars
  <2>3. /\ cpc'[p] = "idle" /\ call'[p] = NoCall /\ ctx'[p] = ctx[p]
        /\ \A q \in Procs \ {p} : /\ cpc'[q] = cpc[q] /\ call'[q] = call[q]
                                  /\ using'[q] = using[q] /\ ctx'[q] = ctx[q]
    BY <1>1, <2>2 DEF TypeOK
  <2>4. ~Received(p, "alloc")' /\ ~Answered(p)' /\ ~Received(p, "alloc") /\ ~Answered(p)
    BY <2>1, <2>3, Constants DEF Received, Answered
  <2>5. Job(p)' = NoCall
    BY <2>3, <2>4 DEF Job
  <2>6. using[p] # cur \/ cur = 0
    BY <1>1, <2>1 DEF Serving
  <2>7. \A i \in Slots : cur = 0 \/ ctx[p][i].sess # cur
    BY <2>1, <2>6, Answers
  <2>8. \A i \in Slots : At(p, i)' = Nothing
    <3>1. \A i \in Slots : Place(p, i) = ctx[p][i]
      BY <2>4 DEF Place
    <3>2. \A i \in Slots : At(p, i) = Nothing
      BY <2>7, <3>1 DEF At
    <3> QED BY <2>2, <2>3, <2>4, <3>2, PlainStays
  <2>9. \A q \in Procs \ {p} : (\A i \in Slots : At(q, i)' = At(q, i)) /\ Job(q)' = Job(q)
    BY <2>1, <2>2, <2>3, OthersKeep
  <2>10. Jobs' = [Jobs EXCEPT ![p] = Job(p)'] /\ Store' = [Store EXCEPT ![p] = Empty]
    BY <2>8, <2>9, OneMoves
  <2> QED BY <2>5, <2>10, MemoryIs
<1>3. CASE End(p)
  <2>1. /\ cpc' = [cpc EXCEPT ![p] = "dead"] /\ call' = [call EXCEPT ![p] = NoCall]
        /\ using' = [using EXCEPT ![p] = 0]
        /\ ctx' = [ctx EXCEPT ![p] = [i \in Slots |-> NoCtx]]
        /\ rsp' = [s \in Sessions |-> IF owner[s] = p THEN NoRsp ELSE rsp[s]]
        /\ cur' = cur /\ mem' = mem
    BY <1>3 DEF End, servVars
  <2>2. /\ cpc'[p] = "dead" /\ call'[p] = NoCall /\ ctx'[p] = [i \in Slots |-> NoCtx]
        /\ \A q \in Procs \ {p} : /\ cpc'[q] = cpc[q] /\ call'[q] = call[q]
                                  /\ using'[q] = using[q] /\ ctx'[q] = ctx[q]
    BY <1>1, <2>1 DEF TypeOK
  <2>3. ~Received(p, "alloc")' /\ ~Answered(p)'
    BY <2>2 DEF Received, Answered
  <2>4. Job(p)' = NoCall
    BY <2>2, <2>3 DEF Job
  <2>5. \A i \in Slots : At(p, i)' = Nothing
    <3>1. \A i \in Slots : Place(p, i)' = NoCtx
      BY <2>2, <2>3 DEF Place
    <3> QED BY <2>1, <3>1 DEF At, NoCtx
  <2>6. ASSUME NEW q \in Procs \ {p}
        PROVE  (\A i \in Slots : At(q, i)' = At(q, i)) /\ Job(q)' = Job(q)
    <3>1. Waiting(q) => rsp'[using[q]] = rsp[using[q]]
      BY <1>1, <2>1 DEF InCall
    <3> QED BY <2>1, <2>2, <3>1, Same
  <2>7. Jobs' = [Jobs EXCEPT ![p] = Job(p)'] /\ Store' = [Store EXCEPT ![p] = Empty]
    BY <2>5, <2>6, OneMoves
  <2> QED BY <2>4, <2>7, MemoryIs
<1> QED BY <1>2, <1>3

-----------------------------------------------------------------------------
(* The steps of the server.                                                  *)

\* A file holds data that has its hash; where nothing cuts a file short it holds
\* all of it, but for the one that is being written.
FilesSound ==
  /\ \A h \in Hashes : cached[h].len # Absent =>
       /\ cached[h].data \in Big /\ Hash[cached[h].data] = h
       /\ Torn \/ cached[h].len = NumPieces \/ (spc = "saving" /\ h = Hash[Arg.v])
  /\ spc = "saving" => Arg.v \in Big /\ cached[Hash[Arg.v]].len # Absent

\* What is in a file when the server looks for it is what was Saved.
LEMMA FileIsSaved ==
  ASSUME BInv, FilesSound, spc = "recv", Requested("hash"), Hit
  PROVE  Arg.v \in Big /\ File \in Saved(Arg.v)
<1>1. Arg.v \in Big /\ Hash[Arg.v] \in Hashes
  BY HashedIsBig DEF Hashes
<1>2. /\ File.data \in Big /\ Hash[File.data] = Hash[Arg.v]
      /\ Torn \/ File.len = NumPieces
  BY <1>1 DEF FilesSound, Hit, File
<1>3. File \in [data : Values, len : {Absent} \cup 0 .. NumPieces] /\ File.len # Absent
  BY <1>1 DEF BInv, TypeOK, Hit, File
<1>4. File.len \in IF Torn THEN 0 .. NumPieces ELSE {NumPieces}
  BY <1>2, <1>3
<1>5. File = [data |-> File.data, len |-> File.len]
  BY <1>3
<1> HIDE DEF File
<1> QED BY <1>1, <1>2, <1>4, <1>5 DEF Saved

\* The request is that of the call its process is in.
LEMMA AskedFor ==
  ASSUME RInv, BInv, NEW op, op \notin {"none", "hello"}, Requested(op), cl[cur] = "open"
  PROVE  LET p == owner[cur]
             c == call[p]
         IN  /\ p \in Procs /\ cpc[p] = "wait" /\ using[p] = cur /\ rsp[cur] = NoRsp
             /\ c \in Calls /\ (c.op = op \/ (op = "hash" /\ c.op = "set"))
             /\ c.op = "alloc" => c.i \in Slots /\ ctx[p][c.i] = NoCtx
             /\ c.op \notin {"query", "alloc"} =>
                  c.i \in Slots /\ ctx[p][c.i] # NoCtx /\ Arg.a = ctx[p][c.i].ptr
             /\ c.op \in {"copy", "graph"} =>
                  c.j \in Slots /\ ctx[p][c.j] # NoCtx /\ Arg.b = ctx[p][c.j].ptr
             /\ Arg.v = c.v
<1> DEFINE p == owner[cur]
           c == call[p]
<1>1. /\ TypeOK /\ InCall /\ Requests
  BY DEF BInv
<1>2. /\ cur \in Sessions /\ cur # 0 /\ req[cur] # NoReq
      /\ p \in Procs /\ rsp[cur] = NoRsp /\ cpc[p] = "wait"
      /\ (op = c.op \/ (op = "hash" /\ c.op = "set"))
  BY Asked DEF Waiting
<1>3. using[p] = cur /\ c \in Calls /\ Ready(p, c)
  BY <1>1, <1>2, TheSession DEF InCall, Waiting
<1>4. \/ req[cur] = Request(p, c)
      \/ c.op = "set" /\ req[cur] = Req("set", ctx[p][c.i].ptr, 0, c.v)
  BY <1>1, <1>2 DEF Requests
<1>5. /\ c.op # "query" => c.i \in Slots
      /\ c.op \in {"copy", "graph"} => c.j \in Slots
  BY <1>3, CallFacts
<1>6. /\ c.op = "alloc" => ctx[p][c.i] = NoCtx
      /\ c.op \notin {"query", "alloc"} => ctx[p][c.i] # NoCtx
      /\ c.op \in {"copy", "graph"} => ctx[p][c.j] # NoCtx
  BY <1>3 DEF Ready
<1> HIDE DEF c, p
<1>7. /\ c.op # "query" => req[cur].a = ctx[p][c.i].ptr
      /\ c.op \in {"copy", "graph"} => req[cur].b = ctx[p][c.j].ptr
      /\ req[cur].v = c.v
  <2>1. CASE req[cur] = Request(p, c)
    BY <1>1, <1>2, <1>3, <1>5, <2>1, RequestType
  <2>2. CASE c.op = "set" /\ req[cur] = Req("set", ctx[p][c.i].ptr, 0, c.v)
    BY <2>2 DEF Req
  <2> QED BY <1>4, <2>1, <2>2
<1> QED BY <1>2, <1>3, <1>5, <1>6, <1>7 DEF Arg, c, p

\* What the process that is served sees of an answer, and the others do not.
LEMMA AnswerShows ==
  ASSUME RInv, BInv, OthersEmpty, OthersEmpty', NEW p \in Procs, p = owner[cur],
         NEW m, m.op \notin {"none", "hello"}, Requested(m.op), Answer(m), cl[cur] = "open"
  PROVE  LET c == call[p]
         IN  /\ Job(p) = c
             /\ Job(p)' = IF m.op = "hash" /\ m.n = 0 THEN c ELSE Done(m.data)
             /\ \A q \in Procs \ {p} :
                  (\A i \in Slots : At(q, i)' = At(q, i)) /\ Job(q)' = Job(q)
             /\ \A i \in Slots :
                  At(p, i)' = IF m.op = "alloc" /\ c.i = i
                              THEN IF m.n \in buffers' THEN mem'[m.n] ELSE Nothing
                              ELSE IF ctx[p][i] # NoCtx /\ ctx[p][i].ptr \in buffers'
                                   THEN mem'[ctx[p][i].ptr] ELSE Nothing
<1> DEFINE c == call[p]
<1>1. /\ TypeOK /\ InCall
  BY DEF BInv
<1>2. /\ cur \in Sessions /\ cur # 0 /\ rsp[cur] = NoRsp /\ cpc[p] = "wait"
      /\ using[p] = cur
  BY Asked, AskedFor
<1>3. /\ cpc' = cpc /\ call' = call /\ using' = using /\ ctx' = ctx
      /\ owner' = owner /\ cl' = cl /\ cur' = cur /\ rsp' = [rsp EXCEPT ![cur] = m]
  BY DEF Answer, procVars, sessVars
<1>4. rsp'[cur] = m /\ m # NoRsp /\ \A t \in Sessions \ {cur} : rsp'[t] = rsp[t]
  BY <1>1, <1>2, <1>3, Constants DEF TypeOK
<1>5. ASSUME NEW q \in Procs \ {p}
      PROVE  (\A i \in Slots : At(q, i)' = At(q, i)) /\ Job(q)' = Job(q)
  <2>1. Waiting(q) => rsp'[using[q]] = rsp[using[q]]
    BY <1>1, <1>2, <1>4 DEF InCall
  <2>2. (Answered(q)' <=> Answered(q)) /\ (Answered(q) => Waiting(q))
    BY <1>3, <2>1 DEF Answered, Waiting, Received
  <2>3. Job(q)' = Job(q)
    BY <1>3, <2>1, <2>2 DEF Job
  <2>4. \A i \in Slots : At(q, i) = Nothing
    BY DEF OthersEmpty
  <2>5. \A i \in Slots : At(q, i)' = Nothing
    BY <1>3 DEF OthersEmpty
  <2> QED BY <2>3, <2>4, <2>5
<1>6. /\ ~Answered(p)
      /\ Answered(p)' <=> ~(m.op = "hash" /\ m.n = 0)
      /\ Received(p, "alloc")' <=> m.op = "alloc"
  BY <1>2, <1>3, <1>4 DEF Answered, Received
<1>7. /\ Job(p) = c
      /\ Job(p)' = IF m.op = "hash" /\ m.n = 0 THEN c ELSE Done(m.data)
  BY <1>2, <1>3, <1>4, <1>6 DEF Job, Done
<1>8. ASSUME NEW i \in Slots
      PROVE  At(p, i)' = IF m.op = "alloc" /\ c.i = i
                         THEN IF m.n \in buffers' THEN mem'[m.n] ELSE Nothing
                         ELSE IF ctx[p][i] # NoCtx /\ ctx[p][i].ptr \in buffers'
                              THEN mem'[ctx[p][i].ptr] ELSE Nothing
  <2>1. Place(p, i)' = IF m.op = "alloc" /\ c.i = i THEN [sess |-> cur, ptr |-> m.n]
                       ELSE ctx[p][i]
    BY <1>2, <1>3, <1>4, <1>6 DEF Place
  <2>2. ctx[p][i] # NoCtx => ctx[p][i].sess = cur
    BY <1>1, <1>2, TheSession
  <2>3. ctx[p][i] = NoCtx => ctx[p][i].sess # cur
    BY <1>2 DEF NoCtx
  <2> HIDE DEF c
  <2>4. CASE m.op = "alloc" /\ c.i = i
    BY <1>2, <1>3, <2>1, <2>4 DEF At
  <2>5. CASE ~(m.op = "alloc" /\ c.i = i)
    BY <1>2, <1>3, <2>1, <2>2, <2>3, <2>5 DEF At
  <2> QED BY <2>4, <2>5
<1> QED BY <1>5, <1>7, <1>8

\* An answer that nobody sees: the process has gone, or is in HELLO.
LEMMA AnswerUnseen ==
  ASSUME RInv, BInv, OthersEmpty, OthersEmpty',
         NEW m, m.op # "none", Requested(m.op), Answer(m),
         cl[cur] = "closed" \/ (m.op = "hello" /\ mem' = mem)
  PROVE  Stutters
<1>1. /\ TypeOK /\ InCall
  BY DEF BInv
<1>2. cur \in Sessions /\ cur # 0 /\ cl[cur] \in {"open", "closed"}
  BY <1>1, Asked DEF TypeOK
<1>3. /\ cpc' = cpc /\ call' = call /\ using' = using /\ ctx' = ctx
      /\ owner' = owner /\ cl' = cl /\ cur' = cur
  BY DEF Answer, procVars, sessVars
<1>4. CASE cl[cur] = "closed"
  <2>1. rsp' = rsp
    BY <1>4 DEF Answer
  <2>2. \A q \in Procs : Job(q)' = Job(q)
    BY <1>3, <2>1 DEF Job, Answered, Received
  <2>3. \A q \in Procs : \A i \in Slots : At(q, i) = Nothing
    BY <1>4 DEF OthersEmpty
  <2>4. \A q \in Procs : \A i \in Slots : At(q, i)' = Nothing
    BY <1>3, <1>4 DEF OthersEmpty
  <2> QED BY <2>2, <2>3, <2>4 DEF Stutters, Store, Jobs
<1>5. CASE cl[cur] = "open" /\ m.op = "hello" /\ mem' = mem
  <2>1. PICK p \in Procs : p = owner[cur]
    BY <1>1, <1>2, SessionSet
  <2>2. /\ Waiting(p) /\ rsp[cur] = NoRsp /\ using[p] = cur
        /\ cpc[p] = "wait" => "hello" = call[p].op \/ "hello" = "hash"
    BY <1>1, <1>2, <1>5, <2>1, Asked, TheSession
  <2>3. cpc[p] = "hello"
    BY <1>1, <2>1, <2>2, CallFacts DEF InCall, Waiting
  <2>4. rsp' = [rsp EXCEPT ![cur] = m]
    BY <1>5 DEF Answer
  <2>5. \A q \in Procs \ {p} : Waiting(q) => rsp'[using[q]] = rsp[using[q]]
    BY <1>1, <1>2, <2>1, <2>4 DEF InCall
  <2>6. \A q \in Procs \ {p} :
          (\A i \in Slots : At(q, i)' = At(q, i)) /\ Job(q)' = Job(q)
    BY <1>3, <1>5, <2>5, Same
  <2>7. /\ ~Received(p, "alloc") /\ ~Answered(p)
        /\ ~Received(p, "alloc")' /\ ~Answered(p)'
    BY <1>3, <2>3 DEF Received, Answered
  <2>8. Job(p)' = Job(p) /\ \A i \in Slots : At(p, i)' = At(p, i)
    BY <1>3, <1>5, <2>7, PlainStays DEF Job
  <2> QED BY <2>6, <2>8, OneMoves DEF Stutters
<1> QED BY <1>2, <1>4, <1>5

\* A command that writes d into the buffer behind slot k of its process.
LEMMA WriteShows ==
  ASSUME RInv, BInv, OthersEmpty, OthersEmpty', NEW p \in Procs, p = owner[cur],
         NEW m, m.op \notin {"none", "hello", "alloc", "free"}, Requested(m.op), Answer(m),
         cl[cur] = "open", NEW k \in Slots, NEW d,
         ctx[p][k] # NoCtx, mem' = [mem EXCEPT ![ctx[p][k].ptr] = d]
  PROVE  Store' = [Store EXCEPT ![p][k] = d]
<1>1. rsp[cur] = NoRsp /\ cur # 0
  BY AskedFor, Asked
<1>2. buffers' = buffers
  BY DEF buffers
<1>3. ASSUME NEW i \in Slots
      PROVE  At(p, i)' = IF i = k THEN d ELSE At(p, i)
  <2>1. At(p, i)' = IF ctx[p][i] # NoCtx /\ ctx[p][i].ptr \in buffers'
                    THEN mem'[ctx[p][i].ptr] ELSE Nothing
    BY AnswerShows
  <2>2. /\ ctx[p][i] # NoCtx => ctx[p][i].ptr \in buffers /\ At(p, i) = mem[ctx[p][i].ptr]
        /\ ctx[p][i] = NoCtx => At(p, i) = Nothing
        /\ ctx[p][k].ptr \in buffers
        /\ ctx[p][i] # NoCtx /\ ctx[p][i].ptr = ctx[p][k].ptr => i = k
    BY <1>1, SlotsOfServed, Constants
  <2>3. CASE i = k
    BY <1>2, <2>1, <2>2, <2>3 DEF buffers
  <2>4. CASE i # k
    BY <1>2, <2>1, <2>2, <2>4 DEF buffers
  <2> QED BY <2>3, <2>4
<1>4. \A q \in Procs \ {p} : \A i \in Slots : At(q, i)' = At(q, i)
  BY AnswerShows
<1> QED BY <1>3, <1>4, OneWrites

\* The state of RemoteMemory in a step that answers a request.
LEMMA Served ==
  ASSUME RInv, BInv, OthersEmpty, OthersEmpty', NEW p \in Procs, p = owner[cur],
         NEW m, m.op \notin {"none", "hello"}, Requested(m.op), Answer(m), cl[cur] = "open"
  PROVE  /\ Jobs[p] = call[p]
         /\ ~(m.op = "hash" /\ m.n = 0) => Jobs' = [Jobs EXCEPT ![p] = Done(m.data)]
         /\ m.op = "hash" /\ m.n = 0 => Jobs' = Jobs
         /\ \A i \in Slots : ctx[p][i] # NoCtx => /\ Store[p][i] = mem[ctx[p][i].ptr]
                                                  /\ Store[p][i] # Nothing
                                                  /\ ctx[p][i].ptr \in buffers
         /\ m.op \notin {"alloc", "free"} /\ mem' = mem => Store' = Store
<1>1. /\ Job(p) = call[p]
      /\ Job(p)' = IF m.op = "hash" /\ m.n = 0 THEN call[p] ELSE Done(m.data)
      /\ \A q \in Procs \ {p} : (\A i \in Slots : At(q, i)' = At(q, i)) /\ Job(q)' = Job(q)
      /\ \A i \in Slots :
           At(p, i)' = IF m.op = "alloc" /\ call[p].i = i
                       THEN IF m.n \in buffers' THEN mem'[m.n] ELSE Nothing
                       ELSE IF ctx[p][i] # NoCtx /\ ctx[p][i].ptr \in buffers'
                            THEN mem'[ctx[p][i].ptr] ELSE Nothing
  BY AnswerShows
<1>2. cur # 0 /\ rsp[cur] = NoRsp
  BY AskedFor, Asked
<1>3. /\ Jobs' = [Jobs EXCEPT ![p] = Job(p)']
      /\ Job(p)' = Job(p) => Jobs' = Jobs
      /\ (\A i \in Slots : At(p, i)' = At(p, i)) => Store' = Store
      /\ Jobs[p] = Job(p) /\ \A i \in Slots : Store[p][i] = At(p, i)
  BY <1>1, OneMoves
<1>4. ASSUME NEW i \in Slots
      PROVE  /\ ctx[p][i] # NoCtx => ctx[p][i].ptr \in buffers /\ At(p, i) = mem[ctx[p][i].ptr]
             /\ ctx[p][i] = NoCtx => At(p, i) = Nothing
             /\ At(p, i) # Nothing <=> ctx[p][i] # NoCtx
  BY <1>2, SlotsOfServed, Constants
<1>5. ASSUME m.op \notin {"alloc", "free"}, mem' = mem
      PROVE  Store' = Store
  <2>1. buffers' = buffers
    BY <1>5 DEF buffers
  <2>2. \A i \in Slots : At(p, i)' = At(p, i)
    BY <1>1, <1>4, <1>5, <2>1
  <2> QED BY <1>3, <2>2
<1> QED BY <1>1, <1>3, <1>4, <1>5

\* The commands that change nothing: query, get, and a hash that is not known.
LEMMA ReadsMap ==
  ASSUME RInv, BInv, OthersEmpty, OthersEmpty', NEW p \in Procs, p = owner[cur],
         cl[cur] = "open", ServeQuery \/ ServeGet \/ ServeMiss
  PROVE  Memory!Perform(p) \/ Stutters
<1>1. CASE ServeQuery
  <2> DEFINE m == Rsp("query", 0, Nothing)
  <2>1. /\ m.op = "query" /\ m.data = Nothing
        /\ Requested(m.op) /\ Answer(m) /\ mem' = mem
    BY <1>1 DEF ServeQuery, Rsp
  <2> HIDE DEF m
  <2>2. call[p].op = "query"
    BY <2>1, AskedFor
  <2>3. Jobs[p] = call[p] /\ Jobs' = [Jobs EXCEPT ![p] = Done(Nothing)] /\ Store' = Store
    BY <2>1, Served
  <2> QED BY <2>2, <2>3, PerformIs
<1>2. CASE ServeGet
  <2> DEFINE m == Rsp("get", 0, mem[Arg.a])
             i == call[p].i
  <2>1. /\ m.op = "get" /\ m.data = mem[Arg.a]
        /\ Requested(m.op) /\ Answer(m) /\ mem' = mem
    BY <1>2 DEF ServeGet, Rsp
  <2> HIDE DEF m
  <2>2. call[p].op = "get" /\ i \in Slots /\ ctx[p][i] # NoCtx /\ Arg.a = ctx[p][i].ptr
    BY <2>1, AskedFor
  <2>3. /\ Jobs[p] = call[p] /\ Jobs' = [Jobs EXCEPT ![p] = Done(m.data)] /\ Store' = Store
        /\ Store[p][i] = mem[ctx[p][i].ptr] /\ Store[p][i] # Nothing
    BY <2>1, <2>2, Served
  <2>4. Jobs' = [Jobs EXCEPT ![p] = Done(Store[p][i])]
    BY <2>1, <2>2, <2>3
  <2> QED BY <2>2, <2>3, <2>4, PerformIs
<1>3. CASE ServeMiss
  <2> DEFINE m == Rsp("hash", 0, Nothing)
  <2>1. /\ m.op = "hash" /\ m.n = 0 /\ Requested(m.op) /\ Answer(m) /\ mem' = mem
    BY <1>3 DEF ServeMiss, Rsp
  <2> HIDE DEF m
  <2>2. Jobs' = Jobs /\ Store' = Store
    BY <2>1, Served
  <2> QED BY <2>2 DEF Stutters
<1> QED BY <1>1, <1>2, <1>3

\* The buffer behind slot k of process p gets content d, and no other.
Changes(p, k, d) == /\ k \in Slots /\ ctx[p][k] # NoCtx
                    /\ mem' = [mem EXCEPT ![ctx[p][k].ptr] = d]

\* What that is in terms of RemoteMemory.
Written(p, k, d) ==
  /\ Jobs[p] = call[p] /\ Jobs' = [Jobs EXCEPT ![p] = Done(Nothing)]
  /\ Store' = [Store EXCEPT ![p][k] = d]
  /\ \A i \in Slots : ctx[p][i] # NoCtx => /\ Store[p][i] = mem[ctx[p][i].ptr]
                                           /\ Store[p][i] # Nothing

LEMMA Writes ==
  ASSUME RInv, BInv, OthersEmpty, OthersEmpty', NEW p \in Procs, p = owner[cur],
         cl[cur] = "open", NEW m, NEW k, NEW d,
         m.op \in {"clear", "set", "hash", "copy", "graph"}, ~(m.op = "hash" /\ m.n = 0),
         m.data = Nothing, Requested(m.op), Answer(m),
         Changes(p, k, d)
  PROVE  Written(p, k, d)
<1>1. Store' = [Store EXCEPT ![p][k] = d]
  BY WriteShows DEF Changes
<1>2. /\ Jobs[p] = call[p] /\ Jobs' = [Jobs EXCEPT ![p] = Done(m.data)]
      /\ \A i \in Slots : ctx[p][i] # NoCtx => /\ Store[p][i] = mem[ctx[p][i].ptr]
                                               /\ Store[p][i] # Nothing
  BY Served
<1> QED BY <1>1, <1>2 DEF Written

\* The commands that write: clear, set (at once, or after the file is written),
\* a hash that is known, copy and graph.
LEMMA WritesMap ==
  ASSUME RInv, BInv, FilesSound, OthersEmpty, OthersEmpty', NEW p \in Procs, p = owner[cur],
         cl[cur] = "open",
         \/ ServeClear \/ ServeSet \/ SetSaved \/ ServeHit \/ ServeCopy \/ ServeGraph
  PROVE  Memory!Perform(p)
<1> DEFINE c == call[p]
<1>1. CASE ServeClear
  <2> DEFINE m == Rsp("clear", 0, Nothing)
  <2>1. /\ m.op = "clear" /\ m.data = Nothing
        /\ Requested(m.op) /\ Answer(m) /\ mem' = [mem EXCEPT ![Arg.a] = Whole(Arg.v)]
    BY <1>1 DEF ServeClear, Rsp
  <2> HIDE DEF m
  <2>2. /\ c.op = "clear" /\ c.i \in Slots /\ ctx[p][c.i] # NoCtx
        /\ Arg.a = ctx[p][c.i].ptr /\ Arg.v = c.v
    BY <2>1, AskedFor
  <2>3. Changes(p, c.i, Whole(c.v))
    BY <2>1, <2>2 DEF Changes
  <2>4. Written(p, c.i, Whole(c.v))
    BY <2>1, <2>3, Writes
  <2> QED BY <2>2, <2>4, PerformIs DEF Written
<1>2. CASE ServeSet \/ SetSaved
  <2> DEFINE m == Rsp("set", 0, Nothing)
  <2>1. Requested("set")
    <3>1. CASE ServeSet
      BY <3>1 DEF ServeSet
    <3>2. CASE SetSaved
      BY <3>2, SessionSet DEF SetSaved, BInv, Serving, Requested
    <3> QED BY <1>2, <3>1, <3>2
  <2>2. /\ m.op = "set" /\ m.data = Nothing
        /\ Requested(m.op) /\ Answer(m) /\ mem' = [mem EXCEPT ![Arg.a] = Whole(Arg.v)]
    BY <1>2, <2>1 DEF ServeSet, SetSaved, Rsp
  <2> HIDE DEF m
  <2>3. /\ c.op = "set" /\ c.i \in Slots /\ ctx[p][c.i] # NoCtx
        /\ Arg.a = ctx[p][c.i].ptr /\ Arg.v = c.v
    BY <2>2, AskedFor
  <2>4. Changes(p, c.i, Whole(c.v))
    BY <2>2, <2>3 DEF Changes
  <2>5. Written(p, c.i, Whole(c.v))
    BY <2>2, <2>4, Writes
  <2>6. /\ c.op = "set" /\ Jobs[p] = c /\ Jobs' = [Jobs EXCEPT ![p] = Done(Nothing)]
        /\ Store[p][c.i] # Nothing /\ Store' = [Store EXCEPT ![p][c.i] = Whole(c.v)]
    BY <2>3, <2>5 DEF Written
  <2>7. Whole(c.v) \in Outcomes(Store[p][c.i], c.v)
    BY DEF Outcomes
  <2> HIDE DEF c
  <2> QED BY <2>6, <2>7, PerformIs
<1>3. CASE ServeHit
  <2> DEFINE m == Rsp("hash", 1, Nothing)
  <2>1. /\ m.op = "hash" /\ m.data = Nothing /\ m.n = 1
        /\ Requested(m.op) /\ Answer(m)
    BY <1>3 DEF ServeHit, Rsp
  <2> HIDE DEF m
  <2>2. /\ c.op = "set" /\ c.i \in Slots /\ ctx[p][c.i] # NoCtx
        /\ Arg.a = ctx[p][c.i].ptr /\ Arg.v = c.v
    <3>1. c \in Calls /\ (c.op = "hash" \/ c.op = "set")
      BY <2>1, AskedFor
    <3>2. c.op = "set"
      BY <3>1, CallFacts
    <3> HIDE DEF c
    <3> QED BY <2>1, <3>2, AskedFor DEF c
  <2> DEFINE d == Over(mem[Arg.a], File)
  <2>3. Arg.v \in Big /\ File \in Saved(Arg.v)
    BY <1>3, FileIsSaved DEF ServeHit
  <2>4. mem' = [mem EXCEPT ![Arg.a] = d]
    BY <1>3 DEF ServeHit
  <2>5. d \in Outcomes(mem[Arg.a], Arg.v)
    BY <2>3 DEF Outcomes
  <2> HIDE DEF d
  <2>6. Changes(p, c.i, d)
    BY <2>2, <2>4 DEF Changes
  <2>7. Written(p, c.i, d)
    BY <2>1, <2>6, Writes
  <2>8. /\ c.op = "set" /\ Jobs[p] = c /\ Jobs' = [Jobs EXCEPT ![p] = Done(Nothing)]
        /\ Store[p][c.i] = mem[Arg.a] /\ Store[p][c.i] # Nothing
        /\ Store' = [Store EXCEPT ![p][c.i] = d]
    BY <2>2, <2>7 DEF Written
  <2>9. d \in Outcomes(Store[p][c.i], c.v)
    BY <2>2, <2>5, <2>8
  <2> HIDE DEF c
  <2> QED BY <2>8, <2>9, PerformIs
<1>4. CASE ServeCopy
  <2> DEFINE m == Rsp("copy", 0, Nothing)
  <2>1. /\ m.op = "copy" /\ m.data = Nothing
        /\ Requested(m.op) /\ Answer(m) /\ mem' = [mem EXCEPT ![Arg.b] = mem[Arg.a]]
    BY <1>4 DEF ServeCopy, Rsp
  <2> HIDE DEF m
  <2>2. /\ c.op = "copy" /\ c.i \in Slots /\ ctx[p][c.i] # NoCtx
        /\ c.j \in Slots /\ ctx[p][c.j] # NoCtx
        /\ Arg.a = ctx[p][c.i].ptr /\ Arg.b = ctx[p][c.j].ptr
    BY <2>1, AskedFor
  <2>3. Changes(p, c.j, mem[Arg.a])
    BY <2>1, <2>2 DEF Changes
  <2>4. Written(p, c.j, mem[Arg.a])
    BY <2>1, <2>3, Writes
  <2>5. /\ Jobs[p] = c /\ Jobs' = [Jobs EXCEPT ![p] = Done(Nothing)]
        /\ Store[p][c.i] = mem[Arg.a] /\ Store[p][c.i] # Nothing /\ Store[p][c.j] # Nothing
        /\ Store' = [Store EXCEPT ![p][c.j] = Store[p][c.i]]
    BY <2>2, <2>4 DEF Written
  <2> QED BY <2>2, <2>5, PerformIs
<1>5. CASE ServeGraph
  <2> DEFINE m == Rsp("graph", 0, Nothing)
             d == [k \in Pieces |-> Operate(mem[Arg.a][k])]
  <2>1. /\ m.op = "graph" /\ m.data = Nothing
        /\ Requested(m.op) /\ Answer(m) /\ mem' = [mem EXCEPT ![Arg.b] = d]
    BY <1>5 DEF ServeGraph, Rsp
  <2> HIDE DEF m
  <2>2. /\ c.op = "graph" /\ c.i \in Slots /\ ctx[p][c.i] # NoCtx
        /\ c.j \in Slots /\ ctx[p][c.j] # NoCtx
        /\ Arg.a = ctx[p][c.i].ptr /\ Arg.b = ctx[p][c.j].ptr
    BY <2>1, AskedFor
  <2>3. Changes(p, c.j, d)
    BY <2>1, <2>2 DEF Changes
  <2>4. Written(p, c.j, d)
    <3> HIDE DEF d
    <3> QED BY <2>1, <2>3, Writes
  <2>5. /\ Jobs[p] = c /\ Jobs' = [Jobs EXCEPT ![p] = Done(Nothing)]
        /\ Store[p][c.i] = mem[Arg.a] /\ Store[p][c.i] # Nothing /\ Store[p][c.j] # Nothing
        /\ Store' = [Store EXCEPT ![p][c.j] = d]
    BY <2>2, <2>4 DEF Written
  <2>6. d = [k \in Pieces |-> Operate(Store[p][c.i][k])]
    BY <2>5
  <2>7. Store' = [Store EXCEPT ![p][c.j] = [k \in Pieces |-> Operate(Store[p][c.i][k])]]
    BY <2>5, <2>6
  <2>8. /\ c.op = "graph" /\ Jobs[p] = c /\ Jobs' = [Jobs EXCEPT ![p] = Done(Nothing)]
        /\ Store[p][c.i] # Nothing /\ Store[p][c.j] # Nothing
    BY <2>2, <2>5
  <2> HIDE DEF d, c
  <2> QED BY <2>7, <2>8, PerformIs
<1> QED BY <1>1, <1>2, <1>3, <1>4, <1>5

\* alloc gives the process a buffer, or nothing; free takes one from it.
LEMMA AllocMaps ==
  ASSUME RInv, BInv, OthersEmpty, OthersEmpty', NEW p \in Procs, p = owner[cur],
         cl[cur] = "open", ServeAlloc
  PROVE  Memory!Perform(p)
<1> DEFINE c == call[p]
<1>1. Requested("alloc")
  BY DEF ServeAlloc
<1>2. /\ c.op = "alloc" /\ c.i \in Slots /\ ctx[p][c.i] = NoCtx
      /\ cur # 0 /\ rsp[cur] = NoRsp
  BY <1>1, AskedFor, Asked
<1>3. ASSUME NEW i \in Slots
      PROVE  /\ ctx[p][i] # NoCtx => ctx[p][i].ptr \in buffers /\ At(p, i) = mem[ctx[p][i].ptr]
             /\ ctx[p][i] = NoCtx => At(p, i) = Nothing
  BY <1>2, SlotsOfServed, Constants
<1>4. CASE mem' = mem /\ Answer(Rsp("alloc", 0, Nothing))
  <2> DEFINE m == Rsp("alloc", 0, Nothing)
  <2>1. m.op = "alloc" /\ m.n = 0 /\ m.data = Nothing /\ Answer(m) /\ Requested(m.op)
    BY <1>1, <1>4 DEF Rsp
  <2> HIDE DEF m
  <2>2. Jobs[p] = c /\ Jobs' = [Jobs EXCEPT ![p] = Done(Nothing)]
    BY <2>1, Served
  <2>3. buffers' = buffers /\ 0 \notin buffers
    BY <1>4, RpcAssumption DEF buffers, BInv, TypeOK
  <2>4. ASSUME NEW i \in Slots PROVE At(p, i)' = At(p, i)
    <3>1. At(p, i)' = IF m.op = "alloc" /\ c.i = i
                      THEN IF m.n \in buffers' THEN mem'[m.n] ELSE Nothing
                      ELSE IF ctx[p][i] # NoCtx /\ ctx[p][i].ptr \in buffers'
                           THEN mem'[ctx[p][i].ptr] ELSE Nothing
      BY <2>1, AnswerShows
    <3> HIDE DEF c
    <3> QED BY <1>2, <1>3, <1>4, <2>1, <2>3, <3>1
  <2>5. \A q \in Procs \ {p} : (\A i \in Slots : At(q, i)' = At(q, i)) /\ Job(q)' = Job(q)
    BY <2>1, AnswerShows
  <2>6. Store' = Store
    BY <2>4, <2>5, OneMoves
  <2> QED BY <1>2, <2>2, <2>6, PerformIs
<1>5. ASSUME NEW a \in Addrs \ buffers, NEW d \in [Pieces -> Values],
             mem' = [x \in buffers \cup {a} |-> IF x = a THEN d ELSE mem[x]],
             Answer(Rsp("alloc", a, Nothing))
      PROVE  Memory!Perform(p)
  <2> DEFINE m == Rsp("alloc", a, Nothing)
  <2>1. m.op = "alloc" /\ m.n = a /\ m.data = Nothing /\ Answer(m) /\ Requested(m.op)
    BY <1>1, <1>5 DEF Rsp
  <2> HIDE DEF m
  <2>2. Jobs[p] = c /\ Jobs' = [Jobs EXCEPT ![p] = Done(Nothing)]
    BY <2>1, Served
  <2>3. /\ buffers' = buffers \cup {a} /\ mem'[a] = d
        /\ \A x \in buffers : mem'[x] = mem[x]
    BY <1>5 DEF buffers
  <2>4. ASSUME NEW i \in Slots PROVE At(p, i)' = IF i = c.i THEN d ELSE At(p, i)
    <3>1. At(p, i)' = IF m.op = "alloc" /\ c.i = i
                      THEN IF m.n \in buffers' THEN mem'[m.n] ELSE Nothing
                      ELSE IF ctx[p][i] # NoCtx /\ ctx[p][i].ptr \in buffers'
                           THEN mem'[ctx[p][i].ptr] ELSE Nothing
      BY <2>1, AnswerShows
    <3> HIDE DEF c
    <3> QED BY <1>3, <2>1, <2>3, <3>1
  <2>5. \A q \in Procs \ {p} : \A i \in Slots : At(q, i)' = At(q, i)
    BY <2>1, AnswerShows
  <2>6. Store' = [Store EXCEPT ![p][c.i] = d]
    <3>1. c.i \in Slots
      BY <1>2
    <3> HIDE DEF c
    <3> QED BY <2>4, <2>5, <3>1 DEF Store
  <2> QED BY <1>2, <2>2, <2>6, PerformIs
<1> QED BY <1>4, <1>5 DEF ServeAlloc

LEMMA FreeMaps ==
  ASSUME RInv, BInv, OthersEmpty, OthersEmpty', NEW p \in Procs, p = owner[cur],
         cl[cur] = "open", ServeFree
  PROVE  Memory!Perform(p)
<1> DEFINE c == call[p]
           m == Rsp("free", 0, Nothing)
<1>1. /\ m.op = "free" /\ m.data = Nothing /\ Requested(m.op) /\ Answer(m)
      /\ mem' = [x \in buffers \ {Arg.a} |-> mem[x]]
  BY DEF ServeFree, Rsp
<1> HIDE DEF m
<1>2. /\ c.op = "free" /\ c.i \in Slots /\ ctx[p][c.i] # NoCtx /\ Arg.a = ctx[p][c.i].ptr
      /\ cur # 0 /\ rsp[cur] = NoRsp
  BY <1>1, AskedFor, Asked
<1>3. ASSUME NEW i \in Slots
      PROVE  /\ ctx[p][i] # NoCtx => ctx[p][i].ptr \in buffers /\ At(p, i) = mem[ctx[p][i].ptr]
             /\ ctx[p][i] = NoCtx => At(p, i) = Nothing
             /\ ctx[p][i] # NoCtx /\ ctx[p][i].ptr = ctx[p][c.i].ptr => i = c.i
  BY <1>2, SlotsOfServed, Constants
<1>4. /\ Jobs[p] = c /\ Jobs' = [Jobs EXCEPT ![p] = Done(Nothing)]
      /\ Store[p][c.i] # Nothing
  BY <1>1, <1>2, Served
<1>5. /\ buffers' = buffers \ {ctx[p][c.i].ptr}
      /\ \A x \in buffers' : mem'[x] = mem[x]
  BY <1>1, <1>2 DEF buffers
<1>6. ASSUME NEW i \in Slots PROVE At(p, i)' = IF i = c.i THEN Nothing ELSE At(p, i)
  <2>1. At(p, i)' = IF m.op = "alloc" /\ c.i = i
                    THEN IF m.n \in buffers' THEN mem'[m.n] ELSE Nothing
                    ELSE IF ctx[p][i] # NoCtx /\ ctx[p][i].ptr \in buffers'
                         THEN mem'[ctx[p][i].ptr] ELSE Nothing
    BY <1>1, AnswerShows
  <2> HIDE DEF c
  <2> QED BY <1>1, <1>3, <1>5, <2>1
<1>7. \A q \in Procs \ {p} : \A i \in Slots : At(q, i)' = At(q, i)
  BY <1>1, AnswerShows
<1>8. Store' = [Store EXCEPT ![p][c.i] = Nothing]
  <2>1. c.i \in Slots
    BY <1>2
  <2> HIDE DEF c
  <2> DEFINE d == Nothing
  <2>2. \A i \in Slots : At(p, i)' = IF i = c.i THEN d ELSE At(p, i)
    BY <1>6
  <2> HIDE DEF d
  <2>3. Store' = [Store EXCEPT ![p][c.i] = d]
    BY <1>7, <2>1, <2>2 DEF Store
  <2> QED BY <2>3 DEF d
<1> QED BY <1>2, <1>4, <1>8, PerformIs

\* The steps of the server that no process sees: it takes the next session,
\* opens and fills a file, leaves a session that is over, starts again.
LEMMA UnseenMaps ==
  ASSUME RInv, BInv, OthersEmpty, OthersEmpty',
         Accept \/ OpenFile \/ SavePiece \/ EndSession \/ Restart
  PROVE  Stutters
<1>1. /\ cpc' = cpc /\ call' = call /\ using' = using /\ ctx' = ctx /\ rsp' = rsp
  BY DEF Accept, OpenFile, SavePiece, EndSession, Restart, procVars, wireVars
<1>2. \A q \in Procs : Job(q)' = Job(q)
  BY <1>1 DEF Job, Answered, Received
<1>3. CASE OpenFile \/ SavePiece \/ Restart
  <2>1. cur' = cur /\ mem' = mem
    BY <1>3 DEF OpenFile, SavePiece, Restart, servVars
  <2>2. \A q \in Procs : \A i \in Slots : At(q, i)' = At(q, i)
    BY <1>1, <2>1 DEF At, Place, Received, buffers
  <2> QED BY <1>2, <2>2 DEF Stutters, Store, Jobs
<1>4. CASE Accept
  <2>1. cur = 0 /\ buffers = {} /\ mem' = mem
    BY <1>4 DEF Accept, BInv, Serving
  <2>2. \A q \in Procs : \A i \in Slots : At(q, i) = Nothing /\ At(q, i)' = Nothing
    BY <2>1 DEF At, buffers
  <2> QED BY <1>2, <2>2 DEF Stutters, Store, Jobs
<1>5. CASE EndSession
  <2>1. cur' = 0 /\ cl[cur] = "closed"
    BY <1>5 DEF EndSession, EndOfStream
  <2>2. \A q \in Procs : \A i \in Slots : At(q, i) = Nothing
    BY <2>1 DEF OthersEmpty
  <2>3. \A q \in Procs : \A i \in Slots : At(q, i)' = Nothing
    BY <2>1 DEF At
  <2> QED BY <1>2, <2>2, <2>3 DEF Stutters, Store, Jobs
<1> QED BY <1>3, <1>4, <1>5

\* The server process ends: the process it served loses its buffers.
LEMMA DownMaps ==
  ASSUME RInv, BInv, OthersEmpty, Down
  PROVE  Stutters \/ \E p \in Procs : Memory!Lose(p)
<1>1. TypeOK
  BY DEF BInv
<1>2. /\ cpc' = cpc /\ call' = call /\ using' = using /\ ctx' = ctx /\ rsp' = rsp /\ cur' = 0
  BY DEF Down, procVars, wireVars
<1>3. \A q \in Procs : Job(q)' = Job(q)
  BY <1>2 DEF Job, Answered, Received
<1>4. \A q \in Procs : \A i \in Slots : At(q, i)' = Nothing
  BY <1>2 DEF At
<1>5. CASE cur = 0
  <2>1. \A q \in Procs : \A i \in Slots : At(q, i) = Nothing
    BY <1>5 DEF OthersEmpty
  <2> QED BY <1>3, <1>4, <2>1 DEF Stutters, Store, Jobs
<1>6. CASE cur # 0
  <2>1. PICK p \in Procs : p = owner[cur]
    BY <1>1, <1>6, SessionSet DEF TypeOK
  <2>2. \A q \in Procs \ {p} : \A i \in Slots : At(q, i) = Nothing
    BY <2>1 DEF OthersEmpty
  <2>3. Store' = [Store EXCEPT ![p] = Empty] /\ Jobs' = Jobs
    BY <1>3, <1>4, <2>2, OneMoves
  <2> QED BY <2>3, MemoryIs
<1> QED BY <1>5, <1>6

\* Every step of the server is one of RemoteMemory, or none.
LEMMA ServerMaps ==
  ASSUME RInv, BInv, FilesSound, OthersEmpty, OthersEmpty', ServerStep \/ Kill \/ Restart
  PROVE  Stutters \/ \E p \in Procs : Memory!Perform(p) \/ Memory!Lose(p)
<1> DEFINE Commands == \/ ServeQuery \/ ServeAlloc \/ ServeFree \/ ServeClear \/ ServeSet
                       \/ SetSaved \/ ServeHit \/ ServeMiss \/ ServeGet \/ ServeCopy
                       \/ ServeGraph
<1>1. CASE Accept \/ OpenFile \/ SavePiece \/ EndSession \/ Restart
  BY <1>1, UnseenMaps
<1>2. CASE BrokenPipe \/ Kill
  BY <1>2, DownMaps DEF BrokenPipe, Kill
<1>3. CASE ServeHello
  <2> DEFINE m == Rsp("hello", 0, Nothing)
  <2>1. /\ m.op = "hello" /\ Requested(m.op) /\ Answer(m) /\ mem' = mem
    BY <1>3 DEF ServeHello, Rsp
  <2> HIDE DEF m
  <2>2. cl[cur] \in {"open", "closed"}
    BY <2>1, Asked DEF BInv, TypeOK
  <2> QED BY <2>1, AnswerUnseen
<1>4. CASE Commands /\ cl[cur] = "closed"
  <2>1. \E d : \E n \in Nat, op \in {"query", "alloc", "free", "clear", "set", "hash", "get", "copy",
                                    "graph"} : Requested(op) /\ Answer(Rsp(op, n, d))
    <3>1. CASE SetSaved
      BY <3>1, SessionSet DEF SetSaved, BInv, Serving, Requested
    <3>2. CASE ServeAlloc
      BY <3>2, RpcAssumption DEF ServeAlloc
    <3>3. CASE ServeGet
      BY <3>3 DEF ServeGet
    <3>4. CASE \/ ServeQuery \/ ServeFree \/ ServeClear \/ ServeSet \/ ServeHit \/ ServeMiss
               \/ ServeCopy \/ ServeGraph
      BY <3>4 DEF ServeQuery, ServeFree, ServeClear, ServeSet, ServeHit, ServeMiss,
         ServeCopy, ServeGraph
    <3> QED BY <1>4, <3>1, <3>2, <3>3, <3>4
  <2>2. PICK op, n, d : op # "none" /\ Requested(op) /\ Answer(Rsp(op, n, d))
    BY <2>1
  <2> DEFINE m == Rsp(op, n, d)
  <2>3. m.op # "none" /\ Requested(m.op) /\ Answer(m)
    BY <2>2 DEF Rsp
  <2> HIDE DEF m
  <2> QED BY <1>4, <2>3, AnswerUnseen
<1>5. CASE Commands /\ cl[cur] # "closed"
  <2>1. cur \in Sessions /\ cl[cur] = "open"
    <3>1. cur # 0
      <4>1. CASE SetSaved
        BY <4>1, SessionSet DEF SetSaved, BInv, Serving
      <4>2. CASE ~SetSaved
        BY <1>5, <4>2 DEF ServeQuery, ServeAlloc, ServeFree, ServeClear, ServeSet,
           ServeHit, ServeMiss, ServeGet, ServeCopy, ServeGraph, Requested
      <4> QED BY <4>1, <4>2
    <3> QED BY <1>5, <3>1 DEF BInv, TypeOK
  <2>2. PICK p \in Procs : p = owner[cur]
    BY <2>1, SessionSet DEF BInv
  <2>3. CASE ServeAlloc
    BY <2>1, <2>2, <2>3, AllocMaps
  <2>4. CASE ServeFree
    BY <2>1, <2>2, <2>4, FreeMaps
  <2>5. CASE ServeQuery \/ ServeGet \/ ServeMiss
    BY <2>1, <2>2, <2>5, ReadsMap
  <2>6. CASE ServeClear \/ ServeSet \/ SetSaved \/ ServeHit \/ ServeCopy \/ ServeGraph
    BY <2>1, <2>2, <2>6, WritesMap
  <2> QED BY <1>5, <2>3, <2>4, <2>5, <2>6
<1> QED BY <1>1, <1>2, <1>3, <1>4, <1>5 DEF ServerStep

-----------------------------------------------------------------------------
(* The refinement.                                                           *)

LEMMA InitFilesSound == Init => FilesSound
BY DEF Init, FilesSound

\* What a file is being written for stays what is asked while it is written.
LEMMA StillAsked ==
  ASSUME RInv, BInv, spc = "saving", NEW p \in Procs,
         SendRequest(p) \/ Connect(p) \/ ClientStep(p) \/ ConnectRefused(p) \/ Die(p)
  PROVE  req'[cur] = req[cur]
<1>1. TypeOK /\ InCall /\ WireTypes
  BY DEF BInv
<1>2. cur \in Sessions /\ cur # 0 /\ req[cur] # NoReq
  BY SessionSet, Constants DEF BInv, Serving
<1>3. cl[cur] = "open" => rsp[cur] = NoRsp /\ Waiting(owner[cur])
  BY <1>2 DEF BInv, Requests
<1>4. CASE SendRequest(p)
  <2>1. PICK s \in Sessions : /\ cl[s] = "open" /\ owner[s] = p /\ cpc[p] = "idle"
                              /\ \E c \in Calls : req' = [req EXCEPT ![s] = Request(p, c)]
    BY <1>4, Sends
  <2>2. s # cur
    BY <1>3, <2>1 DEF Waiting
  <2> QED BY <1>1, <1>2, <2>1, <2>2 DEF WireTypes
<1>5. CASE Connect(p)
  <2> DEFINE n == Len(owner)
             h == Req("hello", 0, 0, 0)
  <2>1. req' = Append(req, h)
    BY <1>5 DEF Connect
  <2>2. h \in Reqs
    BY Constants DEF Ops
  <2>3. n \in Nat /\ Sessions = 1 .. n
    BY <1>1, SessionSet
  <2> HIDE DEF n, h
  <2>4. req \in Seq(Reqs) /\ Len(req) = n
    BY <1>1, <2>3, AsSeq DEF WireTypes
  <2>5. \A i \in 1 .. n : Append(req, h)[i] = req[i]
    BY <2>2, <2>4, Grow
  <2> QED BY <1>2, <2>1, <2>3, <2>5
<1>6. CASE ReceiveHello(p) \/ ReceiveMiss(p)
  <2>1. /\ Waiting(p) /\ rsp[using[p]] # NoRsp
        /\ \E q : req' = [req EXCEPT ![using[p]] = q]
    BY <1>6, Constants DEF ReceiveHello, ReceiveMiss, Received, Waiting
  <2>2. using[p] # cur
    BY <1>1, <1>3, <2>1 DEF InCall
  <2> QED BY <1>1, <1>2, <2>1, <2>2 DEF WireTypes
<1>7. CASE \/ ReceiveDone(p) \/ ReceiveAlloc(p) \/ ReceiveFree(p) \/ ReceiveHit(p)
           \/ ReturnFailed(p) \/ Abort(p) \/ ConnectRefused(p) \/ Die(p)
  BY <1>7 DEF ReceiveDone, ReceiveAlloc, ReceiveFree, ReceiveHit, ReturnFailed, Abort,
     ConnectRefused, Die, Return, End
<1> QED BY <1>4, <1>5, <1>6, <1>7 DEF ClientStep

\* What is written to a file is data with its hash, and all of it unless the
\* server is killed in the middle or refused the space.
LEMMA FilesStaySound ==
  ASSUME RInv, BInv, FilesSound, [Next]_vars
  PROVE  FilesSound'
<1>1. CASE UNCHANGED vars
  BY <1>1 DEF vars, wireVars, servVars, FilesSound, Arg
<1>2. ASSUME NEW p \in Procs,
             SendRequest(p) \/ Connect(p) \/ ClientStep(p) \/ ConnectRefused(p) \/ Die(p)
      PROVE  FilesSound'
  <2>1. cached' = cached /\ spc' = spc /\ cur' = cur
    BY <1>2 DEF SendRequest, Connect, ClientStep, ConnectRefused, Die, ReceiveHello,
       ReceiveMiss, ReceiveDone, ReceiveAlloc, ReceiveFree, ReceiveHit, ReturnFailed,
       Abort, Return, End, servVars
  <2>2. spc = "saving" => req'[cur] = req[cur]
    BY <1>2, StillAsked
  <2> QED BY <2>1, <2>2 DEF FilesSound, Arg
<1>3. CASE ServerStep \/ Kill \/ Restart
  <2>1. CASE OpenFile \/ SavePiece
    <3> DEFINE v == req[cur].v
    <3>1. /\ spc' = "saving" /\ req' = req /\ cur' = cur /\ v \in Big /\ Hash[v] \in Hashes
          /\ OpenFile \/ cached[Hash[v]].len # Absent
      BY <2>1 DEF OpenFile, SavePiece, wireVars, servVars, Saves, FilesSound, Arg, Hashes
    <3>2. cached \in Files
      BY DEF BInv, TypeOK, Files
    <3>3. \A h \in Hashes : h # Hash[v] => cached'[h] = cached[h]
      BY <2>1, <3>2 DEF OpenFile, SavePiece, Arg, Files
    <3>4. /\ cached'[Hash[v]].len # Absent
          /\ cached'[Hash[v]].data \in {v, cached[Hash[v]].data}
          /\ OpenFile => cached'[Hash[v]].data = v
      <4>1. CASE OpenFile
        BY <3>1, <3>2, <4>1 DEF OpenFile, Arg, Files, Absent
      <4>2. CASE SavePiece /\ ~OpenFile
        <5>1. cached' = [cached EXCEPT ![Hash[v]].len = @ + 1]
          BY <4>2 DEF SavePiece, Arg
        <5>2. /\ cached[Hash[v]] \in [data : Values, len : {Absent} \cup 0 .. NumPieces]
              /\ cached[Hash[v]].len # Absent
          BY <3>1, <3>2, <4>2 DEF Files
        <5>3. /\ cached'[Hash[v]].len = cached[Hash[v]].len + 1
              /\ cached'[Hash[v]].data = cached[Hash[v]].data
          BY <3>1, <3>2, <5>1, <5>2 DEF Files
        <5> QED BY <4>2, <5>2, <5>3 DEF Absent
      <4> QED BY <2>1, <4>1, <4>2
    <3>5. ASSUME NEW h \in Hashes, cached'[h].len # Absent
          PROVE  /\ cached'[h].data \in Big /\ Hash[cached'[h].data] = h
                 /\ Torn \/ cached'[h].len = NumPieces \/ h = Hash[v]
      <4>1. CASE h # Hash[v]
        BY <3>3, <3>5, <4>1 DEF FilesSound, Arg
      <4>2. CASE h = Hash[v]
        BY <3>1, <3>4, <4>2 DEF FilesSound
      <4> QED BY <4>1, <4>2
    <3> QED BY <3>1, <3>4, <3>5 DEF FilesSound, Arg
  <2>2. CASE SetSaved
    <3>1. /\ cached' = cached /\ spc' # "saving"
          /\ Torn \/ cached[Hash[Arg.v]].len = NumPieces
      BY <2>2 DEF SetSaved, Torn, Answer
    <3> QED BY <3>1 DEF FilesSound
  <2>3. CASE Kill \/ BrokenPipe
    <3>1. cached' = cached /\ spc' = "down" /\ (spc # "saving" \/ Torn)
      BY <2>3 DEF Kill, BrokenPipe, Down, Torn
    <3> QED BY <3>1 DEF FilesSound
  <2>4. CASE Accept \/ EndSession \/ Restart
    BY <2>4 DEF Accept, EndSession, Restart, FilesSound
  <2>5. CASE \/ ServeHello \/ ServeQuery \/ ServeAlloc \/ ServeFree \/ ServeClear \/ ServeSet
             \/ ServeHit \/ ServeMiss \/ ServeGet \/ ServeCopy \/ ServeGraph
    <3>1. cached' = cached /\ spc # "saving" /\ spc' # "saving"
      BY <2>5 DEF Answer, ServeHello, ServeQuery, ServeAlloc, ServeFree, ServeClear, ServeSet,
         ServeHit, ServeMiss, ServeGet, ServeCopy, ServeGraph
    <3> QED BY <3>1 DEF FilesSound
  <2> QED BY <1>3, <2>1, <2>2, <2>3, <2>4, <2>5 DEF ServerStep
<1> QED BY <1>1, <1>2, <1>3 DEF Next

LEMMA InitMaps == Init => Memory!Init
<1> SUFFICES ASSUME Init PROVE Memory!Init
  OBVIOUS
<1>1. /\ cpc = [p \in Procs |-> "idle"] /\ call = [p \in Procs |-> NoCall] /\ cur = 0
  BY DEF Init
<1>2. \A p \in Procs : Job(p) = NoCall /\ \A i \in Slots : At(p, i) = Nothing
  BY <1>1 DEF Job, Answered, At
<1> QED BY <1>2, MemoryIs DEF Store, Jobs, Empty

\* The mapped variables of RemoteMemory do not change.
LEMMA StutterIs == Stutters => UNCHANGED Memory!vars
BY DEF Stutters, Memory!vars, Store, Jobs, At, Job

LEMMA StepMaps ==
  ASSUME RInv, BInv, FilesSound, OthersEmpty, OthersEmpty', [Next]_vars
  PROVE  [Memory!Next]_(Memory!vars)
<1>1. CASE UNCHANGED vars
  <2>1. /\ cpc' = cpc /\ call' = call /\ using' = using /\ ctx' = ctx /\ rsp' = rsp
        /\ cur' = cur /\ mem' = mem
    BY <1>1 DEF vars, procVars, wireVars, servVars
  <2>2. \A q \in Procs : (\A i \in Slots : At(q, i)' = At(q, i)) /\ Job(q)' = Job(q)
    BY <2>1, Same
  <2>3. Stutters
    BY <2>2 DEF Stutters, Store, Jobs
  <2> QED BY <2>3, StutterIs
<1>2. CASE ServerStep \/ Kill \/ Restart
  BY <1>2, ServerMaps, StutterIs DEF Memory!Next
<1>3. ASSUME NEW p \in Procs,
             SendRequest(p) \/ Connect(p) \/ ClientStep(p) \/ ConnectRefused(p) \/ Die(p)
      PROVE  [Memory!Next]_(Memory!vars)
  <2>1. CASE SendRequest(p) \/ Connect(p)
    BY <2>1, SendRequestMaps, ConnectMaps DEF Memory!Next
  <2>2. CASE ReceiveHello(p) \/ ReceiveMiss(p)
    BY <2>2, GoOnStutters, StutterIs
  <2>3. CASE ReceiveDone(p) \/ ReceiveHit(p) \/ ReceiveAlloc(p) \/ ReceiveFree(p)
    BY <2>3, ReceiveMaps DEF Memory!Next
  <2>4. CASE ReturnFailed(p) \/ Abort(p) \/ ConnectRefused(p) \/ Die(p)
    BY <2>4, LoseMaps DEF Memory!Next, Abort, ConnectRefused, Die
  <2> QED BY <1>3, <2>1, <2>2, <2>3, <2>4 DEF ClientStep
<1> QED BY <1>1, <1>2, <1>3 DEF Next

\* The buffers of ggml-rpc.cpp are RemoteMemory, whatever fails: a call that
\* returns has had its effect, at one moment, and a process reads what it last
\* wrote, whatever others do, and however often addresses, sessions and files
\* have been used before.  What the cache can spoil is the set of large data,
\* and nothing else: it leaves one of the Outcomes.
THEOREM BuffersAreMemory == Spec => ImplementsMemory
<1>1. Init => FilesSound /\ Memory!Init
  BY InitFilesSound, InitMaps
<1>2. RInv /\ BInv /\ FilesSound /\ [Next]_vars => FilesSound'
  BY FilesStaySound
<1>3. RInv /\ BInv => OthersEmpty
  BY OthersAreEmpty
<1>4. RInv /\ BInv /\ FilesSound /\ OthersEmpty /\ OthersEmpty' /\ [Next]_vars
        => [Memory!Next]_(Memory!vars)
  BY StepMaps
<1> QED BY Invariance, <1>1, <1>2, <1>3, <1>4, PTL DEF Spec, ImplementsMemory, Memory!Spec

-----------------------------------------------------------------------------
(* A cache in which nothing goes wrong: files are written whole and the data  *)
(* that is saved has hashes of its own.                                       *)

\* Without a short file and a collision the set of data has one outcome, that
\* data, whichever way it came (set_tensor, set_tensor_hash).
THEOREM SetLeavesItsData ==
  ASSUME "saving" \notin KillWhen, ~WriteFails,
         \A v, w \in Big : Hash[v] = Hash[w] => v = w,
         NEW v \in Values, NEW d
  PROVE  Outcomes(d, v) = {Whole(v)}
<1>1. ASSUME v \in Big, NEW f \in Saved(v)
      PROVE  Over(d, f) = Whole(v)
  <2>1. f.data = v /\ f.len = NumPieces
    BY <1>1 DEF Saved, Torn
  <2>2. \A k \in Pieces : k <= f.len
    BY <2>1 DEF Pieces
  <2> QED BY <2>1, <2>2 DEF Over, Whole
<1> QED BY <1>1 DEF Outcomes

\* A hit is answered with the data in place.
LEMMA HitWrites ==
  ASSUME "saving" \notin KillWhen, ~WriteFails,
         \A v, w \in Big : Hash[v] = Hash[w] => v = w,
         RInv, BInv, FilesSound, NEW p \in Procs, p = owner[cur], cl[cur] = "open", ServeHit
  PROVE  mem'[ctx[p][call[p].i].ptr] = Whole(call[p].v)
<1> DEFINE m == Rsp("hash", 1, Nothing)
           c == call[p]
<1>1. m.op = "hash" /\ Requested(m.op) /\ Answer(m) /\ Arg.a \in buffers
  BY DEF ServeHit, Rsp, Known
<1> HIDE DEF m
<1>2. c \in Calls /\ (c.op = "hash" \/ c.op = "set")
  BY <1>1, AskedFor
<1>3. c.op = "set"
  BY <1>2, CallFacts
<1>4. Arg.a = ctx[p][c.i].ptr /\ Arg.v = c.v
  <2> HIDE DEF c
  <2> QED BY <1>1, <1>3, AskedFor DEF c
<1>5. Arg.v \in Big /\ File \in Saved(Arg.v)
  BY FileIsSaved DEF ServeHit
<1>6. mem'[Arg.a] = Over(mem[Arg.a], File)
  BY <1>1 DEF ServeHit, buffers
<1>7. Over(mem[Arg.a], File) \in Outcomes(mem[Arg.a], Arg.v)
  BY <1>5 DEF Outcomes
<1>8. mem'[Arg.a] = Whole(Arg.v)
  <2>1. Arg.v \in Values
    BY <1>5, RpcAssumption
  <2>2. Outcomes(mem[Arg.a], Arg.v) = {Whole(Arg.v)}
    BY <2>1, SetLeavesItsData
  <2> QED BY <1>6, <1>7, <2>2
<1> QED BY <1>4, <1>8

\* A process that has the answer to a hash had it before its own step, and the
\* step of another one does not change what it has.
LEMMA HashStays ==
  ASSUME RInv, BInv, NEW q \in Procs, NEW p \in Procs,
         SendRequest(q) \/ Connect(q) \/ ClientStep(q) \/ ConnectRefused(q) \/ Die(q),
         Received(p, "hash")'
  PROVE  /\ cur' = cur /\ mem' = mem /\ Received(p, "hash")
         /\ using'[p] = using[p] /\ rsp'[using[p]] = rsp[using[p]]
         /\ call'[p] = call[p] /\ ctx'[p] = ctx[p]
<1>1. TypeOK /\ InCall /\ WireTypes
  BY DEF BInv
<1>2. cpc'[p] = "wait" /\ rsp'[using'[p]].op = "hash"
  BY DEF Received
<1>3. CASE SendRequest(q)
  <2>1. PICK c \in Calls, s \in Sessions :
           /\ rsp[s] = NoRsp
           /\ cpc' = [cpc EXCEPT ![q] = "wait"] /\ call' = [call EXCEPT ![q] = c]
           /\ using' = [using EXCEPT ![q] = s] /\ ctx' = ctx /\ rsp' = rsp
           /\ UNCHANGED servVars
    BY <1>3, Sends
  <2>2. p # q
    BY <1>1, <1>2, <2>1, Constants DEF TypeOK
  <2> QED BY <1>1, <1>2, <2>1, <2>2 DEF TypeOK, Received, servVars
<1>4. CASE Connect(q)
  <2> DEFINE s == Cardinality(Sessions) + 1
  <2>1. PICK c \in Calls : Begin(q, c, s, "hello") /\ rsp' = Append(rsp, NoRsp)
                           /\ UNCHANGED servVars
    BY <1>4 DEF Connect
  <2> HIDE DEF s
  <2>2. /\ cpc' = [cpc EXCEPT ![q] = "hello"] /\ call' = [call EXCEPT ![q] = c]
        /\ using' = [using EXCEPT ![q] = s] /\ ctx' = ctx
        /\ cur' = cur /\ mem' = mem
    BY <2>1 DEF Begin, servVars
  <2>3. p # q
    BY <1>1, <1>2, <2>2 DEF TypeOK
  <2>4. cpc[p] = "wait" /\ using'[p] = using[p] /\ call'[p] = call[p]
    BY <1>1, <1>2, <2>2, <2>3 DEF TypeOK
  <2>5. using[p] \in Sessions
    BY <1>1, <2>4 DEF InCall, Waiting
  <2>6. rsp'[using[p]] = rsp[using[p]]
    <3> DEFINE n == Len(owner)
    <3>1. n \in Nat /\ Sessions = 1 .. n
      BY <1>1, SessionSet
    <3> HIDE DEF n
    <3>2. rsp \in [1 .. n -> Rsps] /\ NoRsp \in Rsps
      BY <1>1, <3>1, Constants DEF WireTypes
    <3>3. rsp \in Seq(Rsps) /\ Len(rsp) = n
      BY <3>1, <3>2, AsSeq
    <3>4. \A i \in 1 .. n : Append(rsp, NoRsp)[i] = rsp[i]
      BY <3>2, <3>3, Grow
    <3> QED BY <2>1, <2>5, <3>1, <3>4
  <2> QED BY <1>2, <2>2, <2>4, <2>6 DEF Received
<1>5. CASE ReceiveHello(q) \/ ReceiveMiss(q)
  <2>1. /\ cur' = cur /\ mem' = mem /\ call' = call /\ using' = using /\ ctx' = ctx
        /\ rsp' = [rsp EXCEPT ![using[q]] = NoRsp] /\ Waiting(q)
        /\ \A r \in Procs \ {q} : cpc'[r] = cpc[r]
    BY <1>1, <1>5 DEF ReceiveHello, ReceiveMiss, servVars, procVars, Received, Waiting, TypeOK
  <2>2. using[q] \in Sessions /\ rsp'[using[q]] = NoRsp
    BY <1>1, <2>1 DEF InCall, TypeOK
  <2>3. p # q
    BY <1>2, <2>1, <2>2, Constants
  <2>4. using[p] # using[q] /\ using[p] \in Sessions
    BY <1>1, <1>2, <2>1, <2>3 DEF InCall, Waiting
  <2> QED BY <1>1, <1>2, <2>1, <2>3, <2>4 DEF TypeOK, Received
<1>6. CASE \/ ReceiveDone(q) \/ ReceiveAlloc(q) \/ ReceiveFree(q) \/ ReceiveHit(q)
           \/ ReturnFailed(q)
  <2>1. cpc[q] = "wait" /\ \E new : Return(q, new)
    BY <1>6 DEF ReceiveDone, ReceiveAlloc, ReceiveFree, ReceiveHit, ReturnFailed, Received
  <2>2. PICK new : Return(q, new)
    BY <2>1
  <2>3. /\ cpc' = [cpc EXCEPT ![q] = "idle"] /\ call' = [call EXCEPT ![q] = NoCall]
        /\ using' = [using EXCEPT ![q] = 0] /\ ctx' = [ctx EXCEPT ![q] = new]
        /\ rsp' = [rsp EXCEPT ![using[q]] = NoRsp] /\ cur' = cur /\ mem' = mem
    BY <2>2 DEF Return, servVars
  <2>4. p # q
    BY <1>1, <1>2, <2>3 DEF TypeOK
  <2>5. /\ cpc[p] = "wait" /\ using'[p] = using[p] /\ call'[p] = call[p] /\ ctx'[p] = ctx[p]
    BY <1>1, <1>2, <2>3, <2>4 DEF TypeOK
  <2>6. using[p] # using[q] /\ using[p] \in Sessions
    BY <1>1, <2>1, <2>4, <2>5 DEF InCall, Waiting
  <2>7. rsp'[using[p]] = rsp[using[p]]
    BY <1>1, <2>3, <2>6 DEF TypeOK
  <2> QED BY <1>2, <2>3, <2>5, <2>7 DEF Received
<1>7. CASE Abort(q) \/ ConnectRefused(q) \/ Die(q)
  <2>1. /\ cpc' = [cpc EXCEPT ![q] = "dead"] /\ call' = [call EXCEPT ![q] = NoCall]
        /\ using' = [using EXCEPT ![q] = 0]
        /\ ctx' = [ctx EXCEPT ![q] = [i \in Slots |-> NoCtx]]
        /\ rsp' = [s \in Sessions |-> IF owner[s] = q THEN NoRsp ELSE rsp[s]]
        /\ cur' = cur /\ mem' = mem
    BY <1>7 DEF Abort, ConnectRefused, Die, End, servVars
  <2>2. p # q
    BY <1>1, <1>2, <2>1 DEF TypeOK
  <2>3. /\ cpc[p] = "wait" /\ using'[p] = using[p] /\ call'[p] = call[p] /\ ctx'[p] = ctx[p]
    BY <1>1, <1>2, <2>1, <2>2 DEF TypeOK
  <2>4. using[p] \in Sessions /\ owner[using[p]] = p
    BY <1>1, <2>3 DEF InCall, Waiting
  <2>5. rsp'[using[p]] = rsp[using[p]]
    BY <2>1, <2>2, <2>4
  <2> QED BY <1>2, <2>1, <2>3, <2>5 DEF Received
<1> QED BY <1>3, <1>4, <1>5, <1>6, <1>7 DEF ClientStep

\* The server takes the next of the connections that wait, in their order.
LEMMA AcceptsQueued ==
  ASSUME TypeOK, Accept
  PROVE  cur' \in Sessions /\ sv[cur'] = "queued"
<1>1. Queued \subseteq Nat /\ Queued # {}
  BY SessionSet DEF Queued, Accept
<1>2. \E x \in Queued : \A y \in Queued : x <= y
  BY <1>1, Least
<1>3. cur' = CHOOSE x \in Queued : \A y \in Queued : x <= y
  BY DEF Accept
<1> QED BY <1>2, <1>3 DEF Queued

LEMMA HitStep ==
  ASSUME "saving" \notin KillWhen, ~WriteFails,
         \A v, w \in Big : Hash[v] = Hash[w] => v = w,
         RInv, BInv, FilesSound, HitIsSameData, [Next]_vars
  PROVE  HitIsSameData'
<1>1. TypeOK /\ InCall /\ Serving
  BY DEF BInv
<1> SUFFICES ASSUME NEW p \in Procs, Received(p, "hash")', rsp'[using'[p]].n = 1,
                    using'[p] = cur'
             PROVE  mem'[ctx'[p][call'[p].i].ptr] = Whole(call'[p].v)
  BY DEF HitIsSameData
<1>2. CASE UNCHANGED vars
  BY <1>2 DEF HitIsSameData, Received, vars, procVars, wireVars, servVars
<1>3. ASSUME NEW q \in Procs,
             SendRequest(q) \/ Connect(q) \/ ClientStep(q) \/ ConnectRefused(q) \/ Die(q)
      PROVE  mem'[ctx'[p][call'[p].i].ptr] = Whole(call'[p].v)
  <2>1. /\ cur' = cur /\ mem' = mem /\ Received(p, "hash")
        /\ using'[p] = using[p] /\ rsp'[using[p]] = rsp[using[p]]
        /\ call'[p] = call[p] /\ ctx'[p] = ctx[p]
    BY <1>3, HashStays
  <2> QED BY <2>1 DEF HitIsSameData
<1>4. CASE ServerStep \/ Kill \/ Restart
  <2>1. /\ cpc' = cpc /\ using' = using /\ call' = call /\ ctx' = ctx
        /\ owner' = owner /\ cl' = cl
    <3>1. ASSUME NEW m, Answer(m)
          PROVE  UNCHANGED <<cpc, using, call, ctx, owner, cl>>
      BY <3>1 DEF Answer, procVars, sessVars
    <3>2. CASE ServeHello \/ ServeQuery \/ ServeAlloc \/ ServeFree \/ ServeClear \/ ServeSet
               \/ SetSaved \/ ServeHit \/ ServeMiss \/ ServeGet \/ ServeCopy \/ ServeGraph
      BY <3>1, <3>2 DEF ServeHello, ServeQuery, ServeAlloc, ServeFree, ServeClear, ServeSet,
         SetSaved, ServeHit, ServeMiss, ServeGet, ServeCopy, ServeGraph
    <3>3. CASE Accept \/ OpenFile \/ SavePiece \/ EndSession \/ BrokenPipe \/ Kill \/ Restart
      BY <3>3 DEF Accept, OpenFile, SavePiece, EndSession, BrokenPipe, Kill, Down, Restart,
         procVars, sessVars
    <3> QED BY <1>4, <3>2, <3>3 DEF ServerStep
  <2>2. /\ using[p] \in Sessions /\ owner[using[p]] = p /\ cl[using[p]] = "open"
        /\ using[p] # 0 /\ rsp'[using[p]].op = "hash" /\ rsp'[using[p]].n = 1
        /\ using[p] = cur' /\ cpc[p] = "wait"
    BY <1>1, <2>1, SessionSet DEF InCall, Waiting, Received
  <2>3. ASSUME NEW m, m.op # "none", Requested(m.op), Answer(m)
        PROVE  rsp'[cur] = m /\ using[p] = cur
    <3>1. cur' = cur /\ cur \in Sessions
      BY <1>1, <2>3, Asked DEF Answer
    <3> QED BY <1>1, <2>2, <2>3, <3>1 DEF Answer, TypeOK
  <2>4. CASE Accept
    <3>1. cur' \in Sessions /\ sv[cur'] = "queued" /\ rsp' = rsp
      BY <1>1, <2>4, AcceptsQueued DEF Accept, wireVars
    <3>2. rsp[cur'] = NoRsp
      BY <1>1, <3>1 DEF Serving, New
    <3> QED BY <2>2, <3>1, <3>2, Constants
  <2>5. CASE OpenFile \/ SavePiece \/ Restart
    <3>1. cur' = cur /\ mem' = mem /\ rsp' = rsp
      BY <2>5 DEF OpenFile, SavePiece, Restart, servVars, wireVars
    <3> QED BY <2>1, <2>2, <3>1 DEF HitIsSameData, Received
  <2>6. CASE EndSession \/ BrokenPipe \/ Kill
    BY <2>2, <2>6 DEF EndSession, BrokenPipe, Kill, Down
  <2>7. CASE ServeHit
    <3> DEFINE m == Rsp("hash", 1, Nothing)
    <3>1. m.op = "hash" /\ Requested(m.op) /\ Answer(m)
      BY <2>7 DEF ServeHit, Rsp
    <3> HIDE DEF m
    <3>2. using[p] = cur
      BY <2>3, <3>1
    <3> QED BY <2>1, <2>2, <2>7, <3>2, HitWrites
  <2>8. CASE ServeMiss
    <3> DEFINE m == Rsp("hash", 0, Nothing)
    <3>1. m.op = "hash" /\ m.n = 0 /\ Requested(m.op) /\ Answer(m)
      BY <2>8 DEF ServeMiss, Rsp
    <3> HIDE DEF m
    <3> QED BY <2>2, <2>3, <3>1
  <2>9. CASE ServeHello \/ ServeQuery \/ ServeAlloc \/ ServeFree \/ ServeClear \/ ServeSet
             \/ SetSaved \/ ServeGet \/ ServeCopy \/ ServeGraph
    <3>1. \E n, d : \E op \in {"hello", "query", "alloc", "free", "clear", "set", "get", "copy",
                               "graph"} : Requested(op) /\ Answer(Rsp(op, n, d))
      <4>1. CASE SetSaved
        BY <4>1, SessionSet DEF SetSaved, BInv, Serving, Requested
      <4>2. CASE ServeAlloc
        BY <4>2 DEF ServeAlloc
      <4>3. CASE \/ ServeHello \/ ServeQuery \/ ServeFree \/ ServeClear \/ ServeSet \/ ServeGet
                 \/ ServeCopy \/ ServeGraph
        BY <4>3 DEF ServeHello, ServeQuery, ServeFree, ServeClear, ServeSet, ServeGet,
           ServeCopy, ServeGraph
      <4> QED BY <2>9, <4>1, <4>2, <4>3
    <3>2. PICK op, n, d : op # "none" /\ op # "hash" /\ Requested(op) /\ Answer(Rsp(op, n, d))
      BY <3>1
    <3> DEFINE m == Rsp(op, n, d)
    <3>3. m.op # "none" /\ m.op # "hash" /\ Requested(m.op) /\ Answer(m)
      BY <3>2 DEF Rsp
    <3> HIDE DEF m
    <3> QED BY <2>2, <2>3, <3>3
  <2> QED BY <1>4, <2>4, <2>5, <2>6, <2>7, <2>8, <2>9 DEF ServerStep
<1> QED BY <1>2, <1>3, <1>4 DEF Next

\* ggml-rpc.cpp:572 is right, on a hit "the server has the same data", until the
\* process has taken the answer, on three conditions: the server is not killed
\* while set_tensor writes a file, no file is refused or cut short, and the hash
\* tells the saved data apart.  Without the first the comment is wrong (the run
\* torn_file), and so it is without either of the others.
THEOREM HitIsRight ==
  ASSUME "saving" \notin KillWhen, ~WriteFails,
         \A v, w \in Big : Hash[v] = Hash[w] => v = w
  PROVE  Spec => []HitIsSameData
<1>1. Init => FilesSound /\ HitIsSameData
  BY InitFilesSound DEF Init, HitIsSameData, Received
<1>2. RInv /\ BInv /\ FilesSound /\ [Next]_vars => FilesSound'
  BY FilesStaySound
<1>3. RInv /\ BInv /\ FilesSound /\ HitIsSameData /\ [Next]_vars => HitIsSameData'
  BY HitStep
<1> QED BY Invariance, <1>1, <1>2, <1>3, PTL DEF Spec
=============================================================================
