-------------------------------- MODULE Rpc ---------------------------------
(* Remote buffers over ggml-rpc (src/Endsem/ggml-rpc.cpp): processes that    *)
(* hold buffers on a server, the one session at a time that the server       *)
(* serves, and the directory in which it keeps large tensor data by hash.    *)
(*                                                                           *)
(* A process makes its calls from one thread, which is what the interface    *)
(* asks for (send_rpc_cmd takes no lock): a call sends one request and waits *)
(* for its response.  A tensor fills its buffer, and all buffers are of one  *)
(* size.  Data is written to a file in Pieces, so that a file can hold some  *)
(* of them only.  Hash is any function: nothing but a comment says that data *)
(* with one hash is the same.                                                *)
EXTENDS Integers, FiniteSets, Sequences

CONSTANTS Procs,       \* the client processes
          MaxBuffers,  \* the buffers each process holds at once
          Addrs,       \* addresses the server's allocator hands out
          MaxValue,    \* tensor data: 0 .. MaxValue
          Big,         \* the data larger than HASH_THRESHOLD
          NumPieces,   \* the pieces tensor data is written in
          MaxSessions, \* connections made in all
          Hash,        \* fnv_hash of the data above the threshold
          WriteFails,  \* a file may not open, or take less than is written to it
          KillWhen     \* states in which the server process may be killed

Values  == 0 .. MaxValue
Slots   == UNION {1 .. MaxBuffers[p] : p \in Procs}
Pieces  == 1 .. NumPieces
Absent  == -1          \* the length of no file
Hashes  == {Hash[v] : v \in Big}

ASSUME RpcAssumption ==
  /\ IsFiniteSet(Procs) /\ IsFiniteSet(Addrs) /\ MaxBuffers \in [Procs -> Nat]
  /\ Addrs \subseteq Nat \ {0}
  /\ MaxValue \in Nat /\ Big \subseteq Values
  /\ MaxSessions \in Nat /\ NumPieces \in Nat \ {0}
  /\ Hash \in [Big -> Nat] /\ WriteFails \in BOOLEAN
  /\ KillWhen \subseteq {"accept", "hello", "recv", "saving"}

VARIABLES
  cpc,     \* where each process is: idle, hello, wait or dead
  call,    \* the call a process is in
  using,   \* the session its call uses, or 0
  sock,    \* the session get_socket remembers (a weak_ptr), or 0
  ctx,     \* the buffer contexts of a process: session and remote_ptr
  owner,   \* the process that made a session; the sessions made are its domain
  cl,      \* the client's end of a session: open or closed
  sv,      \* the server's end: queued, served or closed
  req,     \* the request on its way to the server
  rsp,     \* the response on its way to the client
  spc,     \* where the server is
  cur,     \* the session it serves, or 0
  mem,     \* the buffers of that session (its domain is rpc_server::buffers)
  caching, \* the server was started with a cache directory
  cached   \* the file of each hash: the first len pieces of data

procVars == <<cpc, call, using, sock, ctx>>
sessVars == <<owner, cl, sv>>
wireVars == <<req, rsp>>
servVars == <<spc, cur, mem, caching>>
vars == <<procVars, sessVars, wireVars, servVars, cached>>

Whole(v)   == [k \in Pieces |-> v]
Operate(v) == (v + 1) % (MaxValue + 1)     \* the operation of a graph's node
Nothing    == <<>>

Call(op, i, j, v) == [op |-> op, i |-> i, j |-> j, v |-> v]
Req(op, a, b, v)  == [op |-> op, a |-> a, b |-> b, v |-> v]
Rsp(op, n, data)  == [op |-> op, n |-> n, data |-> data]
NoCall == Call("none", 0, 0, 0)
NoReq  == Req("none", 0, 0, 0)
NoRsp  == Rsp("none", 0, Nothing)
NoCtx  == [sess |-> 0, ptr |-> 0]

Sessions == DOMAIN owner
buffers  == DOMAIN mem

Init ==
  /\ cpc = [p \in Procs |-> "idle"] /\ call = [p \in Procs |-> NoCall]
  /\ using = [p \in Procs |-> 0] /\ sock = [p \in Procs |-> 0]
  /\ ctx = [p \in Procs |-> [i \in Slots |-> NoCtx]]
  /\ owner = <<>> /\ cl = <<>> /\ sv = <<>> /\ req = <<>> /\ rsp = <<>>
  /\ spc = "accept" /\ cur = 0 /\ mem = <<>> /\ caching \in BOOLEAN
  /\ cached = [h \in Hashes |-> [data |-> 0, len |-> Absent]]

-----------------------------------------------------------------------------
(* A client process.                                                         *)

\* The calls that ask get_socket for the session; the others have it in the
\* context of their buffer.
ViaEndpoint == {"query", "alloc", "graph"}

\* query stands for get_alignment, get_max_size, get_alloc_size, get_base,
\* init_tensor and get_device_memory, requests that change nothing the others
\* can see.  A copy or a graph has two buffers.
Calls == {Call("query", 0, 0, 0)}
         \cup {Call(op, i, 0, 0) : op \in {"alloc", "free", "clear", "get"}, i \in Slots}
         \cup {Call("set", i, 0, v) : i \in Slots, v \in Values}
         \cup {Call(op, i, j, 0) : op \in {"copy", "graph"}, i \in Slots, j \in Slots}

\* The program calls with buffers it has; cpy_tensor leaves buffers of two
\* sessions to its caller.
Ready(p, c) ==
  /\ c.op = "alloc" => /\ c.i <= MaxBuffers[p] /\ ctx[p][c.i] = NoCtx
                       /\ \A k \in 1 .. c.i - 1 : ctx[p][k] # NoCtx
  /\ c.op \notin {"query", "alloc"} => ctx[p][c.i] # NoCtx
  /\ c.op \in {"copy", "graph"} => c.i # c.j /\ ctx[p][c.j] # NoCtx
  /\ c.op = "copy" => ctx[p][c.i].sess = ctx[p][c.j].sess

\* Mutant: the remembered socket is never found.
AliveNever(s) == FALSE

\* weak_ptr::lock: the socket lives while a buffer context or a call has it.
Alive(s) == s # 0 /\ cl[s] = "open"

\* The first request of a call; data above HASH_THRESHOLD is offered by hash.
Request(p, c) ==
  LET a == IF c.i \in Slots THEN ctx[p][c.i].ptr ELSE 0
      b == IF c.j \in Slots THEN ctx[p][c.j].ptr ELSE 0
  IN  Req(IF c.op = "set" /\ c.v \in Big THEN "hash" ELSE c.op, a, b, c.v)

Begin(p, c, s, pc) ==
  /\ call' = [call EXCEPT ![p] = c]
  /\ using' = [using EXCEPT ![p] = s]
  /\ cpc' = [cpc EXCEPT ![p] = pc]
  /\ UNCHANGED <<sock, ctx>>

\* send_rpc_cmd with the session of the buffer, or the one get_socket finds.
SendRequest(p) ==
  \E c \in Calls :
    LET s == IF c.op \in ViaEndpoint THEN sock[p] ELSE ctx[p][c.i].sess
    IN  /\ cpc[p] = "idle" /\ Ready(p, c)
        /\ c.op \in ViaEndpoint => Alive(sock[p])
        /\ Begin(p, c, s, "wait")
        /\ req' = [req EXCEPT ![s] = Request(p, c)]
        /\ UNCHANGED <<sessVars, rsp, servVars, cached>>

\* get_socket connects and sends HELLO.
Connect(p) ==
  \E c \in Calls :
    LET s == Cardinality(Sessions) + 1
    IN  /\ cpc[p] = "idle" /\ Ready(p, c)
        /\ c.op \in ViaEndpoint /\ ~Alive(sock[p])
        /\ spc # "down" /\ s <= MaxSessions
        /\ Begin(p, c, s, "hello")
        /\ owner' = Append(owner, p)
        /\ cl' = Append(cl, "open") /\ sv' = Append(sv, "queued")
        /\ req' = Append(req, Req("hello", 0, 0, 0)) /\ rsp' = Append(rsp, NoRsp)
        /\ UNCHANGED <<servVars, cached>>

\* check_server_version is content; the call goes on with its own request.
ReceiveHello(p) ==
  LET s == using[p]
  IN  /\ cpc[p] = "hello" /\ rsp[s].op = "hello"
      /\ cpc' = [cpc EXCEPT ![p] = "wait"]
      /\ sock' = [sock EXCEPT ![p] = s]
      /\ req' = [req EXCEPT ![s] = Request(p, call[p])]
      /\ rsp' = [rsp EXCEPT ![s] = NoRsp]
      /\ UNCHANGED <<call, using, ctx, sessVars, servVars, cached>>

\* The call returns: its shared_ptr goes, and with it the socket when no
\* buffer context (of newCtx, the contexts from now on) has another.
Return(p, newCtx) ==
  LET s == using[p]
  IN  /\ cpc' = [cpc EXCEPT ![p] = "idle"]
      /\ call' = [call EXCEPT ![p] = NoCall]
      /\ using' = [using EXCEPT ![p] = 0]
      /\ ctx' = [ctx EXCEPT ![p] = newCtx]
      /\ cl' = IF \E i \in Slots : newCtx[i].sess = s THEN cl
               ELSE [cl EXCEPT ![s] = "closed"]
      /\ rsp' = [rsp EXCEPT ![s] = NoRsp]
      /\ UNCHANGED <<sock, owner, sv, req, servVars, cached>>

Received(p, op) == cpc[p] = "wait" /\ rsp[using[p]].op = op

ReceiveDone(p) ==
  /\ \E op \in {"query", "clear", "set", "get", "copy", "graph"} : Received(p, op)
  /\ Return(p, ctx[p])

\* Mutant: the zero remote_ptr is not looked at.
ReceiveAllocUnchecked(p) ==
  /\ Received(p, "alloc")
  /\ Return(p, [ctx[p] EXCEPT ![call[p].i] =
                  [sess |-> using[p], ptr |-> rsp[using[p]].n]])

\* A zero remote_ptr says that the allocation failed: there is no buffer.
ReceiveAlloc(p) ==
  /\ Received(p, "alloc")
  /\ LET n == rsp[using[p]].n
         c == IF n = 0 THEN NoCtx ELSE [sess |-> using[p], ptr |-> n]
     IN  Return(p, [ctx[p] EXCEPT ![call[p].i] = c])

ReceiveFree(p) ==
  /\ Received(p, "free")
  /\ Return(p, [ctx[p] EXCEPT ![call[p].i] = NoCtx])

\* Mutant: response.result is not looked at.
ReceiveHitUnchecked(p) == Received(p, "hash") /\ Return(p, ctx[p])

\* "the server has the same data, no need to send it"
ReceiveHit(p) ==
  /\ Received(p, "hash") /\ rsp[using[p]].n = 1
  /\ Return(p, ctx[p])

ReceiveMiss(p) ==
  LET s == using[p]
  IN  /\ Received(p, "hash") /\ rsp[s].n = 0
      /\ req' = [req EXCEPT ![s] = Req("set", ctx[p][call[p].i].ptr, 0, call[p].v)]
      /\ rsp' = [rsp EXCEPT ![s] = NoRsp]
      /\ UNCHANGED <<procVars, sessVars, servVars, cached>>

\* The server is gone.  graph_compute alone returns a status ...
Unanswered(p) ==
  /\ cpc[p] \in {"hello", "wait"}
  /\ sv[using[p]] = "closed" /\ rsp[using[p]] = NoRsp

ReturnFailed(p) ==
  /\ Unanswered(p) /\ cpc[p] = "wait" /\ call[p].op = "graph"
  /\ Return(p, ctx[p])

\* The process ends; the kernel closes its sockets.
End(p) ==
  /\ cpc' = [cpc EXCEPT ![p] = "dead"]
  /\ call' = [call EXCEPT ![p] = NoCall]
  /\ using' = [using EXCEPT ![p] = 0] /\ sock' = [sock EXCEPT ![p] = 0]
  /\ ctx' = [ctx EXCEPT ![p] = [i \in Slots |-> NoCtx]]
  /\ cl' = [s \in Sessions |-> IF owner[s] = p THEN "closed" ELSE cl[s]]
  /\ rsp' = [s \in Sessions |-> IF owner[s] = p THEN NoRsp ELSE rsp[s]]
  /\ UNCHANGED <<owner, sv, req, servVars, cached>>

\* ... the others assert; a write to the lost session may kill any of them.
Abort(p) == Unanswered(p) /\ End(p)

\* alloc_buffer uses the null socket that get_socket returns without a server.
ConnectRefused(p) ==
  /\ cpc[p] = "idle" /\ spc = "down" /\ ~Alive(sock[p])
  /\ \E i \in Slots : Ready(p, Call("alloc", i, 0, 0))
  /\ End(p)

\* It exits or dies at any time.
Die(p) == cpc[p] # "dead" /\ End(p)

ClientStep(p) ==
  \/ ReceiveHello(p) \/ ReceiveDone(p) \/ ReceiveAlloc(p) \/ ReceiveFree(p)
  \/ ReceiveHit(p) \/ ReceiveMiss(p)
  \/ ReturnFailed(p) \/ Abort(p)

-----------------------------------------------------------------------------
(* The server: start_server accepts, rpc_serve_client serves the session.    *)

Queued == {s \in Sessions : sv[s] = "queued"}

Accept ==
  /\ spc = "accept" /\ Queued # {}
  /\ cur' = CHOOSE s \in Queued : \A t \in Queued : s <= t
  /\ sv' = [sv EXCEPT ![cur'] = "served"]
  /\ spc' = "hello"
  /\ UNCHANGED <<procVars, owner, cl, wireVars, mem, caching, cached>>

\* A command of the session that is served, and its argument.
Requested(op) == cur # 0 /\ req[cur].op = op
Arg           == req[cur]

\* The handlers use only buffers of the session.  SameBuffers shows that the
\* processes name no others, so that the handlers' refusals are not modelled.
Known(a) == a \in buffers

\* send_msg: what is sent to a closed end is lost, and SIGPIPE may follow.
Answer(m) ==
  /\ req' = [req EXCEPT ![cur] = NoReq]
  /\ \/ /\ cl[cur] = "open" /\ spc' = "recv"
        /\ rsp' = [rsp EXCEPT ![cur] = m]
     \/ cl[cur] = "closed" /\ spc' \in {"recv", "dying"} /\ UNCHANGED rsp
  /\ UNCHANGED <<procVars, sessVars, cur, caching>>

ServeHello ==
  /\ spc = "hello" /\ Requested("hello")
  /\ Answer(Rsp("hello", 0, Nothing)) /\ UNCHANGED <<mem, cached>>

ServeQuery ==
  /\ spc = "recv" /\ Requested("query")
  /\ Answer(Rsp("query", 0, Nothing)) /\ UNCHANGED <<mem, cached>>

\* The memory is not initialised; the allocation may fail.
ServeAlloc ==
  /\ spc = "recv" /\ Requested("alloc")
  /\ \/ \E a \in Addrs \ buffers : \E c \in [Pieces -> Values] :
          /\ mem' = [x \in buffers \cup {a} |-> IF x = a THEN c ELSE mem[x]]
          /\ Answer(Rsp("alloc", a, Nothing))
     \/ UNCHANGED mem /\ Answer(Rsp("alloc", 0, Nothing))
  /\ UNCHANGED cached

\* Mutant: the buffer is not taken out of the set.
ServeFreeKept ==
  /\ spc = "recv" /\ Requested("free") /\ Known(Arg.a)
  /\ Answer(Rsp("free", 0, Nothing)) /\ UNCHANGED <<mem, cached>>

ServeFree ==
  /\ spc = "recv" /\ Requested("free") /\ Known(Arg.a)
  /\ mem' = [x \in buffers \ {Arg.a} |-> mem[x]]
  /\ Answer(Rsp("free", 0, Nothing)) /\ UNCHANGED cached

ServeClear ==
  /\ spc = "recv" /\ Requested("clear") /\ Known(Arg.a)
  /\ mem' = [mem EXCEPT ![Arg.a] = Whole(Arg.v)]
  /\ Answer(Rsp("clear", 0, Nothing)) /\ UNCHANGED cached

\* set_tensor: large data is saved first when there is a cache directory.
Saves == caching /\ Arg.v \in Big

\* A file that does not open is not noticed.
ServeSet ==
  /\ spc = "recv" /\ Requested("set") /\ Known(Arg.a) /\ (Saves => WriteFails)
  /\ mem' = [mem EXCEPT ![Arg.a] = Whole(Arg.v)]
  /\ Answer(Rsp("set", 0, Nothing)) /\ UNCHANGED cached

\* The ofstream creates or truncates the file ...
OpenFile ==
  /\ spc = "recv" /\ Requested("set") /\ Known(Arg.a) /\ Saves
  /\ cached' = [cached EXCEPT ![Hash[Arg.v]] = [data |-> Arg.v, len |-> 0]]
  /\ spc' = "saving"
  /\ UNCHANGED <<procVars, sessVars, wireVars, cur, mem, caching>>

\* ... and writes ...
SavePiece ==
  /\ spc = "saving" /\ cached[Hash[Arg.v]].len < NumPieces
  /\ cached' = [cached EXCEPT ![Hash[Arg.v]].len = @ + 1]
  /\ UNCHANGED <<procVars, sessVars, wireVars, servVars>>

\* ... as much as the disk takes: the stream is not asked whether it failed.
\* Then the tensor is set.
SetSaved ==
  /\ spc = "saving" /\ (cached[Hash[Arg.v]].len = NumPieces \/ WriteFails)
  /\ mem' = [mem EXCEPT ![Arg.a] = Whole(Arg.v)]
  /\ Answer(Rsp("set", 0, Nothing)) /\ UNCHANGED cached

\* set_tensor_hash has the hash alone and looks for its file, which it reads to
\* the end.  (One that exists and cannot be read ends the server, like Kill.)
File == cached[Hash[Arg.v]]
Hit  == caching /\ File.len # Absent

\* The content d with the data of a file written over it.
Over(d, f) == [k \in Pieces |-> IF k <= f.len THEN f.data ELSE d[k]]

\* As much as the file has is written to the tensor.
ServeHit ==
  /\ spc = "recv" /\ Requested("hash") /\ Hit /\ Known(Arg.a)
  /\ mem' = [mem EXCEPT ![Arg.a] = Over(@, File)]
  /\ Answer(Rsp("hash", 1, Nothing)) /\ UNCHANGED cached

ServeMiss ==
  /\ spc = "recv" /\ Requested("hash") /\ ~Hit
  /\ Answer(Rsp("hash", 0, Nothing)) /\ UNCHANGED <<mem, cached>>

ServeGet ==
  /\ spc = "recv" /\ Requested("get") /\ Known(Arg.a)
  /\ Answer(Rsp("get", 0, mem[Arg.a])) /\ UNCHANGED <<mem, cached>>

ServeCopy ==
  /\ spc = "recv" /\ Requested("copy") /\ Known(Arg.a) /\ Known(Arg.b)
  /\ mem' = [mem EXCEPT ![Arg.b] = mem[Arg.a]]
  /\ Answer(Rsp("copy", 0, Nothing)) /\ UNCHANGED cached

\* graph_compute with one node, the result of the operation on its source.
ServeGraph ==
  /\ spc = "recv" /\ Requested("graph") /\ Known(Arg.a) /\ Known(Arg.b)
  /\ mem' = [mem EXCEPT ![Arg.b] = [k \in Pieces |-> Operate(mem[Arg.a][k])]]
  /\ Answer(Rsp("graph", 0, Nothing)) /\ UNCHANGED cached

\* recv_data fails, also on a request of which the rest does not come.
EndOfStream == cl[cur] = "closed"

\* Mutant: the session of a process that has gone waits for its buffers.
EndSessionEmpty ==
  /\ spc \in {"hello", "recv"} /\ EndOfStream /\ buffers = {}
  /\ sv' = [sv EXCEPT ![cur] = "closed"]
  /\ spc' = "accept" /\ cur' = 0 /\ mem' = <<>>
  /\ UNCHANGED <<procVars, owner, cl, wireVars, caching, cached>>

\* rpc_serve_client returns: ~rpc_server frees the buffers, the socket closes.
EndSession ==
  /\ spc \in {"hello", "recv"} /\ EndOfStream
  /\ sv' = [sv EXCEPT ![cur] = "closed"]
  /\ spc' = "accept" /\ cur' = 0 /\ mem' = <<>>
  /\ UNCHANGED <<procVars, owner, cl, wireVars, caching, cached>>

Down ==
  /\ spc' = "down" /\ cur' = 0 /\ mem' = <<>>
  /\ sv' = [s \in Sessions |-> "closed"]
  /\ UNCHANGED <<procVars, owner, cl, wireVars, caching, cached>>

\* SIGPIPE is not handled.
BrokenPipe == spc = "dying" /\ Down

\* Somebody kills the process: it has no other way to stop.
Kill == spc \in KillWhen /\ Down

\* It is started again, with or without -c; the files are still there.
Restart ==
  /\ spc = "down"
  /\ spc' = "accept" /\ caching' \in BOOLEAN
  /\ UNCHANGED <<procVars, sessVars, wireVars, cur, mem, cached>>

ServerStep ==
  \/ Accept \/ ServeHello \/ ServeQuery \/ ServeAlloc
  \/ ServeFree \/ ServeClear \/ ServeSet \/ OpenFile \/ SavePiece \/ SetSaved
  \/ ServeHit \/ ServeMiss \/ ServeGet \/ ServeCopy \/ ServeGraph
  \/ EndSession \/ BrokenPipe

-----------------------------------------------------------------------------
Next ==
  \/ ServerStep \/ Kill \/ Restart
  \/ \E p \in Procs : \/ SendRequest(p) \/ Connect(p) \/ ClientStep(p)
                      \/ ConnectRefused(p) \/ Die(p)

Spec == Init /\ [][Next]_vars

(* Fairness: the server and a process in a call go on.  Nobody owes a call,  *)
(* the end of a process, or a server that is killed or started again.        *)
Fairness == WF_vars(ServerStep) /\ \A p \in Procs : WF_vars(ClientStep(p))
FairSpec == Spec /\ Fairness

-----------------------------------------------------------------------------
(* Safety.                                                                   *)

\* Every variable has its type.
TypeOK ==
  /\ cpc \in [Procs -> {"idle", "hello", "wait", "dead"}]
  /\ call \in [Procs -> Calls \cup {NoCall}]
  /\ using \in [Procs -> Sessions \cup {0}]
  /\ sock \in [Procs -> Sessions \cup {0}]
  /\ ctx \in [Procs -> [Slots -> [sess : Sessions, ptr : Addrs] \cup {NoCtx}]]
  /\ owner \in Seq(Procs)
  /\ cl \in [Sessions -> {"open", "closed"}]
  /\ sv \in [Sessions -> {"queued", "served", "closed"}]
  /\ DOMAIN req = Sessions /\ DOMAIN rsp = Sessions
  /\ spc \in {"accept", "hello", "recv", "saving", "dying", "down"}
  /\ cur \in Sessions \cup {0}
  /\ buffers \subseteq Addrs /\ mem \in [buffers -> [Pieces -> Values]]
  /\ caching \in BOOLEAN
  /\ cached \in [Hashes -> [data : Values, len : {Absent} \cup 0 .. NumPieces]]

\* A process has one connection at most: get_socket never makes a second one
\* while a buffer holds the first, and so no process waits in HELLO for the
\* end of its own session.
OneConnection ==
  \A s, t \in Sessions :
    owner[s] = owner[t] /\ cl[s] = "open" /\ cl[t] = "open" => s = t

\* The remote_ptr of the buffers of the process p that is served.
Pointers(p) == {ctx[p][i].ptr : i \in {k \in Slots : ctx[p][k].sess = cur}}

\* The two ends agree on the buffers of a session.  Between two requests the
\* server has those the process knows of, no more (a leak until the session
\* ends) and no fewer (a pointer to freed memory), and no two slots share one.
SameBuffers ==
  cur # 0 /\ cl[cur] = "open" =>
    LET p == owner[cur]
    IN  /\ \A i, j \in Slots : ctx[p][i].sess = cur /\ ctx[p][i] = ctx[p][j] => i = j
        /\ rsp[cur] = NoRsp => Pointers(p) = buffers
        /\ call[p].op \notin {"alloc", "free"} => Pointers(p) = buffers

\* The buffer behind a slot, from the moment the server has answered.
Place(p, i) == IF Received(p, "alloc") /\ call[p].i = i
               THEN [sess |-> using[p], ptr |-> rsp[using[p]].n] ELSE ctx[p][i]

\* The effect of the call is there and its last response is on the way.
Answered(p) ==
  /\ cpc[p] = "wait" /\ rsp[using[p]] # NoRsp
  /\ ~(Received(p, "hash") /\ rsp[using[p]].n = 0)

\* What a set of v over the content d may leave.  Small data is written as it
\* is, large data as it is or from a file that a set of data with its hash has
\* saved, which is whole unless the server is killed or refused the space.
Torn           == "saving" \in KillWhen \/ WriteFails
Saved(v)       == [data : {w \in Big : Hash[w] = Hash[v]},
                   len  : IF Torn THEN 0 .. NumPieces ELSE {NumPieces}]
Outcomes(d, v) == {Whole(v)} \cup {Over(d, f) : f \in IF v \in Big THEN Saved(v) ELSE {}}

Memory == INSTANCE RemoteMemory WITH
  store <- [p \in Procs |-> [i \in Slots |->
              LET b == Place(p, i)
              IN  IF cur # 0 /\ b.sess = cur /\ b.ptr \in buffers
                  THEN mem[b.ptr] ELSE Nothing]],
  job   <- [p \in Procs |->
              IF Answered(p) THEN [op |-> "done", data |-> rsp[using[p]].data]
              ELSE call[p]]

\* The buffers are RemoteMemory: a call that returns has had its effect, and a
\* process reads what it last wrote, whatever others do and however often
\* addresses, sessions and files have been used before.  Only large data may be
\* written wrong, and only as Outcomes says: whole files and a hash that tells
\* the data apart leave Whole(v), whichever way the data came.
ImplementsMemory == Memory!Spec

-----------------------------------------------------------------------------
(* Liveness, under FairSpec.                                                 *)

\* A process waits for ever in HELLO only behind another one that stays
\* connected: sessions that are over make room for the next.
HelloAnswered ==
  \A p \in Procs :
    <>[](cpc[p] = "hello") =>
      <>[](\E q \in Procs \ {p} : cur # 0 /\ owner[cur] = q /\ cl[cur] = "open")

-----------------------------------------------------------------------------
(* What a comment of the program says and the code does not do; the subject  *)
(* of a run that TLC must refute.                                            *)

\* ggml-rpc.cpp:572: on a hit "the server has the same data".
HitIsSameData ==
  \A p \in Procs :
    Received(p, "hash") /\ rsp[using[p]].n = 1 /\ using[p] = cur
      => mem[ctx[p][call[p].i].ptr] = Whole(call[p].v)
=============================================================================
