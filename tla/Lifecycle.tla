----------------------------- MODULE Lifecycle -------------------------------
(* The connections of a Master from start to stop (src/master.cpp): the      *)
(* accept thread, which starts a handler thread for each connection and then *)
(* enters it in clientThreads_ under the descriptor of its socket; where a   *)
(* handler waits, in recv or, before the start of the computation, on        *)
(* taskCV_; its end, which closes the socket and then takes its entry out;   *)
(* and stop, which joins every handler while it holds clientsMutex_.  The    *)
(* tasks and results a handler passes on are the subject of Dispatch.        *)
(*                                                                           *)
(* The kernel gives a closed descriptor to a later connection.  Assigning to *)
(* an entry that holds a running or finished thread, or destroying it, calls *)
(* std::terminate: the entry must have been joined or detached.              *)
EXTENDS Integers, FiniteSets

CONSTANTS Conns,   \* the connections that clients make
          Fds      \* the descriptors free for them

ASSUME LifecycleAssumption == IsFiniteSet(Conns) /\ Fds \subseteq Nat /\ IsFiniteSet(Fds)

NoConn == "none"
NoFd   == -1

ASSUME NoConnAssumption == NoConn \notin Conns

VARIABLES
  running,        \* running_
  listening,      \* serverSocket_ is open
  clientThreads,  \* clientThreads_: the connection whose thread an entry holds
  joiner,         \* clientsMutex_ is held by stop
  started,        \* computationStarted_
  mpc, toJoin,    \* where the main thread is, and the entries its loop has left
  apc, spawned,   \* where the accept thread is, and the handler it has started
  hpc,            \* where each handler is
  fd,             \* the descriptor of each connection at the master
  open,           \* the descriptors in use
  peer,           \* what each client has done
  asked,          \* a TASK_REQUEST of the client is in its socket, unread
  terminated      \* std::terminate has been called

mainVars   == <<running, listening, started, joiner, mpc, toJoin>>
acceptVars == <<apc, spawned>>
clientVars == <<peer, asked>>
vars == <<mainVars, acceptVars, clientThreads, hpc, fd, open, clientVars, terminated>>

Init ==
  /\ running = TRUE /\ listening = TRUE /\ started = FALSE
  /\ clientThreads = [f \in Fds |-> NoConn] /\ joiner = FALSE
  /\ mpc = "up" /\ toJoin = {}
  /\ apc = "top" /\ spawned = NoConn
  /\ hpc = [c \in Conns |-> "none"] /\ fd = [c \in Conns |-> NoFd]
  /\ open = {} /\ peer = [c \in Conns |-> "out"]
  /\ asked = [c \in Conns |-> FALSE]
  /\ terminated = FALSE

\* The process is there.
Alive == ~terminated /\ mpc # "exited"

Entries == {f \in Fds : clientThreads[f] # NoConn}

-----------------------------------------------------------------------------
(* The accept thread (Master::acceptConnections).                            *)

\* Mutant: the loop does not look at running_.
AcceptTopForever ==
  /\ Alive /\ apc = "top"
  /\ apc' = "accept"
  /\ UNCHANGED <<mainVars, spawned, clientThreads, hpc, fd, open, clientVars, terminated>>

AcceptTop ==
  /\ Alive /\ apc = "top"
  /\ apc' = IF running THEN "accept" ELSE "done"
  /\ UNCHANGED <<mainVars, spawned, clientThreads, hpc, fd, open, clientVars, terminated>>

\* A thread that is in accept when the socket is closed may still get one.
AcceptConnection(c) ==
  /\ Alive /\ apc = "accept" /\ peer[c] # "out" /\ hpc[c] = "none"
  /\ \E f \in Fds \ open : fd' = [fd EXCEPT ![c] = f] /\ open' = open \cup {f}
  /\ hpc' = [hpc EXCEPT ![c] = "serve"]
  /\ apc' = "spawned" /\ spawned' = c
  /\ UNCHANGED <<mainVars, clientThreads, clientVars, terminated>>

\* Mutant: the -1 of a failed accept is taken for a descriptor.
AcceptErrorIgnored ==
  /\ Alive /\ apc = "accept" /\ ~listening
  /\ \E c \in Conns : /\ hpc[c] = "none"
                      /\ hpc' = [hpc EXCEPT ![c] = "serve"] /\ spawned' = c
  /\ apc' = "spawned"
  /\ UNCHANGED <<mainVars, clientThreads, fd, open, clientVars, terminated>>

AcceptError ==
  /\ Alive /\ apc = "accept" /\ ~listening
  /\ apc' = "top"
  /\ UNCHANGED <<mainVars, spawned, clientThreads, hpc, fd, open, clientVars, terminated>>

\* Mutant: an entry that is there is detached and replaced.
EnterThreadReplacing ==
  /\ Alive /\ apc = "spawned" /\ ~joiner
  /\ clientThreads' = [clientThreads EXCEPT ![fd[spawned]] = spawned]
  /\ apc' = "top" /\ spawned' = NoConn
  /\ UNCHANGED <<mainVars, hpc, fd, open, clientVars, terminated>>

\* clientThreads_[clientSocket] = std::move(clientThread).
EnterThread ==
  /\ Alive /\ apc = "spawned" /\ ~joiner
  /\ IF fd[spawned] \in Entries
     THEN /\ terminated' = TRUE
          /\ UNCHANGED <<clientThreads, acceptVars>>
     ELSE /\ clientThreads' = [clientThreads EXCEPT ![fd[spawned]] = spawned]
          /\ apc' = "top" /\ spawned' = NoConn
          /\ UNCHANGED terminated
  /\ UNCHANGED <<mainVars, hpc, fd, open, clientVars>>

AcceptStep == AcceptTop \/ AcceptError \/ EnterThread
              \/ \E c \in Conns : AcceptConnection(c)

-----------------------------------------------------------------------------
(* A handler (Master::handleClient).                                         *)

\* The answer to a request, after the wait on taskCV_: it goes on until the
\* computation has started or running_ is false.  Then the loop is left, or the
\* client gets a task or NO_WORK, or, when all is done, SHUTDOWN.
Answer(c) ==
  \E next \in IF ~running THEN {"leaving"}
              ELSE IF started THEN {"serve", "leaving"} ELSE {"drowsy"} :
    hpc' = [hpc EXCEPT ![c] = next]

\* A handler in receiveMessage gets the request of its client.
ReadRequest(c) ==
  /\ Alive /\ hpc[c] = "serve" /\ asked[c]
  /\ asked' = [asked EXCEPT ![c] = FALSE]
  /\ Answer(c)
  /\ UNCHANGED <<mainVars, acceptVars, clientThreads, fd, open, peer, terminated>>

\* It has found the predicate of the wait false; it is in the wait set only now.
FallAsleep(c) ==
  /\ Alive /\ hpc[c] = "drowsy"
  /\ hpc' = [hpc EXCEPT ![c] = "asleep"]
  /\ UNCHANGED <<mainVars, acceptVars, clientThreads, fd, open, clientVars, terminated>>

\* A condition variable may wake a thread for no reason.
WakeSpuriously(c) ==
  /\ Alive /\ hpc[c] = "asleep"
  /\ hpc' = [hpc EXCEPT ![c] = "woken"]
  /\ UNCHANGED <<mainVars, acceptVars, clientThreads, fd, open, clientVars, terminated>>

\* Awake again, it looks at the predicate once more.
Retest(c) ==
  /\ Alive /\ hpc[c] = "woken"
  /\ Answer(c)
  /\ UNCHANGED <<mainVars, acceptVars, clientThreads, fd, open, clientVars, terminated>>

\* notify_all: whoever sleeps now wakes.
Notified == [c \in Conns |-> IF hpc[c] = "asleep" THEN "woken" ELSE hpc[c]]

\* Mutant: the loop has no branch for CLIENT_DISCONNECT and goes round again.
SeeDisconnectIgnored(c) ==
  /\ Alive /\ hpc[c] = "serve" /\ peer[c] = "left"
  /\ UNCHANGED vars

\* receiveMessage finds the client gone: at the end of the stream, or at once
\* when the connection was reset.
SeeDisconnect(c) ==
  /\ Alive /\ hpc[c] = "serve" /\ peer[c] = "left"
  /\ hpc' = [hpc EXCEPT ![c] = "leaving"]
  /\ UNCHANGED <<mainVars, acceptVars, clientThreads, fd, open, clientVars, terminated>>

\* After CPU_INFO or a result the condition of the loop finds running_ false.
SeeStop(c) ==
  /\ Alive /\ hpc[c] = "serve" /\ ~running
  /\ hpc' = [hpc EXCEPT ![c] = "leaving"]
  /\ UNCHANGED <<mainVars, acceptVars, clientThreads, fd, open, clientVars, terminated>>

\* Mutant: the socket is closed where the loop is left, and again after it.
CloseSocketTwice(c) ==
  /\ Alive /\ hpc[c] \in {"leaving", "closed"}
  /\ open' = open \ {fd[c]}
  /\ hpc' = [hpc EXCEPT ![c] = "closed"]
  /\ UNCHANGED <<mainVars, acceptVars, clientThreads, fd, clientVars, terminated>>

CloseSocket(c) ==
  /\ Alive /\ hpc[c] = "leaving"
  /\ open' = open \ {fd[c]}
  /\ hpc' = [hpc EXCEPT ![c] = "closed"]
  /\ UNCHANGED <<mainVars, acceptVars, clientThreads, fd, clientVars, terminated>>

\* clientThreads_.find(clientSocket), detach, erase: if there is an entry.
EraseEntry(c) ==
  /\ Alive /\ hpc[c] = "closed" /\ ~joiner
  /\ clientThreads' = [clientThreads EXCEPT ![fd[c]] = NoConn]
  /\ hpc' = [hpc EXCEPT ![c] = "exited"]
  /\ UNCHANGED <<mainVars, acceptVars, fd, open, clientVars, terminated>>

HandlerStep(c) == ReadRequest(c) \/ FallAsleep(c) \/ Retest(c) \/ SeeDisconnect(c)
                  \/ CloseSocket(c) \/ EraseEntry(c)

-----------------------------------------------------------------------------
(* The main thread in startComputation.                                      *)

\* It is refused while clientThreads_ is empty.  The look at the table, the flag
\* and the notification are one step here, which a handler about to sleep misses;
\* Dispatch has them apart, and the handler that sleeps for ever.
StartComputation ==
  /\ Alive /\ mpc = "up" /\ ~started /\ Entries # {}
  /\ started' = TRUE /\ hpc' = Notified
  /\ UNCHANGED <<running, listening, joiner, mpc, toJoin, acceptVars, clientThreads,
                 fd, open, clientVars, terminated>>

-----------------------------------------------------------------------------
(* The main thread in Master::stop, which ~Master calls, and the end of main. *)

StopFlag ==
  /\ Alive /\ mpc = "up"
  /\ mpc' = "close" /\ running' = FALSE
  /\ UNCHANGED <<listening, started, joiner, toJoin, acceptVars, clientThreads, hpc,
                 fd, open, clientVars, terminated>>

CloseListener ==
  /\ Alive /\ mpc = "close"
  /\ mpc' = "notify" /\ listening' = FALSE
  /\ UNCHANGED <<running, started, joiner, toJoin, acceptVars, clientThreads, hpc,
                 fd, open, clientVars, terminated>>

WakeHandlers ==
  /\ Alive /\ mpc = "notify"
  /\ mpc' = "lock" /\ hpc' = Notified
  /\ UNCHANGED <<running, listening, started, joiner, toJoin, acceptVars,
                 clientThreads, fd, open, clientVars, terminated>>

TakeMutex ==
  /\ Alive /\ mpc = "lock"
  /\ mpc' = "join" /\ joiner' = TRUE /\ toJoin' = Entries
  /\ UNCHANGED <<running, listening, started, acceptVars, clientThreads, hpc, fd,
                 open, clientVars, terminated>>

\* The entry the loop is at: the map is in the order of the descriptors.
Current == CHOOSE f \in toJoin : \A g \in toJoin : f <= g

\* client.second.join(): the thread has ended.  The SHUTDOWN sent before it
\* ends the worker of the client; the client's socket stays open.
JoinHandler ==
  /\ Alive /\ mpc = "join" /\ toJoin # {} /\ hpc[clientThreads[Current]] = "exited"
  /\ toJoin' = toJoin \ {Current}
  /\ UNCHANGED <<running, listening, started, joiner, mpc, acceptVars, clientThreads,
                 hpc, fd, open, clientVars, terminated>>

ClearThreads ==
  /\ Alive /\ mpc = "join" /\ toJoin = {}
  /\ mpc' = "stopped" /\ joiner' = FALSE
  /\ clientThreads' = [f \in Fds |-> NoConn]
  /\ UNCHANGED <<running, listening, started, toJoin, acceptVars, hpc, fd, open,
                 clientVars, terminated>>

\* The Master is destroyed, clientThreads_ with it, and main returns.
Exit ==
  /\ Alive /\ mpc = "stopped"
  /\ IF Entries = {} THEN mpc' = "exited" /\ UNCHANGED terminated
     ELSE terminated' = TRUE /\ UNCHANGED mpc
  /\ UNCHANGED <<running, listening, started, joiner, toJoin, acceptVars,
                 clientThreads, hpc, fd, open, clientVars>>

StopStep == CloseListener \/ WakeHandlers \/ TakeMutex \/ JoinHandler \/ ClearThreads \/ Exit

-----------------------------------------------------------------------------
(* The clients.                                                              *)

Connect(c) ==
  /\ Alive /\ peer[c] = "out"
  /\ peer' = [peer EXCEPT ![c] = "connected"]
  /\ UNCHANGED <<mainVars, acceptVars, clientThreads, hpc, fd, open, asked, terminated>>

\* A client asks again only when it has been answered.
Ask(c) ==
  /\ Alive /\ peer[c] = "connected" /\ ~asked[c] /\ hpc[c] \in {"none", "serve"}
  /\ asked' = [asked EXCEPT ![c] = TRUE]
  /\ UNCHANGED <<mainVars, acceptVars, clientThreads, hpc, fd, open, peer, terminated>>

Leave(c) ==
  /\ Alive /\ peer[c] = "connected"
  /\ peer' = [peer EXCEPT ![c] = "left"]
  /\ UNCHANGED <<mainVars, acceptVars, clientThreads, hpc, fd, open, asked, terminated>>

-----------------------------------------------------------------------------
Next ==
  \/ AcceptStep \/ StartComputation \/ StopFlag \/ StopStep
  \/ \E c \in Conns : \/ HandlerStep(c) \/ WakeSpuriously(c) \/ SeeStop(c)
                       \/ Connect(c) \/ Ask(c) \/ Leave(c)

Spec == Init /\ [][Next]_vars

(* Fairness: the scheduler runs every thread that can take a step.  Nobody   *)
(* owes the system a connection, a request, a departure, the keys that start *)
(* the computation and call stop, or a wake-up without a reason; a handler   *)
(* that sleeps stays asleep until it is notified.                            *)
Fairness ==
  /\ WF_vars(AcceptStep) /\ WF_vars(StopStep)
  /\ \A c \in Conns : WF_vars(HandlerStep(c))

FairSpec == Spec /\ Fairness

-----------------------------------------------------------------------------
Waiting(c) == hpc[c] \in {"drowsy", "asleep", "woken"}
Serving(c) == hpc[c] \in {"serve", "leaving"} \/ Waiting(c)

\* Every variable has its type, and every handler has been given a descriptor.
TypeOK ==
  /\ running \in BOOLEAN /\ listening \in BOOLEAN /\ started \in BOOLEAN
  /\ joiner \in BOOLEAN /\ terminated \in BOOLEAN
  /\ clientThreads \in [Fds -> Conns \cup {NoConn}]
  /\ mpc \in {"up", "close", "notify", "lock", "join", "stopped", "exited"}
  /\ toJoin \subseteq Fds
  /\ apc \in {"top", "accept", "spawned", "done"}
  /\ spawned \in Conns \cup {NoConn}
  /\ hpc \in [Conns -> {"none", "serve", "drowsy", "asleep", "woken", "leaving",
                        "closed", "exited"}]
  /\ fd \in [Conns -> Fds \cup {NoFd}] /\ open \subseteq Fds
  /\ \A c \in Conns : hpc[c] # "none" => fd[c] \in Fds
  /\ peer \in [Conns -> {"out", "connected", "left"}]
  /\ asked \in [Conns -> BOOLEAN]

\* A handler owns its socket: the descriptor is open, and no two handlers that
\* have not closed theirs have the same, whatever was closed and given out
\* again before: what a handler at work sends and receives goes over the socket
\* of its own client.  (The SHUTDOWN that stop sends to every descriptor in the
\* map is not a handler's, and is not covered.)
OwnDescriptor ==
  \A c \in Conns : Serving(c) =>
    /\ fd[c] \in open
    /\ \A d \in Conns \ {c} : Serving(d) => fd[d] # fd[c]

\* While its client is served, a handler stays in clientThreads_ or in the hands
\* of the accept thread: the end of another connection that had the same
\* descriptor before takes out an entry of its own or of a finished handler,
\* never that of a handler at work, which startComputation counts and stop joins.
\* (After stop has cleared the map the balance of entries and handlers is lost.)
LiveHandlerKeepsEntry ==
  mpc \notin {"stopped", "exited"} =>
    \A c \in Conns : Serving(c) => spawned = c \/ clientThreads[fd[c]] = c

\* Once stop has returned at most one handler is still at work: that of the
\* connection which the accept thread was getting when running_ was cleared.
StopLeavesOneHandler ==
  mpc \in {"stopped", "exited"} => Cardinality({c \in Conns : Serving(c)}) <= 1

\* The handler of c has ended, or the master no longer runs.
Gone(c) == hpc[c] = "exited" \/ ~running \/ terminated

\* The handler of a client that left closes its connection and ends, or it sleeps
\* on taskCV_, where it cannot see that the client left (master.cpp:265, 371).
\* From the start of the computation on nobody goes to sleep: a handler that has
\* not slept through the start ends in any case.
DisconnectedIsForgotten ==
  \A c \in Conns :
    /\ (peer[c] = "left" /\ Serving(c)) ~> (Gone(c) \/ hpc[c] = "asleep")
    /\ (peer[c] = "left" /\ started /\ hpc[c] \in {"serve", "woken"}) ~> Gone(c)

-----------------------------------------------------------------------------
(* What the repository says of the program and the code does not do; each is *)
(* the subject of a run that TLC must refute.                                *)

\* README.md:10: clients connect and disconnect at run time; the master lives on.
SurvivesReconnection == running => ~terminated

\* master_main.cpp:74: the key shuts the server down, at the latest when every
\* client has left.
StopEnds ==
  (mpc = "join" /\ \A c \in Conns : peer[c] # "connected")
    ~> (mpc = "exited" \/ terminated)
=============================================================================
