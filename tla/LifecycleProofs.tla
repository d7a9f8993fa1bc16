--------------------------- MODULE LifecycleProofs ---------------------------
(* Proofs, checked by TLAPS, about Lifecycle for any number of connections   *)
(* and descriptors.                                                          *)
EXTENDS Lifecycle, FiniteSetTheorems, TLAPS

\* With the type of every variable, OwnDescriptor is inductive: a descriptor is
\* given to a new connection only when it is not open, and closed only once.
OInv == TypeOK /\ OwnDescriptor

LEMMA InitOInv == Init => OInv
BY DEF Init, OInv, TypeOK, OwnDescriptor, Serving, Waiting

-----------------------------------------------------------------------------
(* What a handler does while it has its socket, to itself or when it is      *)
(* notified, takes it from no stage of its life to another.                  *)

WorkStep ==
  \/ StartComputation \/ WakeHandlers
  \/ \E c \in Conns : \/ ReadRequest(c) \/ FallAsleep(c) \/ WakeSpuriously(c)
                      \/ Retest(c) \/ SeeDisconnect(c) \/ SeeStop(c)

SameStage(c) ==
  /\ Serving(c)' <=> Serving(c)
  /\ \A stage \in {"none", "closed", "exited"} : hpc'[c] = stage <=> hpc[c] = stage

LEMMA WorkKeepsStage ==
  ASSUME TypeOK, WorkStep
  PROVE  /\ \A c \in Conns : SameStage(c)
         /\ UNCHANGED <<running, clientThreads, joiner, toJoin, apc, spawned, fd, open>>
         /\ mpc' = mpc \/ (mpc = "notify" /\ mpc' = "lock")
<1> USE DEF SameStage, Serving, Waiting
<1>1. CASE StartComputation \/ WakeHandlers
  <2>1. hpc' = Notified
    BY <1>1 DEF StartComputation, WakeHandlers
  <2>2. \A c \in Conns : hpc'[c] = IF hpc[c] = "asleep" THEN "woken" ELSE hpc[c]
    BY <2>1 DEF Notified
  <2>3. \A c \in Conns : SameStage(c)
    BY <2>2
  <2> QED BY <1>1, <2>3 DEF StartComputation, WakeHandlers, acceptVars
<1>2. ASSUME NEW c \in Conns, ReadRequest(c) \/ Retest(c)
      PROVE  /\ \A d \in Conns : SameStage(d)
             /\ UNCHANGED <<running, clientThreads, joiner, toJoin, apc, spawned, fd, open, mpc>>
  <2>1. PICK next \in {"serve", "leaving", "drowsy"} : hpc' = [hpc EXCEPT ![c] = next]
    BY <1>2 DEF ReadRequest, Retest, Answer
  <2>2. /\ hpc[c] \in {"serve", "woken"} /\ hpc'[c] = next
        /\ \A d \in Conns \ {c} : hpc'[d] = hpc[d]
    BY <1>2, <2>1 DEF ReadRequest, Retest, TypeOK
  <2>3. \A d \in Conns : SameStage(d)
    BY <2>1, <2>2
  <2> QED BY <1>2, <2>3 DEF ReadRequest, Retest, mainVars, acceptVars
<1>3. ASSUME NEW c \in Conns,
             FallAsleep(c) \/ WakeSpuriously(c) \/ SeeDisconnect(c) \/ SeeStop(c)
      PROVE  /\ \A d \in Conns : SameStage(d)
             /\ UNCHANGED <<running, clientThreads, joiner, toJoin, apc, spawned, fd, open, mpc>>
  <2>1. PICK next \in {"asleep", "woken", "leaving"} : hpc' = [hpc EXCEPT ![c] = next]
    BY <1>3 DEF FallAsleep, WakeSpuriously, SeeDisconnect, SeeStop
  <2>2. /\ hpc[c] \in {"serve", "drowsy", "asleep"} /\ hpc'[c] = next
        /\ \A d \in Conns \ {c} : hpc'[d] = hpc[d]
    BY <1>3, <2>1 DEF FallAsleep, WakeSpuriously, SeeDisconnect, SeeStop, TypeOK
  <2>3. \A d \in Conns : SameStage(d)
    BY <2>1, <2>2
  <2> QED BY <1>3, <2>3 DEF FallAsleep, WakeSpuriously, SeeDisconnect, SeeStop, mainVars,
        acceptVars
<1> QED BY <1>1, <1>2, <1>3 DEF WorkStep

\* The handlers' steps, as Next names them.
LEMMA HandlerSteps ==
  ASSUME NEW c \in Conns, HandlerStep(c) \/ WakeSpuriously(c) \/ SeeStop(c)
  PROVE  WorkStep \/ CloseSocket(c) \/ EraseEntry(c)
BY DEF HandlerStep, WorkStep

LEMMA TypeStep == TypeOK /\ [Next]_vars => TypeOK'
<1> SUFFICES ASSUME TypeOK, [Next]_vars PROVE TypeOK'
  OBVIOUS
<1> USE DEF TypeOK, vars, mainVars, acceptVars, clientVars
<1>1. CASE AcceptStep
  <2>1. CASE AcceptTop \/ AcceptError
    BY <2>1 DEF AcceptTop, AcceptError
  <2>2. CASE EnterThread
    BY <2>2 DEF EnterThread
  <2>3. CASE \E c \in Conns : AcceptConnection(c)
    BY <2>3 DEF AcceptConnection
  <2> QED BY <1>1, <2>1, <2>2, <2>3 DEF AcceptStep
<1>2. CASE StopFlag
  BY <1>2 DEF StopFlag
<1>3. CASE StopStep
  <2>1. CASE CloseListener \/ JoinHandler
    BY <2>1 DEF CloseListener, JoinHandler
  <2>2. CASE TakeMutex
    BY <2>2 DEF TakeMutex, Entries
  <2>3. CASE ClearThreads
    BY <2>3 DEF ClearThreads
  <2>4. CASE Exit
    BY <2>4 DEF Exit
  <2>5. CASE WakeHandlers
    BY <2>5 DEF WakeHandlers, Notified
  <2> QED BY <1>3, <2>1, <2>2, <2>3, <2>4, <2>5 DEF StopStep
<1>4. ASSUME NEW c \in Conns, HandlerStep(c) \/ WakeSpuriously(c) \/ SeeStop(c)
      PROVE  TypeOK'
  <2>1. CASE FallAsleep(c) \/ WakeSpuriously(c) \/ SeeDisconnect(c) \/ SeeStop(c)
    BY <2>1 DEF FallAsleep, WakeSpuriously, SeeDisconnect, SeeStop
  <2>2. CASE ReadRequest(c) \/ Retest(c)
    <3>1. PICK next \in {"serve", "leaving", "drowsy"} : hpc' = [hpc EXCEPT ![c] = next]
      BY <2>2 DEF ReadRequest, Retest, Answer
    <3>2. asked' \in [Conns -> BOOLEAN]
      BY <2>2 DEF ReadRequest, Retest
    <3>3. UNCHANGED <<mainVars, acceptVars, clientThreads, fd, open, peer, terminated>>
      BY <2>2 DEF ReadRequest, Retest
    <3>4. /\ hpc' \in [Conns -> {"none", "serve", "drowsy", "asleep", "woken", "leaving",
                                "closed", "exited"}]
          /\ hpc[c] # "none" /\ \A d \in Conns \ {c} : hpc'[d] = hpc[d]
      BY <2>2, <3>1 DEF ReadRequest, Retest
    <3> QED BY <3>2, <3>3, <3>4
  <2>3. CASE CloseSocket(c) \/ EraseEntry(c)
    BY <2>3 DEF CloseSocket, EraseEntry
  <2> QED BY <1>4, <2>1, <2>2, <2>3 DEF HandlerStep
<1>5. ASSUME NEW c \in Conns, Connect(c) \/ Ask(c) \/ Leave(c)
      PROVE  TypeOK'
  <2>1. CASE Connect(c) \/ Leave(c)
    BY <2>1 DEF Connect, Leave
  <2>2. CASE Ask(c)
    <3>1. asked' \in [Conns -> BOOLEAN]
      BY <2>2 DEF Ask
    <3> QED BY <2>2, <3>1 DEF Ask
  <2> QED BY <1>5, <2>1, <2>2
<1>7. CASE StartComputation
  BY <1>7 DEF StartComputation, Notified
<1>6. CASE UNCHANGED vars
  BY <1>6
<1> QED BY <1>1, <1>2, <1>3, <1>4, <1>5, <1>6, <1>7 DEF Next

LEMMA OwnStep == OInv /\ [Next]_vars => OwnDescriptor'
<1> SUFFICES ASSUME OInv, [Next]_vars PROVE OwnDescriptor'
  OBVIOUS
<1> USE DEF OInv, OwnDescriptor, Serving, Waiting
<1>1. ASSUME NEW c \in Conns, AcceptConnection(c)
      PROVE  OwnDescriptor'
  <2>1. PICK f \in Fds \ open : fd' = [fd EXCEPT ![c] = f] /\ open' = open \cup {f}
    BY <1>1 DEF AcceptConnection
  <2>2. hpc' = [hpc EXCEPT ![c] = "serve"]
    BY <1>1 DEF AcceptConnection
  <2>3. fd'[c] = f /\ \A d \in Conns \ {c} : fd'[d] = fd[d] /\ hpc'[d] = hpc[d]
    BY <2>1, <2>2 DEF TypeOK
  <2> QED BY <2>1, <2>3
<1>2. ASSUME NEW c \in Conns, CloseSocket(c)
      PROVE  OwnDescriptor'
  <2>1. /\ hpc[c] = "leaving" /\ hpc'[c] = "closed" /\ open' = open \ {fd[c]} /\ fd' = fd
        /\ \A d \in Conns \ {c} : hpc'[d] = hpc[d]
    BY <1>2 DEF CloseSocket, TypeOK
  <2> QED BY <2>1
<1>3. ASSUME NEW c \in Conns, EraseEntry(c)
      PROVE  OwnDescriptor'
  <2>1. /\ open' = open /\ fd' = fd
        /\ Serving(c)' => Serving(c)
        /\ \A d \in Conns \ {c} : hpc'[d] = hpc[d]
    BY <1>3 DEF EraseEntry, TypeOK
  <2> QED BY <2>1
<1>8. CASE WorkStep
  <2>1. /\ UNCHANGED <<fd, open>> /\ \A c \in Conns : Serving(c)' <=> Serving(c)
    BY <1>8, WorkKeepsStage DEF SameStage
  <2> HIDE DEF Serving
  <2> QED BY <2>1
<1>4. CASE UNCHANGED <<hpc, fd, open>>
  BY <1>4
<1>5. CASE AcceptTop \/ AcceptError \/ EnterThread \/ StopFlag \/ CloseListener \/ TakeMutex
            \/ JoinHandler \/ ClearThreads \/ Exit
  <2>1. UNCHANGED <<hpc, fd, open>>
    BY <1>5 DEF AcceptTop, AcceptError, EnterThread, StopFlag, CloseListener,
       TakeMutex, JoinHandler, ClearThreads, Exit
  <2> QED BY <1>4, <2>1
<1>6. ASSUME NEW c \in Conns, Connect(c) \/ Ask(c) \/ Leave(c)
      PROVE  OwnDescriptor'
  BY <1>4, <1>6 DEF Connect, Ask, Leave
<1>7. CASE UNCHANGED vars
  BY <1>4, <1>7 DEF vars
<1> HIDE DEF OwnDescriptor
<1>9. CASE AcceptStep \/ StartComputation \/ StopFlag \/ StopStep
  BY <1>1, <1>5, <1>8, <1>9 DEF AcceptStep, StopStep, WorkStep
<1>10. ASSUME NEW c \in Conns, HandlerStep(c) \/ WakeSpuriously(c) \/ SeeStop(c)
       PROVE  OwnDescriptor'
  BY <1>2, <1>3, <1>8, <1>10, HandlerSteps
<1> QED BY <1>6, <1>7, <1>9, <1>10 DEF Next

\* Every variable keeps its type.
THEOREM LifecycleType == Spec => []TypeOK
<1>1. Init => TypeOK
  BY InitOInv DEF OInv
<1> QED BY <1>1, TypeStep, PTL DEF Spec

\* However connections come and go and descriptors are used again, no two
\* handlers at work share a descriptor (master.cpp:187-206, 379).
THEOREM DescriptorsOwned == Spec => []OwnDescriptor
<1>1. OInv /\ [Next]_vars => OInv'
  BY TypeStep, OwnStep DEF OInv
<1>2. OInv => OwnDescriptor
  BY DEF OInv
<1> QED BY InitOInv, <1>1, <1>2, PTL DEF Spec

-----------------------------------------------------------------------------
(* That a handler at work keeps its entry.  A handler takes out the entry at *)
(* its descriptor, whoever it belongs to.  It can be another's: the accept   *)
(* thread starts a handler before it enters it, and may be held up until a   *)
(* handler of the same descriptor has begun, so that the one which has       *)
(* closed its socket finds itself robbed of its entry.                       *)

UpToStop == mpc \notin {"stopped", "exited"}

\* The accept thread holds a handler it has started, or none.
HandedOver ==
  /\ apc = "spawned" <=> spawned \in Conns
  /\ spawned \in Conns => hpc[spawned] # "none"

\* An entry is under the descriptor of the handler it holds.
EntriesPlaced ==
  \A f \in Fds : clientThreads[f] # NoConn =>
    fd[clientThreads[f]] = f /\ hpc[clientThreads[f]] # "none"

\* While the accept thread holds a handler, no other at work has its descriptor.
NewestHasDescriptor ==
  \A c, d \in Conns : spawned = c /\ d # c /\ fd[d] = fd[c] => ~Serving(d)

\* A handler that has closed its socket and whose entry another has taken out.
Robbed(c) == hpc[c] = "closed" /\ spawned # c /\ clientThreads[fd[c]] # c

\* The thread in the entry of f, or about to be entered there, has finished.
FinishedAt(f) ==
  \/ clientThreads[f] \in Conns /\ hpc[clientThreads[f]] = "exited"
  \/ spawned \in Conns /\ fd[spawned] = f /\ hpc[spawned] = "exited"

RobbedByFinished == UpToStop => \A c \in Conns : Robbed(c) => FinishedAt(fd[c])

OneRobbed ==
  UpToStop => \A c, d \in Conns : Robbed(c) /\ Robbed(d) /\ fd[c] = fd[d] => c = d

Entry == HandedOver /\ EntriesPlaced /\ NewestHasDescriptor
Keep  == LiveHandlerKeepsEntry /\ RobbedByFinished /\ OneRobbed

EInv == OInv /\ Entry /\ Keep

LEMMA InitEntry == Init => Entry /\ Keep
BY NoConnAssumption DEF Init, Entry, Keep, HandedOver, EntriesPlaced, NewestHasDescriptor,
   LiveHandlerKeepsEntry, RobbedByFinished, OneRobbed, Robbed, Serving, Waiting

LEMMA AcceptKeeps ==
  ASSUME EInv, NEW c \in Conns, AcceptConnection(c)
  PROVE  Entry' /\ Keep'
<1>1. PICK f \in Fds \ open : fd' = [fd EXCEPT ![c] = f] /\ open' = open \cup {f}
  BY DEF AcceptConnection
<1>2. /\ hpc[c] = "none" /\ hpc' = [hpc EXCEPT ![c] = "serve"]
      /\ apc = "accept" /\ apc' = "spawned" /\ spawned' = c
      /\ clientThreads' = clientThreads /\ mpc' = mpc
  BY DEF AcceptConnection, mainVars
<1>3. /\ fd'[c] = f /\ hpc'[c] = "serve"
      /\ \A d \in Conns \ {c} : fd'[d] = fd[d] /\ hpc'[d] = hpc[d]
  BY <1>1, <1>2 DEF EInv, OInv, TypeOK
<1>4. spawned \notin Conns
  BY <1>2 DEF EInv, Entry, HandedOver
<1>5. \A g \in Fds : clientThreads[g] # c
  BY <1>2, NoConnAssumption DEF EInv, Entry, EntriesPlaced
<1>6. \A g \in Fds : clientThreads[g] # NoConn => clientThreads[g] \in Conns \ {c}
  BY <1>5 DEF EInv, OInv, TypeOK
<1>7. \A d \in Conns : hpc[d] # "none" => fd[d] \in Fds
  BY DEF EInv, OInv, TypeOK
<1>8. HandedOver'
  BY <1>2, <1>3 DEF HandedOver
<1>9. EntriesPlaced'
  BY <1>2, <1>3, <1>6 DEF EInv, Entry, EntriesPlaced
<1>10. NewestHasDescriptor'
  BY <1>1, <1>2, <1>3 DEF EInv, OInv, OwnDescriptor, NewestHasDescriptor, Serving, Waiting
<1>11. LiveHandlerKeepsEntry'
  BY <1>2, <1>3, <1>4 DEF EInv, Keep, LiveHandlerKeepsEntry, Serving, Waiting
<1>12. \A d \in Conns : Robbed(d)' => d # c /\ Robbed(d)
  BY <1>2, <1>3, <1>4 DEF Robbed
<1>13. \A d \in Conns : Robbed(d) /\ FinishedAt(fd[d]) => FinishedAt(fd[d])'
  <2> SUFFICES ASSUME NEW d \in Conns, Robbed(d), FinishedAt(fd[d])
               PROVE  FinishedAt(fd[d])'
    OBVIOUS
  <2>1. fd[d] \in Fds /\ d # c /\ fd'[d] = fd[d]
    BY <1>2, <1>3, <1>7 DEF Robbed
  <2>2. clientThreads[fd[d]] \in Conns \ {c} /\ hpc[clientThreads[fd[d]]] = "exited"
    BY <1>4, <1>6, <2>1, NoConnAssumption DEF FinishedAt
  <2> QED BY <1>2, <1>3, <2>1, <2>2 DEF FinishedAt
<1>14. RobbedByFinished' /\ OneRobbed'
  BY <1>2, <1>3, <1>12, <1>13 DEF EInv, Keep, RobbedByFinished, OneRobbed, UpToStop
<1> QED BY <1>8, <1>9, <1>10, <1>11, <1>14 DEF Entry, Keep

LEMMA EnterKeeps ==
  ASSUME EInv, EnterThread
  PROVE  Entry' /\ Keep'
<1>1. /\ apc = "spawned" /\ hpc' = hpc /\ fd' = fd /\ mpc' = mpc
      /\ spawned \in Conns /\ fd[spawned] \in Fds
  BY DEF EInv, OInv, TypeOK, Entry, HandedOver, EnterThread, mainVars
<1>2. CASE fd[spawned] \in Entries
  <2>1. UNCHANGED <<clientThreads, apc, spawned, hpc, fd, mpc>>
    BY <1>1, <1>2 DEF EnterThread, acceptVars
  <2> QED BY <2>1 DEF EInv, Entry, Keep, HandedOver, EntriesPlaced, NewestHasDescriptor,
        LiveHandlerKeepsEntry, RobbedByFinished, OneRobbed, Robbed, FinishedAt, Serving, Waiting, UpToStop
<1>3. CASE fd[spawned] \notin Entries
  <2> DEFINE n == spawned
             f == fd[spawned]
  <2>1. /\ clientThreads' = [clientThreads EXCEPT ![f] = n]
        /\ apc' = "top" /\ spawned' = NoConn /\ clientThreads[f] = NoConn
    BY <1>1, <1>3 DEF EnterThread, Entries
  <2>2. clientThreads'[f] = n /\ \A g \in Fds \ {f} : clientThreads'[g] = clientThreads[g]
    BY <1>1, <2>1 DEF EInv, OInv, TypeOK
  <2>3. HandedOver'
    BY <2>1, NoConnAssumption DEF HandedOver
  <2>4. EntriesPlaced'
    BY <1>1, <2>2, NoConnAssumption DEF EInv, Entry, EntriesPlaced, HandedOver
  <2>5. NewestHasDescriptor'
    BY <2>1, NoConnAssumption DEF NewestHasDescriptor
  <2>6. \A d \in Conns : hpc[d] # "none" => fd[d] \in Fds
    BY DEF EInv, OInv, TypeOK
  <2>7. LiveHandlerKeepsEntry'
    BY <1>1, <2>1, <2>2, <2>6, NoConnAssumption
    DEF EInv, Keep, LiveHandlerKeepsEntry, Serving, Waiting
  <2>8. \A d \in Conns : Robbed(d)' => d # n /\ Robbed(d)
    BY <1>1, <2>1, <2>2, <2>6, NoConnAssumption DEF Robbed
  <2>9. \A d \in Conns : Robbed(d) /\ FinishedAt(fd[d]) => FinishedAt(fd[d])'
    BY <1>1, <2>1, <2>2, <2>6, NoConnAssumption DEF Robbed, FinishedAt
  <2>10. RobbedByFinished' /\ OneRobbed'
    BY <1>1, <2>8, <2>9 DEF EInv, Keep, RobbedByFinished, OneRobbed, UpToStop
  <2> QED BY <2>3, <2>4, <2>5, <2>7, <2>10 DEF Entry, Keep
<1> QED BY <1>2, <1>3

\* While a handler has its socket it is at work, and its entry is untouched.
LEMMA WorkKeeps ==
  ASSUME EInv, WorkStep
  PROVE  Entry' /\ Keep'
<1>1. /\ \A c \in Conns : SameStage(c)
      /\ UNCHANGED <<clientThreads, apc, spawned, fd>>
      /\ UpToStop' <=> UpToStop
  BY WorkKeepsStage DEF EInv, OInv, UpToStop
<1>2. /\ \A c \in Conns : Serving(c)' <=> Serving(c)
      /\ \A c \in Conns : hpc'[c] = "none" <=> hpc[c] = "none"
      /\ \A c \in Conns : hpc'[c] = "closed" <=> hpc[c] = "closed"
      /\ \A c \in Conns : hpc'[c] = "exited" <=> hpc[c] = "exited"
  BY <1>1 DEF SameStage
<1>3. \A g \in Fds : clientThreads[g] # NoConn => clientThreads[g] \in Conns
  BY DEF EInv, OInv, TypeOK
<1>4. HandedOver' /\ EntriesPlaced' /\ NewestHasDescriptor'
  BY <1>1, <1>2, <1>3 DEF EInv, Entry, HandedOver, EntriesPlaced, NewestHasDescriptor
<1>5. LiveHandlerKeepsEntry'
  BY <1>1, <1>2 DEF EInv, Keep, LiveHandlerKeepsEntry, UpToStop
<1>6. \A c \in Conns : Robbed(c)' <=> Robbed(c)
  BY <1>1, <1>2 DEF Robbed
<1>7. \A f : FinishedAt(f) => FinishedAt(f)'
  BY <1>1, <1>2 DEF FinishedAt
<1>8. RobbedByFinished' /\ OneRobbed'
  BY <1>1, <1>6, <1>7 DEF EInv, Keep, RobbedByFinished, OneRobbed
<1> QED BY <1>4, <1>5, <1>8 DEF Entry, Keep

LEMMA LeaveKeeps ==
  ASSUME EInv, NEW c \in Conns, CloseSocket(c)
  PROVE  Entry' /\ Keep'
<1>1. /\ hpc[c] = "leaving" /\ hpc'[c] = "closed"
      /\ \A d \in Conns \ {c} : hpc'[d] = hpc[d]
      /\ UNCHANGED <<fd, clientThreads, apc, spawned, mpc>>
  BY DEF CloseSocket, EInv, OInv, TypeOK, mainVars, acceptVars
<1>2. \A d \in Conns : Serving(d)' => Serving(d)
  BY <1>1 DEF Serving, Waiting
<1>3. HandedOver' /\ EntriesPlaced' /\ NewestHasDescriptor'
  <2>1. \A d \in Conns : hpc[d] # "none" => hpc'[d] # "none"
    BY <1>1
  <2>2. \A g \in Fds : clientThreads[g] # NoConn => clientThreads[g] \in Conns
    BY DEF EInv, OInv, TypeOK
  <2> QED BY <1>1, <1>2, <2>1, <2>2
          DEF EInv, Entry, HandedOver, EntriesPlaced, NewestHasDescriptor
<1>4. LiveHandlerKeepsEntry'
  BY <1>1, <1>2 DEF EInv, Keep, LiveHandlerKeepsEntry
<1>5. UpToStop => ~Robbed(c)'
  BY <1>1 DEF EInv, Keep, LiveHandlerKeepsEntry, Robbed, Serving, Waiting, UpToStop
<1>6. \A d \in Conns \ {c} : Robbed(d)' <=> Robbed(d)
  BY <1>1 DEF Robbed
<1>7. \A f : FinishedAt(f) => FinishedAt(f)'
  BY <1>1 DEF FinishedAt
<1>8. RobbedByFinished' /\ OneRobbed'
  BY <1>1, <1>5, <1>6, <1>7 DEF EInv, Keep, RobbedByFinished, OneRobbed, UpToStop
<1> QED BY <1>3, <1>4, <1>8 DEF Entry, Keep

\* The one step that takes an entry out.  Whoever finds its own entry gone has
\* closed its socket, and the thread that took it has finished.
LEMMA EraseKeeps ==
  ASSUME EInv, NEW c \in Conns, EraseEntry(c)
  PROVE  Entry' /\ Keep'
<1> DEFINE f == fd[c]
<1>1. /\ hpc[c] = "closed" /\ f \in Fds
      /\ hpc' = [hpc EXCEPT ![c] = "exited"]
      /\ clientThreads' = [clientThreads EXCEPT ![f] = NoConn]
      /\ UNCHANGED <<fd, apc, spawned, mpc>>
  BY DEF EraseEntry, EInv, OInv, TypeOK, mainVars, acceptVars
<1>2. /\ hpc'[c] = "exited" /\ \A d \in Conns \ {c} : hpc'[d] = hpc[d]
      /\ clientThreads'[f] = NoConn
      /\ \A g \in Fds \ {f} : clientThreads'[g] = clientThreads[g]
  BY <1>1 DEF EInv, OInv, TypeOK
<1>3. \A d \in Conns : hpc[d] # "none" => fd[d] \in Fds
  BY DEF EInv, OInv, TypeOK
<1>4. \A g \in Fds : clientThreads[g] # NoConn => clientThreads[g] \in Conns
  BY DEF EInv, OInv, TypeOK
<1>5. HandedOver' /\ EntriesPlaced' /\ NewestHasDescriptor'
  BY <1>1, <1>2, <1>4 DEF EInv, Entry, HandedOver, EntriesPlaced, NewestHasDescriptor, Serving, Waiting
\* No handler at work has its entry under f: the new thread at f has it not yet,
\* and where c was robbed a finished thread is there.
<1>6. ASSUME UpToStop, NEW d \in Conns, Serving(d), spawned # d, fd[d] = f
      PROVE  FALSE
  <2>1. clientThreads[f] = d /\ d # c
    BY <1>1, <1>6 DEF EInv, Keep, LiveHandlerKeepsEntry, UpToStop, Serving, Waiting
  <2>2. CASE spawned = c
    BY <1>6, <2>1, <2>2 DEF EInv, Entry, NewestHasDescriptor
  <2>3. CASE spawned # c
    <3>1. FinishedAt(f)
      BY <1>1, <1>6, <2>1, <2>3 DEF EInv, Keep, RobbedByFinished, Robbed
    <3>2. spawned \in Conns /\ fd[spawned] = f /\ hpc[spawned] = "exited"
      BY <1>6, <2>1, <3>1 DEF FinishedAt, Serving, Waiting
    <3> QED BY <1>6, <3>2 DEF EInv, Entry, NewestHasDescriptor
  <2> QED BY <2>2, <2>3
<1>7. LiveHandlerKeepsEntry'
  <2> SUFFICES ASSUME UpToStop, NEW d \in Conns, Serving(d)'
               PROVE  spawned' = d \/ clientThreads'[fd'[d]] = d
    BY <1>1 DEF LiveHandlerKeepsEntry, UpToStop
  <2>1. d # c /\ Serving(d) /\ fd[d] \in Fds
    BY <1>1, <1>2, <1>3 DEF Serving, Waiting
  <2>2. spawned = d \/ (clientThreads[fd[d]] = d /\ fd[d] # f)
    BY <1>6, <2>1 DEF EInv, Keep, LiveHandlerKeepsEntry, UpToStop
  <2> QED BY <1>1, <1>2, <2>1, <2>2
\* What the step does to the robbed: at f there is at most the one c robs.
<1>8. ASSUME NEW d \in Conns, Robbed(d)'
      PROVE  /\ d # c /\ hpc[d] = "closed" /\ spawned # d /\ fd[d] \in Fds
             /\ fd[d] # f => Robbed(d)
  BY <1>1, <1>2, <1>3, <1>8 DEF Robbed
<1>9. ASSUME UpToStop, NEW d \in Conns, Robbed(d)', fd[d] = f
      PROVE  FinishedAt(f)'
  <2>1. CASE spawned = c
    BY <1>1, <1>2, <2>1 DEF FinishedAt
  <2>2. CASE spawned # c
    <3>1. CASE clientThreads[f] = c
      <4>1. Robbed(d)
        BY <1>8, <1>9, <3>1 DEF Robbed
      <4>2. spawned \in Conns /\ fd[spawned] = f /\ hpc[spawned] = "exited"
        BY <1>1, <1>9, <3>1, <4>1 DEF EInv, Keep, RobbedByFinished, FinishedAt
      <4> QED BY <1>1, <1>2, <4>2 DEF FinishedAt
    <3>2. CASE clientThreads[f] # c
      <4>1. Robbed(c)
        BY <1>1, <2>2, <3>2 DEF Robbed
      <4>2. ~Robbed(d)
        BY <1>8, <1>9, <4>1 DEF EInv, Keep, OneRobbed
      <4>3. clientThreads[f] = d
        BY <1>8, <1>9, <4>2 DEF Robbed
      <4>4. FinishedAt(f)
        BY <1>9, <4>1 DEF EInv, Keep, RobbedByFinished
      <4>5. spawned \in Conns /\ fd[spawned] = f /\ hpc[spawned] = "exited"
        BY <1>8, <1>9, <4>3, <4>4 DEF FinishedAt
      <4> QED BY <1>1, <1>2, <4>5 DEF FinishedAt
    <3> QED BY <3>1, <3>2
  <2> QED BY <2>1, <2>2
<1>10. ASSUME UpToStop, NEW d \in Conns, Robbed(d)', fd[d] # f
       PROVE  FinishedAt(fd[d])'
  <2>1. fd[d] \in Fds /\ FinishedAt(fd[d])
    BY <1>8, <1>10 DEF EInv, Keep, RobbedByFinished
  <2>2. clientThreads'[fd[d]] = clientThreads[fd[d]]
    BY <1>2, <1>10, <2>1
  <2> QED BY <1>1, <1>2, <2>1, <2>2, NoConnAssumption DEF FinishedAt
<1>11. RobbedByFinished'
  BY <1>1, <1>9, <1>10 DEF RobbedByFinished, UpToStop
<1>12. OneRobbed'
  <2> SUFFICES ASSUME UpToStop, NEW d \in Conns, NEW e \in Conns,
                      Robbed(d)', Robbed(e)', fd[d] = fd[e]
               PROVE  d = e
    BY <1>1 DEF OneRobbed, UpToStop
  <2>1. CASE fd[d] # f
    BY <1>8, <2>1 DEF EInv, Keep, OneRobbed
  <2>2. CASE fd[d] = f
    <3>1. CASE spawned # c /\ clientThreads[f] # c
      <4>1. Robbed(c)
        BY <1>1, <3>1 DEF Robbed
      <4>2. ~Robbed(d) /\ ~Robbed(e)
        BY <1>8, <2>2, <4>1 DEF EInv, Keep, OneRobbed
      <4> QED BY <1>8, <2>2, <4>2 DEF Robbed
    <3>2. CASE clientThreads[f] = c
      BY <1>8, <2>2, <3>2 DEF EInv, Keep, OneRobbed, Robbed
    <3>3. CASE spawned = c
      <4>1. FinishedAt(f) => clientThreads[f] \in Conns /\ hpc[clientThreads[f]] = "exited"
        BY <1>1, <3>3 DEF FinishedAt
      <4>2. ASSUME NEW g \in {d, e}, ~Robbed(g)
            PROVE  clientThreads[f] = g /\ hpc[g] = "closed"
        BY <1>8, <2>2, <4>2 DEF Robbed
      <4>3. ASSUME NEW g \in {d, e}, Robbed(g)
            PROVE  FinishedAt(f)
        BY <1>8, <2>2, <4>3 DEF EInv, Keep, RobbedByFinished
      <4>4. ~(Robbed(d) /\ ~Robbed(e)) /\ ~(~Robbed(d) /\ Robbed(e))
        <5>1. ASSUME NEW g \in {d, e}, NEW h \in {d, e}, Robbed(g), ~Robbed(h)
              PROVE  FALSE
          <6>1. clientThreads[f] = h /\ hpc[h] = "closed"
            BY <4>2, <5>1
          <6>2. FinishedAt(f)
            BY <4>3, <5>1
          <6> QED BY <4>1, <6>1, <6>2
        <5> QED BY <5>1
      <4>5. CASE Robbed(d) /\ Robbed(e)
        BY <2>2, <4>5 DEF EInv, Keep, OneRobbed
      <4>6. CASE ~Robbed(d) /\ ~Robbed(e)
        <5>1. clientThreads[f] = d
          BY <4>2, <4>6
        <5>2. clientThreads[f] = e
          BY <4>2, <4>6
        <5> QED BY <5>1, <5>2
      <4> QED BY <4>4, <4>5, <4>6
    <3> QED BY <3>1, <3>2, <3>3
  <2> QED BY <2>1, <2>2
<1> QED BY <1>5, <1>7, <1>11, <1>12 DEF Entry, Keep

LEMMA EntryStep == EInv /\ [Next]_vars => Entry' /\ Keep'
<1> SUFFICES ASSUME EInv, [Next]_vars PROVE Entry' /\ Keep'
  OBVIOUS
<1>1. ASSUME NEW c \in Conns, AcceptConnection(c)
      PROVE  Entry' /\ Keep'
  BY <1>1, AcceptKeeps
<1>2. CASE EnterThread
  BY <1>2, EnterKeeps
<1>3. ASSUME NEW c \in Conns, HandlerStep(c) \/ WakeSpuriously(c) \/ SeeStop(c)
      PROVE  Entry' /\ Keep'
  BY <1>3, HandlerSteps, WorkKeeps, LeaveKeeps, EraseKeeps
<1>10. CASE StartComputation \/ WakeHandlers
  BY <1>10, WorkKeeps DEF WorkStep
\* The other steps touch no handler; the accept thread holds none before and after,
\* and only the end of stop empties the map.
<1>4. ASSUME UNCHANGED <<hpc, fd, spawned>>, apc' = "spawned" <=> apc = "spawned",
             \/ clientThreads' = clientThreads /\ (UpToStop' => UpToStop)
             \/ ~UpToStop' /\ clientThreads' = [f \in Fds |-> NoConn]
      PROVE  Entry' /\ Keep'
  <2>1. HandedOver' /\ NewestHasDescriptor'
    BY <1>4 DEF EInv, Entry, HandedOver, NewestHasDescriptor, Serving, Waiting
  <2>2. EntriesPlaced'
    BY <1>4 DEF EInv, Entry, EntriesPlaced
  <2>3. Keep'
    BY <1>4 DEF EInv, Keep, LiveHandlerKeepsEntry, RobbedByFinished, OneRobbed, Robbed,
       FinishedAt, Serving, Waiting, UpToStop
  <2> QED BY <2>1, <2>2, <2>3 DEF Entry
<1>5. CASE AcceptTop \/ AcceptError \/ StopFlag \/ CloseListener \/ TakeMutex \/ JoinHandler
  BY <1>4, <1>5 DEF AcceptTop, AcceptError, StopFlag, CloseListener, TakeMutex, JoinHandler,
     mainVars, acceptVars, UpToStop
<1>6. CASE ClearThreads
  BY <1>4, <1>6 DEF ClearThreads, acceptVars, UpToStop
<1>7. CASE Exit
  BY <1>4, <1>7 DEF Exit, acceptVars, UpToStop
<1>8. ASSUME NEW c \in Conns, Connect(c) \/ Ask(c) \/ Leave(c)
      PROVE  Entry' /\ Keep'
  BY <1>4, <1>8 DEF Connect, Ask, Leave, mainVars, acceptVars, UpToStop
<1>9. CASE UNCHANGED vars
  BY <1>4, <1>9 DEF vars, mainVars, acceptVars, UpToStop
<1> QED BY <1>1, <1>2, <1>3, <1>5, <1>6, <1>7, <1>8, <1>9, <1>10
        DEF Next, AcceptStep, StopStep

LEMMA EInvInvariant == Spec => []EInv
<1>1. Init => EInv
  BY InitOInv, InitEntry DEF EInv
<1>2. EInv /\ [Next]_vars => EInv'
  BY TypeStep, OwnStep, EntryStep DEF EInv, OInv
<1> QED BY <1>1, <1>2, PTL DEF Spec

\* As long as stop has not cleared the map, every handler at work has its entry
\* or is about to get it, however descriptors are used again and however late the
\* accept thread enters a handler (master.cpp:187-206, 365-379).
THEOREM HandlersKeepEntries == Spec => []LiveHandlerKeepsEntry
<1>1. EInv => LiveHandlerKeepsEntry
  BY DEF EInv, Keep
<1> QED BY EInvInvariant, <1>1, PTL

-----------------------------------------------------------------------------
(* What stop leaves behind.  It joins every entry, and by LiveHandlerKeepsEntry *)
(* nobody at work escapes it but the handler the accept thread holds; running_ *)
(* is false by then, so that the accept thread goes round at most once more.   *)

Joining ==
  /\ mpc # "up" => ~running
  /\ mpc = "join" => /\ joiner
                     /\ \A f \in Entries \ toJoin : hpc[clientThreads[f]] = "exited"

AfterStop ==
  ~UpToStop =>
    /\ apc = "accept" => \A c \in Conns : ~Serving(c)
    /\ apc = "spawned" => \A c \in Conns : Serving(c) => c = spawned
    /\ \A c, d \in Conns : Serving(c) /\ Serving(d) => c = d

SInv == Joining /\ AfterStop

LEMMA SStep == EInv /\ SInv /\ [Next]_vars => SInv'
<1> SUFFICES ASSUME EInv, SInv, [Next]_vars PROVE SInv'
  OBVIOUS
<1> USE DEF SInv
\* No step but one brings a handler to work, and none takes one back from its end.
<1>1. ASSUME NEW c \in Conns, AcceptConnection(c)
      PROVE  SInv'
  <2>1. /\ hpc[c] = "none" /\ hpc'[c] = "serve"
        /\ \A d \in Conns \ {c} : hpc'[d] = hpc[d]
        /\ apc = "accept" /\ apc' = "spawned" /\ spawned' = c
        /\ UNCHANGED <<running, mpc, joiner, toJoin, clientThreads>>
    BY <1>1 DEF AcceptConnection, mainVars, EInv, OInv, TypeOK
  <2>2. \A g \in Entries : clientThreads[g] \in Conns \ {c}
    BY <2>1 DEF Entries, EInv, OInv, TypeOK, Entry, EntriesPlaced
  <2>3. Entries' = Entries
    BY <2>1 DEF Entries
  <2>4. Joining'
    BY <2>1, <2>2, <2>3 DEF Joining
  <2>5. AfterStop'
    BY <2>1 DEF AfterStop, UpToStop, Serving, Waiting
  <2> QED BY <2>4, <2>5
<1>2. CASE EnterThread
  <2>1. /\ apc = "spawned" /\ ~joiner
        /\ UNCHANGED <<running, mpc, joiner, toJoin, hpc>>
        /\ \/ apc' = "top"
           \/ apc' = "spawned" /\ spawned' = spawned
    BY <1>2 DEF EnterThread, mainVars, acceptVars
  <2> QED BY <2>1 DEF Joining, AfterStop, UpToStop, Serving, Waiting
<1>11. CASE WorkStep
  <2>1. /\ \A c \in Conns : SameStage(c)
        /\ UNCHANGED <<running, clientThreads, joiner, toJoin, apc, spawned>>
        /\ mpc' = mpc \/ (mpc = "notify" /\ mpc' = "lock")
    BY <1>11, WorkKeepsStage DEF EInv, OInv
  <2>2. /\ \A c \in Conns : Serving(c)' <=> Serving(c)
        /\ \A c \in Conns : hpc'[c] = "exited" <=> hpc[c] = "exited"
    BY <2>1 DEF SameStage
  <2>3. \A g \in Entries : clientThreads[g] \in Conns
    BY DEF Entries, EInv, OInv, TypeOK
  <2>4. Entries' = Entries
    BY <2>1 DEF Entries
  <2>5. Joining'
    BY <2>1, <2>2, <2>3, <2>4 DEF Joining
  <2>6. AfterStop'
    BY <2>1, <2>2 DEF AfterStop, UpToStop
  <2> QED BY <2>5, <2>6
<1>3. ASSUME NEW c \in Conns, CloseSocket(c) \/ EraseEntry(c)
      PROVE  SInv'
  <2>1. /\ UNCHANGED <<running, mpc, joiner, toJoin, apc, spawned>>
        /\ \A d \in Conns : Serving(d)' => Serving(d)
    BY <1>3 DEF CloseSocket, EraseEntry, mainVars,
       acceptVars, EInv, OInv, TypeOK, Serving, Waiting
  <2>2. AfterStop'
    BY <2>1 DEF AfterStop, UpToStop
  <2>3. Joining'
    <3>1. CASE EraseEntry(c)
      BY <2>1, <3>1 DEF EraseEntry, Joining
    <3>2. CASE CloseSocket(c)
      <4>1. /\ clientThreads' = clientThreads /\ hpc[c] # "exited"
            /\ \A d \in Conns \ {c} : hpc'[d] = hpc[d]
        BY <3>2 DEF CloseSocket, EInv, OInv, TypeOK
      <4>2. \A g \in Entries : clientThreads[g] \in Conns
        BY DEF Entries, EInv, OInv, TypeOK
      <4>3. Entries' = Entries
        BY <4>1 DEF Entries
      <4> QED BY <2>1, <4>1, <4>2, <4>3 DEF Joining
    <3> QED BY <1>3, <3>1, <3>2
  <2> QED BY <2>2, <2>3
<1>4. CASE ClearThreads
  <2>1. /\ mpc = "join" /\ toJoin = {} /\ mpc' = "stopped"
        /\ UNCHANGED <<running, hpc, apc, spawned>>
    BY <1>4 DEF ClearThreads, acceptVars
  <2>2. ASSUME NEW c \in Conns, Serving(c)
        PROVE  spawned = c
    <3>1. fd[c] \in Fds /\ c # NoConn
      BY <2>2, NoConnAssumption DEF EInv, OInv, TypeOK, Serving, Waiting
    <3>2. ASSUME clientThreads[fd[c]] = c
          PROVE  FALSE
      <4>1. fd[c] \in Entries \ toJoin
        BY <2>1, <3>1, <3>2 DEF Entries
      <4>2. hpc[c] = "exited"
        BY <2>1, <3>2, <4>1 DEF Joining
      <4> QED BY <2>2, <4>2 DEF Serving, Waiting
    <3> QED BY <2>1, <2>2, <3>2 DEF EInv, Keep, LiveHandlerKeepsEntry
  <2>3. Joining'
    BY <2>1 DEF Joining
  <2>4. AfterStop'
    BY <2>1, <2>2 DEF AfterStop, EInv, Entry, HandedOver, Serving, Waiting
  <2> QED BY <2>3, <2>4
<1>5. CASE TakeMutex
  <2>1. /\ mpc = "lock" /\ mpc' = "join" /\ joiner' = TRUE /\ toJoin' = Entries
        /\ UNCHANGED <<running, clientThreads>>
    BY <1>5 DEF TakeMutex
  <2>2. Entries' \ toJoin' = {}
    BY <2>1 DEF Entries
  <2> QED BY <2>1, <2>2 DEF Joining, AfterStop, UpToStop
<1>6. CASE JoinHandler
  <2>1. /\ mpc = "join" /\ toJoin' = toJoin \ {Current}
        /\ hpc[clientThreads[Current]] = "exited"
        /\ UNCHANGED <<mpc, running, joiner, clientThreads, hpc, apc, spawned>>
    BY <1>6 DEF JoinHandler, acceptVars
  <2> QED BY <2>1 DEF Joining, AfterStop, UpToStop, Entries
<1>7. CASE AcceptTop \/ AcceptError
  <2>1. /\ UNCHANGED <<mpc, running, joiner, toJoin, clientThreads, hpc>>
        /\ apc' # "spawned" /\ (apc' = "accept" => running)
    BY <1>7 DEF AcceptTop, AcceptError, mainVars
  <2> QED BY <2>1 DEF Joining, AfterStop, UpToStop, Entries, Serving, Waiting
<1>8. CASE StopFlag \/ CloseListener
  BY <1>8 DEF StopFlag, CloseListener, acceptVars, Joining, AfterStop, UpToStop
<1>9. CASE Exit
  BY <1>9 DEF Exit, acceptVars, Joining, AfterStop, UpToStop, Serving, Waiting
<1>10. CASE \/ \E c \in Conns : Connect(c) \/ Ask(c) \/ Leave(c)
            \/ UNCHANGED vars
  <2>1. UNCHANGED <<mpc, running, joiner, toJoin, clientThreads, hpc, apc, spawned>>
    BY <1>10 DEF Connect, Ask, Leave, vars, mainVars, acceptVars
  <2> QED BY <2>1 DEF Joining, AfterStop, UpToStop, Entries, Serving, Waiting
<1>12. CASE StartComputation \/ WakeHandlers
  BY <1>11, <1>12 DEF WorkStep
<1>13. ASSUME NEW c \in Conns, HandlerStep(c) \/ WakeSpuriously(c) \/ SeeStop(c)
       PROVE  SInv'
  BY <1>3, <1>11, <1>13, HandlerSteps
<1> HIDE DEF SInv
<1> QED BY <1>1, <1>2, <1>4, <1>5, <1>6, <1>7, <1>8, <1>9, <1>10, <1>12, <1>13
        DEF Next, AcceptStep, StopStep

\* Once stop has returned at most one handler is still at work, the one the accept
\* thread was getting when running_ was cleared (master.cpp:59-89, 187-206).
THEOREM StopLeavesOne == Spec => []StopLeavesOneHandler
<1>1. Init => SInv
  BY DEF Init, SInv, Joining, AfterStop, UpToStop
<1>2. ASSUME SInv
      PROVE  StopLeavesOneHandler
  <2> SUFFICES ASSUME ~UpToStop
               PROVE  Cardinality({c \in Conns : Serving(c)}) <= 1
    BY DEF StopLeavesOneHandler, UpToStop
  <2> DEFINE S == {c \in Conns : Serving(c)}
  <2>1. CASE S = {}
    <3>1. Cardinality(S) = 0
      BY <2>1, FS_EmptySet
    <3> QED BY <3>1
  <2>2. CASE S # {}
    <3>1. PICK c \in S : TRUE
      BY <2>2
    <3>2. S = {c}
      BY <1>2, <3>1 DEF SInv, AfterStop
    <3>3. Cardinality(S) = 1
      BY <3>2, FS_Singleton
    <3> QED BY <3>3
  <2> QED BY <2>1, <2>2
<1> QED BY EInvInvariant, <1>1, SStep, <1>2, PTL DEF Spec
=============================================================================
