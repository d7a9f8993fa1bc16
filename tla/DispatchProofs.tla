--------------------------- MODULE DispatchProofs ---------------------------
(* Proofs, checked by TLAPS, of the safety of Dispatch for any number of     *)
(* connections and tasks: DispatchInvariant!IInv is inductive, and the       *)
(* properties of Dispatch follow from it.                                    *)
EXTENDS DispatchInvariant, FiniteSetTheorems, SequenceTheorems, TLAPS

-----------------------------------------------------------------------------
(* Messages on the wire.  No channel ever holds more than two.               *)

LEMMA MessageTypes ==
  /\ CpuInfo \in Messages /\ TaskRequest \in Messages
  /\ NoWork \in Messages /\ Shutdown \in Messages
  /\ \A t \in TaskIds : Task(t) \in Messages /\ Answer(t) \in Messages
BY DEF CpuInfo, TaskRequest, NoWork, Shutdown, Task, Answer, Msg, Messages

LEMMA OneIs ==
  ASSUME NEW S, NEW a \in S, NEW s \in Seq(S), Len(s) = 1, s[1] = a
  PROVE  s = <<a>>
<1>1. <<a>> \in Seq(S) /\ Len(<<a>>) = 1 /\ <<a>>[1] = a
  OBVIOUS
<1>2. \A i \in 1 .. Len(s) : s[i] = <<a>>[i]
  BY <1>1
<1> QED BY <1>1, <1>2, SeqEqual

LEMMA TwoIs ==
  ASSUME NEW S, NEW a \in S, NEW b \in S,
         NEW s \in Seq(S), Len(s) = 2, s[1] = a, s[2] = b
  PROVE  s = <<a, b>>
<1>1. <<a, b>> \in Seq(S) /\ Len(<<a, b>>) = 2 /\ <<a, b>>[1] = a /\ <<a, b>>[2] = b
  OBVIOUS
<1>2. \A i \in 1 .. Len(s) : s[i] = <<a, b>>[i]
  BY <1>1
<1> QED BY <1>1, <1>2, SeqEqual

LEMMA SendOne ==
  ASSUME NEW S, NEW a \in S, NEW b \in S
  PROVE  /\ Append(<<>>, a) = <<a>>
         /\ Append(<<a>>, b) = <<a, b>>
<1>1. <<>> \in Seq(S) /\ <<a>> \in Seq(S) /\ Len(<<a>>) = 1 /\ <<a>>[1] = a
  OBVIOUS
<1>2. /\ Append(<<>>, a) \in Seq(S) /\ Len(Append(<<>>, a)) = 1
      /\ Append(<<>>, a)[1] = a
  BY <1>1, AppendProperties
<1>3. /\ Append(<<a>>, b) \in Seq(S) /\ Len(Append(<<a>>, b)) = 2
      /\ Append(<<a>>, b)[1] = a /\ Append(<<a>>, b)[2] = b
  BY <1>1, AppendProperties
<1> QED BY <1>2, <1>3, OneIs, TwoIs

LEMMA PrefixOf ==
  ASSUME NEW S, NEW s \in Seq(S), NEW n \in 1 .. Len(s)
  PROVE  /\ SubSeq(s, 1, n) \in Seq(S) /\ Len(SubSeq(s, 1, n)) = n
         /\ \A i \in 1 .. n : SubSeq(s, 1, n)[i] = s[i]
<1>1. \A i \in 1 .. n : s[i] \in S
  BY ElementOfSeq, LenProperties
<1>2. /\ SubSeq(s, 1, n) \in Seq(S) /\ Len(SubSeq(s, 1, n)) = n
      /\ \A i \in 1 .. n : SubSeq(s, 1, n)[i] = s[1 + i - 1]
  BY <1>1, SubSeqProperties, LenProperties
<1>3. \A i \in 1 .. n : 1 + i - 1 = i
  OBVIOUS
<1> QED BY <1>2, <1>3

LEMMA Prefixes ==
  ASSUME NEW S, NEW a \in S, NEW b \in S
  PROVE  /\ \A n \in 0 .. Len(<<>>) : SubSeq(<<>>, 1, n) = <<>>
         /\ \A n \in 0 .. Len(<<a>>) : SubSeq(<<a>>, 1, n) \in {<<>>, <<a>>}
         /\ \A n \in 0 .. Len(<<a, b>>) :
              SubSeq(<<a, b>>, 1, n) \in {<<>>, <<a>>, <<a, b>>}
<1>1. /\ Len(<<>>) = 0 /\ Len(<<a>>) = 1 /\ Len(<<a, b>>) = 2
      /\ <<a>>[1] = a /\ <<a, b>>[1] = a /\ <<a, b>>[2] = b
      /\ <<a>> \in Seq(S) /\ <<a, b>> \in Seq(S)
  OBVIOUS
<1>2. \A s : SubSeq(s, 1, 0) = <<>>
  BY SubSeqEmpty
<1>3. SubSeq(<<a>>, 1, 1) = <<a>>
  <2>1. SubSeq(<<a>>, 1, 1) \in Seq(S) /\ Len(SubSeq(<<a>>, 1, 1)) = 1
        /\ SubSeq(<<a>>, 1, 1)[1] = a
    BY <1>1, PrefixOf
  <2> QED BY <2>1, OneIs
<1>4. SubSeq(<<a, b>>, 1, 1) = <<a>>
  <2>1. SubSeq(<<a, b>>, 1, 1) \in Seq(S) /\ Len(SubSeq(<<a, b>>, 1, 1)) = 1
        /\ SubSeq(<<a, b>>, 1, 1)[1] = a
    BY <1>1, PrefixOf
  <2> QED BY <2>1, OneIs
<1>5. SubSeq(<<a, b>>, 1, 2) = <<a, b>>
  <2>1. SubSeq(<<a, b>>, 1, 2) \in Seq(S) /\ Len(SubSeq(<<a, b>>, 1, 2)) = 2
        /\ SubSeq(<<a, b>>, 1, 2)[1] = a /\ SubSeq(<<a, b>>, 1, 2)[2] = b
    BY <1>1, PrefixOf
  <2> QED BY <2>1, TwoIs
<1>6. 0 .. 0 = {0} /\ 0 .. 1 = {0, 1} /\ 0 .. 2 = {0, 1, 2}
  OBVIOUS
<1> QED BY <1>1, <1>2, <1>3, <1>4, <1>5, <1>6

LEMMA CarriedBy ==
  /\ Carried(<<>>) = {}
  /\ \A a : Carried(<<a>>) = {a.task} \ {NoTask}
  /\ \A a, b : Carried(<<a, b>>) = {a.task, b.task} \ {NoTask}
BY DEF Carried

-----------------------------------------------------------------------------
(* What a step does to the connections it is not about.                      *)

Act(c) == \/ Accept(c) \/ HandlerStep(c) \/ SpuriousWake(c)
          \/ Connect(c) \/ ClientStep(c) \/ Leave(c) \/ Crash(c)

Same(d) == /\ hpc'[d] = hpc[d] /\ htask'[d] = htask[d] /\ count'[d] = count[d]
           /\ cpc'[d] = cpc[d] /\ ctask'[d] = ctask[d]
           /\ toMaster'[d] = toMaster[d] /\ toClient'[d] = toClient[d]

LEMMA Others ==
  ASSUME TypeOK, NEW c \in Clients, Act(c), NEW d \in Clients, d # c
  PROVE  Same(d)
<1> USE DEF TypeOK, Same, Go, Step, Post, Take, Send, Consume,
           mainVars, masterVars, acceptVars, handVars, clientVars, netVars
<1>1. CASE Accept(c)
  BY <1>1 DEF Accept
<1>2. CASE HandlerStep(c)
  BY <1>2 DEF HandlerStep, ReceiveInfo, MissInfo, InitCount, ReceiveRequest,
     FindNotStarted, EnterWait, GrantTask, RefuseTask, ReplyTask, ReplyShutdown,
     ReplyNoWork, ReceiveResult, UpdateClientPerformance, DecrementCount,
     StoreTile, CountCompletion, SeeDisconnect, HandlerExit
<1>3. CASE SpuriousWake(c) \/ Connect(c) \/ Leave(c) \/ Crash(c)
  BY <1>3 DEF SpuriousWake, Connect, Leave, Crash
<1>4. CASE ClientStep(c)
  BY <1>4 DEF ClientStep, SendCpuInfo, RequestTask, TakeTask, TakeNoWork,
     TakeShutdown, SendResult
<1> QED BY <1>1, <1>2, <1>3, <1>4 DEF Act

LEMMA InHandSame ==
  ASSUME NEW d, Same(d)
  PROVE  InHand(d)' = InHand(d)
BY DEF Same, InHand, Held

LEMMA ConnSame ==
  ASSUME NEW d, Same(d), Conn(d)
  PROVE  Conn(d)'
BY DEF Same, Conn, Silent, BeforeRequest, RequestSent, Answered, Gone, Gathering,
       Serving, Asked, Over

-----------------------------------------------------------------------------
(* What a step does to its own connection.                                   *)

LEMMA Wire ==
  /\ \A a \in Messages : Append(<<>>, a) = <<a>>
  /\ \A a : Head(<<a>>) = a /\ Tail(<<a>>) = <<>> /\ <<a>> # <<>>
  /\ \A a, b \in Messages : Append(<<a>>, b) = <<a, b>>
  /\ \A a, b : Head(<<a, b>>) = a /\ Tail(<<a, b>>) = <<b>> /\ <<a, b>> # <<>>
BY SendOne

LEMMA CutOff ==
  \A a, b \in Messages :
    /\ \A n \in 0 .. Len(<<a>>) : SubSeq(<<a>>, 1, n) \in {<<>>, <<a>>}
    /\ \A n \in 0 .. Len(<<a, b>>) : SubSeq(<<a, b>>, 1, n) \in {<<>>, <<a>>, <<a, b>>}
BY Prefixes

LEMMA Types ==
  /\ CpuInfo.type = "CPU_INFO" /\ TaskRequest.type = "TASK_REQUEST"
  /\ NoWork.type = "NO_WORK" /\ Shutdown.type = "SHUTDOWN"
  /\ \A t : /\ Task(t).type = "TASK_RESPONSE" /\ Task(t).task = t
            /\ Answer(t).type = "COMPUTATION_RESULT" /\ Answer(t).task = t
  /\ CpuInfo.task = NoTask /\ TaskRequest.task = NoTask
  /\ NoWork.task = NoTask /\ Shutdown.task = NoTask
BY DEF CpuInfo, TaskRequest, NoWork, Shutdown, Task, Answer, Msg

LEMMA ConnInternal ==
  ASSUME NEW c, Conn(c),
         cpc'[c] = cpc[c], toMaster'[c] = toMaster[c], toClient'[c] = toClient[c],
         \/ hpc[c] \in Serving \ {"recv"} /\ hpc'[c] \in Serving
         \/ hpc[c] \in Asked /\ hpc'[c] \in Asked
         \/ hpc[c] \in Over /\ hpc'[c] \in Over
         \/ hpc[c] = "none" /\ hpc'[c] = "info" /\ cpc[c] # "out"
  PROVE  Conn(c)'
<1> USE DEF Conn, Silent, BeforeRequest, RequestSent, Answered, Gone, Gathering,
            Serving, Asked, Over
<1>1. CASE hpc[c] \in Serving \ {"recv"} /\ hpc'[c] \in Serving
  <2>1. CASE Gone(c)
    <3>1. /\ toClient[c] = <<>>
          /\ toMaster[c] = <<>> \/ BeforeRequest(c) \/ RequestSent(c)
      BY <2>1
    <3> QED BY <1>1, <2>1, <3>1
  <2>2. CASE ~Gone(c)
    <3>1. /\ toClient[c] = <<>>
          /\ \/ cpc[c] = "top" /\ toMaster[c] = <<>>
             \/ cpc[c] = "await" /\ toMaster[c] = <<TaskRequest>>
      BY <1>1, <2>2
    <3> QED BY <1>1, <3>1
  <2> QED BY <2>1, <2>2
<1>2. CASE hpc[c] \in Asked /\ hpc'[c] \in Asked
  BY <1>2
<1>3. CASE hpc[c] \in Over /\ hpc'[c] \in Over
  BY <1>3
<1>4. CASE hpc[c] = "none" /\ hpc'[c] = "info" /\ cpc[c] # "out"
  BY <1>4
<1> QED BY <1>1, <1>2, <1>3, <1>4

\* The shapes a handler finds the stream in when it waits for a message ...
LEMMA InfoShape ==
  ASSUME NEW c, Conn(c), hpc[c] = "info"
  PROVE  /\ toClient[c] = <<>>
         /\ \/ toMaster[c] = <<CpuInfo>> /\ cpc[c] \in {"top", "closed", "crashed"}
            \/ toMaster[c] = <<CpuInfo, TaskRequest>>
               /\ cpc[c] \in {"await", "closed", "crashed"}
            \/ toMaster[c] = <<>>
BY DEF Conn, Silent, BeforeRequest, RequestSent, Answered, Gone, Gathering, Serving,
       Asked, Over

LEMMA RecvShape ==
  ASSUME NEW c, Conn(c), hpc[c] = "recv", toMaster[c] # <<>>
  PROVE  /\ toClient[c] = <<>>
         /\ \/ toMaster[c] = <<TaskRequest>> /\ cpc[c] \in {"await", "closed", "crashed"}
            \/ \E t \in TaskIds : toMaster[c] = <<Answer(t)>>
                                 /\ cpc[c] \in {"top", "closed", "crashed"}
            \/ \E t \in TaskIds : toMaster[c] = <<Answer(t), TaskRequest>>
                                 /\ cpc[c] \in {"await", "closed", "crashed"}
BY DEF Conn, Silent, BeforeRequest, RequestSent, Answered, Gone, Gathering, Serving,
       Asked, Over

\* ... and when it answers.
LEMMA ReplyShape ==
  ASSUME NEW c, Conn(c), hpc[c] \in Asked
  PROVE  Silent(c) /\ cpc[c] \in {"await", "closed", "crashed"}
BY DEF Conn, Silent, BeforeRequest, RequestSent, Answered, Gone, Gathering, Serving,
       Asked, Over

LEMMA AwaitShape ==
  ASSUME NEW c, Conn(c), cpc[c] = "await", toClient[c] # <<>>
  PROVE  /\ toMaster[c] = <<>>
         /\ \/ toClient[c] = <<NoWork>> /\ hpc[c] = "recv"
            \/ hpc[c] = "recv" /\ \E t \in TaskIds : toClient[c] = <<Task(t)>>
            \/ toClient[c] = <<Shutdown>> /\ hpc[c] \in Over
BY DEF Conn, Silent, BeforeRequest, RequestSent, Answered, Gone

LEMMA TopShape ==
  ASSUME NEW c, Conn(c), cpc[c] = "top"
  PROVE  toClient[c] = <<>> /\ BeforeRequest(c)
BY DEF Conn, Gone

LEMMA ConnOwn ==
  ASSUME TypeOK, NEW c \in Clients, Conn(c), Hands(c), Act(c)
  PROVE  Conn(c)'
<1>1. CASE InitCount(c) \/ FindNotStarted(c) \/ EnterWait(c) \/ GrantTask(c)
           \/ RefuseTask(c) \/ UpdateClientPerformance(c) \/ DecrementCount(c) \/ StoreTile(c)
           \/ CountCompletion(c) \/ HandlerExit(c) \/ SpuriousWake(c) \/ Accept(c)
  BY <1>1, ConnInternal DEF TypeOK, Go, Serving, Asked, Over, clientVars, netVars, handVars,
     InitCount, FindNotStarted, EnterWait, GrantTask, RefuseTask, UpdateClientPerformance, DecrementCount, StoreTile, CountCompletion, HandlerExit, SpuriousWake, Accept
<1>2. CASE ReceiveInfo(c)
  <2>1. /\ hpc[c] = "info" /\ toMaster[c] # <<>> /\ hpc'[c] = "init"
        /\ toMaster'[c] = Tail(toMaster[c])
        /\ cpc'[c] = cpc[c] /\ toClient'[c] = toClient[c]
    BY <1>2 DEF TypeOK, ReceiveInfo, Arrived, Go, Consume, clientVars
  <2>2. CASE toMaster[c] = <<CpuInfo>>
    <3>1. toMaster'[c] = <<>>
      BY <2>1, <2>2, Wire
    <3>2. toMaster[c] # <<CpuInfo, TaskRequest>>
      BY <2>2, Wire
    <3> QED BY <2>1, <2>2, <3>1, <3>2, InfoShape
        DEF Conn, BeforeRequest, Gone, Serving
  <2>3. CASE toMaster[c] = <<CpuInfo, TaskRequest>>
    <3>1. toMaster'[c] = <<TaskRequest>>
      BY <2>1, <2>3, Wire
    <3> QED BY <2>1, <2>3, <3>1, InfoShape, Wire
        DEF Conn, RequestSent, Gone, Serving
  <2> QED BY <2>1, <2>2, <2>3, InfoShape
<1>3. CASE ReceiveRequest(c)
  <2>1. /\ hpc[c] = "recv" /\ toMaster[c] # <<>> /\ hpc'[c] = "check"
        /\ Head(toMaster[c]).type = "TASK_REQUEST"
        /\ toMaster'[c] = Tail(toMaster[c])
        /\ cpc'[c] = cpc[c] /\ toClient'[c] = toClient[c]
    BY <1>3 DEF TypeOK, ReceiveRequest, Arrived, Go, Consume, clientVars
  <2>2. toMaster[c] = <<TaskRequest>>
    BY <2>1, RecvShape, Wire, Types
  <2>3. toMaster'[c] = <<>>
    BY <2>1, <2>2, Wire
  <2>4. toClient[c] = <<>> /\ cpc[c] \in {"await", "closed", "crashed"}
    BY <2>1, <2>2, RecvShape, Wire, Types
  <2> QED BY <2>1, <2>3, <2>4 DEF Conn, Silent, Gone, Asked
<1>4. CASE ReceiveResult(c)
  <2>1. /\ hpc[c] = "recv" /\ toMaster[c] # <<>> /\ hpc'[c] = "perf"
        /\ Head(toMaster[c]).type = "COMPUTATION_RESULT"
        /\ toMaster'[c] = Tail(toMaster[c])
        /\ cpc'[c] = cpc[c] /\ toClient'[c] = toClient[c]
    BY <1>4 DEF TypeOK, ReceiveResult, Arrived, Go, Consume, clientVars
  <2>2. toMaster[c] # <<TaskRequest>>
    BY <2>1, Wire, Types
  <2>3. CASE \E t \in TaskIds : toMaster[c] = <<Answer(t)>>
                               /\ cpc[c] \in {"top", "closed", "crashed"}
    <3>1. toMaster'[c] = <<>>
      BY <2>1, <2>3, Wire
    <3> QED BY <2>1, <2>3, <3>1, RecvShape DEF Conn, BeforeRequest, Gone, Serving
  <2>4. CASE \E t \in TaskIds : toMaster[c] = <<Answer(t), TaskRequest>>
                               /\ cpc[c] \in {"await", "closed", "crashed"}
    <3>1. toMaster'[c] = <<TaskRequest>>
      BY <2>1, <2>4, Wire
    <3> QED BY <2>1, <2>4, <3>1, RecvShape DEF Conn, RequestSent, Gone, Serving
  <2> QED BY <2>1, <2>2, <2>3, <2>4, RecvShape
<1>5. CASE MissInfo(c) \/ SeeDisconnect(c)
  <2>1. /\ Gone(c) /\ toMaster'[c] = <<>> /\ toClient'[c] = toClient[c]
        /\ cpc'[c] = cpc[c] /\ toMaster[c] = <<>>
    BY <1>5 DEF MissInfo, SeeDisconnect, EndOfStream, clientVars, netVars
  <2>2. toClient[c] = <<>>
    BY <2>1 DEF Conn, Gone, Silent
  <2> QED BY <2>1, <2>2 DEF Conn, Gone
<1>6. CASE ReplyTask(c) \/ ReplyNoWork(c) \/ ReplyShutdown(c)
  <2>1. /\ hpc[c] = "reply" /\ toMaster'[c] = toMaster[c] /\ cpc'[c] = cpc[c]
    BY <1>6 DEF TypeOK, ReplyTask, ReplyNoWork, ReplyShutdown, clientVars
  <2>2. Silent(c) /\ cpc[c] \in {"await", "closed", "crashed"}
    BY <2>1, ReplyShape DEF Asked
  <2>3. CASE Gone(c)
    <3>1. toClient'[c] = <<>>
      BY <1>6, <2>2, <2>3 DEF ReplyTask, ReplyNoWork, ReplyShutdown, Send, Silent
    <3> QED BY <2>1, <2>2, <2>3, <3>1 DEF Conn, Gone, Silent
  <2>4. CASE ~Gone(c) /\ ReplyTask(c)
    <3>1. htask[c] \in TaskIds /\ Task(htask[c]) \in Messages
      BY <2>4, MessageTypes DEF TypeOK, ReplyTask
    <3>2. toClient'[c] = <<Task(htask[c])>> /\ hpc'[c] = "recv"
      BY <2>2, <2>4, <3>1, Wire DEF TypeOK, ReplyTask, Send, Silent, Task, Go
    <3> QED BY <2>1, <2>2, <2>4, <3>1, <3>2 DEF Conn, Answered, Silent, Gone
  <2>5. CASE ~Gone(c) /\ ReplyNoWork(c)
    <3>1. toClient'[c] = <<NoWork>> /\ hpc'[c] = "recv"
      BY <2>2, <2>5, Wire, MessageTypes DEF TypeOK, ReplyNoWork, Send, Silent, Go
    <3> QED BY <2>1, <2>2, <2>5, <3>1 DEF Conn, Answered, Silent, Gone
  <2>6. CASE ~Gone(c) /\ ReplyShutdown(c)
    <3>1. toClient'[c] = <<Shutdown>> /\ hpc'[c] = "close"
      BY <2>2, <2>6, Wire, MessageTypes DEF TypeOK, ReplyShutdown, Send, Silent, Go
    <3> QED BY <2>1, <2>2, <2>6, <3>1 DEF Conn, Answered, Silent, Gone, Over
  <2> QED BY <1>6, <2>3, <2>4, <2>5, <2>6
<1>7. CASE Connect(c)
  BY <1>7 DEF TypeOK, Connect, Step, Conn, Silent, Gone, Gathering, netVars, handVars
<1>8. CASE SendCpuInfo(c)
  <2>1. /\ Silent(c) /\ hpc[c] \in Gathering
    BY <1>8 DEF SendCpuInfo, Conn, Gone
  <2>2. /\ toMaster'[c] = <<CpuInfo>> /\ toClient'[c] = <<>> /\ cpc'[c] = "top"
        /\ hpc'[c] = hpc[c]
    BY <1>8, <2>1, Wire, MessageTypes
    DEF TypeOK, SendCpuInfo, Post, Step, Silent, handVars
  <2> QED BY <2>1, <2>2 DEF Conn, BeforeRequest
<1>9. CASE RequestTask(c)
  <2>1. /\ toMaster'[c] = Append(toMaster[c], TaskRequest) /\ toClient'[c] = toClient[c]
        /\ cpc'[c] = "await" /\ hpc'[c] = hpc[c] /\ cpc[c] = "top"
    BY <1>9 DEF TypeOK, RequestTask, Post, Step, handVars
  <2>2. toClient[c] = <<>> /\ BeforeRequest(c)
    BY <2>1, TopShape
  <2>3. RequestSent(c)'
    <3>1. CASE toMaster[c] = <<CpuInfo>> /\ hpc[c] \in Gathering
      <4>1. toMaster'[c] = <<CpuInfo, TaskRequest>>
        BY <2>1, <3>1, Wire, MessageTypes
      <4> QED BY <2>1, <3>1, <4>1 DEF RequestSent
    <3>2. CASE toMaster[c] = <<>> /\ hpc[c] \in Serving
      <4>1. toMaster'[c] = <<TaskRequest>>
        BY <2>1, <3>2, Wire, MessageTypes
      <4> QED BY <2>1, <3>2, <4>1 DEF RequestSent
    <3>3. CASE hpc[c] = "recv" /\ \E t \in TaskIds : toMaster[c] = <<Answer(t)>>
      <4>1. PICK t \in TaskIds : toMaster[c] = <<Answer(t)>>
        BY <3>3
      <4>2. toMaster'[c] = <<Answer(t), TaskRequest>>
        BY <2>1, <4>1, Wire, MessageTypes
      <4> QED BY <2>1, <3>3, <4>2 DEF RequestSent
    <3> QED BY <2>2, <3>1, <3>2, <3>3 DEF BeforeRequest
  <2> QED BY <2>1, <2>2, <2>3 DEF Conn
<1>10. CASE TakeTask(c) \/ TakeNoWork(c) \/ TakeShutdown(c)
  <2>1. /\ cpc[c] = "await" /\ toClient[c] # <<>> /\ toClient'[c] = Tail(toClient[c])
        /\ toMaster'[c] = toMaster[c] /\ hpc'[c] = hpc[c]
    BY <1>10 DEF TypeOK, TakeTask, TakeNoWork, TakeShutdown, Delivered, Take, handVars
  <2>2. toMaster[c] = <<>> /\ toClient'[c] = <<>>
    BY <2>1, AwaitShape, Wire
  <2>3. CASE TakeTask(c)
    <3>1. Head(toClient[c]).type = "TASK_RESPONSE" /\ cpc'[c] = "compute"
      BY <2>3 DEF TypeOK, TakeTask, Delivered, Step
    <3>2. toClient[c] # <<Shutdown>>
      BY <3>1, Wire, Types
    <3> QED BY <2>1, <2>2, <3>1, <3>2, AwaitShape DEF Conn, Silent
  <2>4. CASE TakeNoWork(c)
    <3>1. Head(toClient[c]).type = "NO_WORK" /\ cpc'[c] = "top"
      BY <2>4 DEF TypeOK, TakeNoWork, Delivered, Step
    <3>2. toClient[c] # <<Shutdown>>
      BY <3>1, Wire, Types
    <3> QED BY <2>1, <2>2, <3>1, <3>2, AwaitShape DEF Conn, BeforeRequest, Serving
  <2>5. CASE TakeShutdown(c)
    <3>1. Head(toClient[c]).type = "SHUTDOWN" /\ cpc'[c] = "stopped"
      BY <2>5 DEF TypeOK, TakeShutdown, Delivered, Step
    <3>2. toClient[c] # <<NoWork>> /\ \A t : toClient[c] # <<Task(t)>>
      BY <3>1, Wire, Types
    <3> QED BY <2>1, <2>2, <3>1, <3>2, AwaitShape DEF Conn, Silent
  <2> QED BY <1>10, <2>3, <2>4, <2>5
<1>11. CASE SendResult(c)
  <2>1. /\ cpc[c] = "compute" /\ hpc[c] = "recv" /\ Silent(c)
    BY <1>11 DEF SendResult, Conn, Gone
  <2>2. ctask[c] \in TaskIds /\ Answer(ctask[c]) \in Messages
    BY <2>1, MessageTypes DEF TypeOK, Hands
  <2>3. /\ toMaster'[c] = <<Answer(ctask[c])>> /\ toClient'[c] = <<>> /\ cpc'[c] = "top"
        /\ hpc'[c] = "recv"
    BY <1>11, <2>1, <2>2, Wire DEF TypeOK, SendResult, Post, Step, Silent, handVars, Answer
  <2> QED BY <2>2, <2>3 DEF Conn, BeforeRequest
<1>12. CASE Leave(c)
  <2>1. /\ cpc[c] = "top" /\ cpc'[c] = "closed" /\ toMaster'[c] = toMaster[c]
        /\ toClient'[c] = toClient[c] /\ hpc'[c] = hpc[c]
    BY <1>12 DEF TypeOK, Leave, Step, netVars, handVars
  <2>2. toClient[c] = <<>> /\ BeforeRequest(c)
    BY <2>1, TopShape
  <2> QED BY <2>1, <2>2 DEF Conn, Gone, BeforeRequest
<1>13. CASE Crash(c)
  <2>1. /\ cpc[c] \in {"hello", "top", "await", "compute"} /\ cpc'[c] = "crashed"
        /\ toClient'[c] = <<>> /\ hpc'[c] = hpc[c]
    BY <1>13 DEF TypeOK, Crash, Step, handVars
  <2>2. PICK n \in 0 .. Len(toMaster[c]) : toMaster'[c] = SubSeq(toMaster[c], 1, n)
    BY <1>13 DEF TypeOK, Crash
  <2>3. toMaster[c] = <<>> \/ BeforeRequest(c) \/ RequestSent(c)
    BY <2>1 DEF Conn, Gone, Silent, Answered
  <2>4. toMaster'[c] = <<>> \/ BeforeRequest(c)' \/ RequestSent(c)'
    <3>1. CASE toMaster[c] = <<>>
      BY <2>2, <3>1, Prefixes
    <3>2. CASE BeforeRequest(c)
      <4>1. PICK a \in Messages : toMaster[c] = <<>> \/ toMaster[c] = <<a>>
        BY <3>2, MessageTypes DEF BeforeRequest
      <4>2. toMaster'[c] = <<>> \/ toMaster'[c] = toMaster[c]
        BY <2>2, <4>1, CutOff
      <4> QED BY <2>1, <3>2, <4>2 DEF BeforeRequest
    <3>3. CASE RequestSent(c)
      <4>1. CASE toMaster[c] = <<CpuInfo, TaskRequest>> /\ hpc[c] \in Gathering
        <5>1. toMaster'[c] \in {<<>>, <<CpuInfo>>, <<CpuInfo, TaskRequest>>}
          <6>1. n \in 0 .. Len(<<CpuInfo, TaskRequest>>)
            BY <4>1
          <6>2. toMaster'[c] = SubSeq(<<CpuInfo, TaskRequest>>, 1, n)
            BY <2>2, <4>1
          <6> QED BY <6>1, <6>2, CutOff, MessageTypes
        <5> QED BY <2>1, <4>1, <5>1 DEF BeforeRequest, RequestSent
      <4>2. CASE toMaster[c] = <<TaskRequest>> /\ hpc[c] \in Serving
        <5>1. toMaster'[c] \in {<<>>, <<TaskRequest>>}
          BY <2>2, <4>2, CutOff, MessageTypes
        <5> QED BY <2>1, <4>2, <5>1 DEF RequestSent
      <4>3. CASE hpc[c] = "recv"
                 /\ \E t \in TaskIds : toMaster[c] = <<Answer(t), TaskRequest>>
        <5>1. PICK t \in TaskIds : toMaster[c] = <<Answer(t), TaskRequest>>
          BY <4>3
        <5>2. toMaster'[c] \in {<<>>, <<Answer(t)>>, <<Answer(t), TaskRequest>>}
          <6>1. n \in 0 .. Len(<<Answer(t), TaskRequest>>)
            BY <5>1
          <6>2. toMaster'[c] = SubSeq(<<Answer(t), TaskRequest>>, 1, n)
            BY <2>2, <5>1
          <6> QED BY <6>1, <6>2, CutOff, MessageTypes
        <5> QED BY <2>1, <4>3, <5>2 DEF BeforeRequest, RequestSent
      <4> QED BY <3>3, <4>1, <4>2, <4>3 DEF RequestSent
    <3> QED BY <2>3, <3>1, <3>2, <3>3
  <2> QED BY <2>1, <2>4 DEF Conn, Gone
<1> QED BY <1>1, <1>2, <1>3, <1>4, <1>5, <1>6, <1>7, <1>8, <1>9, <1>10, <1>11, <1>12, <1>13
    DEF Act, HandlerStep, ClientStep

-----------------------------------------------------------------------------
(* Type correctness.                                                         *)

MainAct == SetMatrices \/ MainStep \/ Register

LEMMA NextCases ==
  ASSUME Next
  PROVE  MainAct \/ \E c \in Clients : Act(c)
BY DEF Next, MainAct, Act

LEMMA InitType == Init => TypeOK
<1> SUFFICES ASSUME Init PROVE TypeOK
  OBVIOUS
<1>1. /\ count \in [Clients -> Int] /\ perf \in [Clients -> Speeds \cup {0, NoEntry}]
      /\ htask \in [Clients -> TaskIds \cup {NoTask}]
      /\ ctask \in [Clients -> TaskIds \cup {NoTask}]
  BY DEF Init
<1>2. <<>> \in Seq(Messages) /\ queue \in Seq(TaskIds)
  BY DEF Init
<1>3. toMaster \in [Clients -> Seq(Messages)] /\ toClient \in [Clients -> Seq(Messages)]
  BY <1>2 DEF Init
<1> QED BY <1>1, <1>2, <1>3 DEF Init, TypeOK

LEMMA QueueCreated ==
  /\ [i \in 1 .. NumTasks |-> i - 1] \in Seq(TaskIds)
  /\ Len([i \in 1 .. NumTasks |-> i - 1]) = NumTasks
<1> DEFINE q == [i \in 1 .. NumTasks |-> i - 1]
<1>1. NumTasks \in Nat /\ \A i \in 1 .. NumTasks : i - 1 \in TaskIds
  BY DispatchAssumption DEF TaskIds
<1>2. q \in [1 .. NumTasks -> TaskIds]
  BY <1>1
<1>3. q \in Seq(TaskIds)
  BY <1>1, <1>2, SeqDef
<1>4. Len(q) = NumTasks
  BY <1>1, <1>2, <1>3, LenProperties
<1> QED BY <1>3, <1>4

LEMMA MainType ==
  ASSUME TypeOK, MainAct
  PROVE  TypeOK'
<1> USE DispatchAssumption DEF TypeOK, mainVars, masterVars, acceptVars, handVars,
        clientVars, netVars
<1>1. CASE SetMatrices
  BY <1>1, QueueCreated DEF SetMatrices
<1>2. CASE CheckClients
  BY <1>2 DEF CheckClients
<1>3. CASE RaiseFlag
  BY <1>3 DEF RaiseFlag
<1>4. CASE NotifyAll
  BY <1>4 DEF NotifyAll
<1>5. CASE GetResult
  BY <1>5 DEF GetResult
<1>6. CASE Register
  BY <1>6 DEF Register
<1> QED BY <1>1, <1>2, <1>3, <1>4, <1>5, <1>6 DEF MainAct, MainStep

LEMMA ActType ==
  ASSUME TypeOK, NEW c \in Clients, Hands(c), Act(c)
  PROVE  TypeOK'
<1> USE DispatchAssumption DEF TypeOK, mainVars, masterVars, acceptVars, handVars,
        clientVars, netVars, Go, Step, Consume, Take
<1>1. CASE Accept(c)
  BY <1>1 DEF Accept
<1>2. CASE ReceiveInfo(c)
  <2>1. Tail(toMaster[c]) \in Seq(Messages)
    BY <1>2, HeadTailProperties DEF ReceiveInfo, Arrived
  <2> QED BY <1>2, <2>1 DEF ReceiveInfo
<1>3. CASE MissInfo(c) \/ SeeDisconnect(c) \/ SpuriousWake(c) \/ EnterWait(c)
           \/ FindNotStarted(c)
  BY <1>3 DEF MissInfo, SeeDisconnect, SpuriousWake, EnterWait, FindNotStarted
<1>4. CASE InitCount(c)
  BY <1>4 DEF InitCount
<1>5. CASE ReceiveRequest(c) \/ ReceiveResult(c)
  <2>1. Tail(toMaster[c]) \in Seq(Messages) /\ Head(toMaster[c]) \in Messages
    BY <1>5, HeadTailProperties DEF ReceiveRequest, ReceiveResult, Arrived
  <2>2. CASE ReceiveRequest(c)
    BY <2>1, <2>2 DEF ReceiveRequest
  <2>3. CASE ReceiveResult(c)
    <3>1. Head(toMaster[c]).task \in TaskIds \cup {NoTask}
      BY <2>1 DEF Messages
    <3> QED BY <2>1, <2>3, <3>1 DEF ReceiveResult
  <2> QED BY <1>5, <2>2, <2>3
<1>6. CASE GrantTask(c) \/ RefuseTask(c) \/ UpdateClientPerformance(c)
  <2>1. OwnRatio(c) \in Speeds \cup {0, NoEntry}
    BY DEF OwnRatio
  <2>2. CASE GrantTask(c)
    <3>1. Head(queue) \in TaskIds /\ Tail(queue) \in Seq(TaskIds)
      BY <2>2, HeadTailProperties DEF GrantTask, Grantable
    <3> QED BY <2>1, <2>2, <3>1 DEF GrantTask
  <2>3. CASE RefuseTask(c)
    BY <2>1, <2>3 DEF RefuseTask
  <2>4. CASE UpdateClientPerformance(c)
    BY <2>1, <2>4 DEF UpdateClientPerformance
  <2> QED BY <1>6, <2>2, <2>3, <2>4
<1>7. CASE ReplyTask(c)
  <2>1. Msg("TASK_RESPONSE", htask[c]) \in Messages
    BY DEF Msg, Messages
  <2>2. toClient' \in [Clients -> Seq(Messages)]
    BY <1>7, <2>1, AppendProperties DEF ReplyTask, Send
  <2> QED BY <1>7, <2>2 DEF ReplyTask
<1>8. CASE ReplyShutdown(c) \/ ReplyNoWork(c)
  <2>1. /\ Append(toClient[c], Shutdown) \in Seq(Messages)
        /\ Append(toClient[c], NoWork) \in Seq(Messages)
    BY MessageTypes, AppendProperties
  <2>2. CASE ReplyShutdown(c)
    <3>1. toClient' \in [Clients -> Seq(Messages)]
      BY <2>1, <2>2 DEF ReplyShutdown, Send
    <3> QED BY <2>2, <3>1 DEF ReplyShutdown
  <2>3. CASE ReplyNoWork(c)
    <3>1. toClient' \in [Clients -> Seq(Messages)]
      BY <2>1, <2>3 DEF ReplyNoWork, Send
    <3> QED BY <2>3, <3>1 DEF ReplyNoWork
  <2> QED BY <1>8, <2>2, <2>3
<1>9. CASE DecrementCount(c)
  BY <1>9 DEF DecrementCount
<1>10. CASE StoreTile(c)
  <2>1. htask[c] \in TaskIds
    BY <1>10 DEF StoreTile, Hands
  <2> QED BY <1>10, <2>1 DEF StoreTile
<1>11. CASE CountCompletion(c)
  BY <1>11 DEF CountCompletion
<1>12. CASE HandlerExit(c)
  BY <1>12 DEF HandlerExit
<1>13. CASE Connect(c) \/ Leave(c)
  BY <1>13 DEF Connect, Leave
<1>14. CASE SendCpuInfo(c) \/ RequestTask(c)
  <2>1. /\ Append(toMaster[c], CpuInfo) \in Seq(Messages)
        /\ Append(toMaster[c], TaskRequest) \in Seq(Messages)
    BY MessageTypes, AppendProperties
  <2>2. toMaster' \in [Clients -> Seq(Messages)]
    BY <1>14, <2>1 DEF SendCpuInfo, RequestTask, Post
  <2> QED BY <1>14, <2>2 DEF SendCpuInfo, RequestTask
<1>15. CASE TakeTask(c) \/ TakeNoWork(c) \/ TakeShutdown(c)
  <2>1. Tail(toClient[c]) \in Seq(Messages) /\ Head(toClient[c]) \in Messages
    BY <1>15, HeadTailProperties DEF TakeTask, TakeNoWork, TakeShutdown, Delivered
  <2>2. Head(toClient[c]).task \in TaskIds \cup {NoTask}
    BY <2>1 DEF Messages
  <2>3. CASE TakeTask(c)
    BY <2>1, <2>2, <2>3 DEF TakeTask
  <2>4. CASE TakeNoWork(c)
    BY <2>1, <2>4 DEF TakeNoWork
  <2>5. CASE TakeShutdown(c)
    BY <2>1, <2>5 DEF TakeShutdown
  <2> QED BY <1>15, <2>3, <2>4, <2>5
<1>16. CASE SendResult(c)
  <2>1. Msg("COMPUTATION_RESULT", ctask[c]) \in Messages
    BY DEF Msg, Messages
  <2>2. toMaster' \in [Clients -> Seq(Messages)]
    BY <1>16, <2>1, AppendProperties DEF SendResult, Post
  <2> QED BY <1>16, <2>2 DEF SendResult
<1>17. CASE Crash(c)
  <2>1. PICK n \in 0 .. Len(toMaster[c]) :
          toMaster' = [toMaster EXCEPT ![c] = SubSeq(@, 1, n)]
    BY <1>17 DEF Crash
  <2>2. SubSeq(toMaster[c], 1, n) \in Seq(Messages)
    <3>1. CASE n = 0
      BY <3>1, SubSeqEmpty
    <3>2. CASE n # 0
      <4>1. n \in 1 .. Len(toMaster[c])
        BY <3>2
      <4> QED BY <4>1, PrefixOf
    <3> QED BY <3>1, <3>2
  <2>3. toMaster' \in [Clients -> Seq(Messages)]
    BY <2>1, <2>2
  <2> QED BY <1>17, <2>3 DEF Crash
<1> QED BY <1>1, <1>2, <1>3, <1>4, <1>5, <1>6, <1>7, <1>8, <1>9, <1>10, <1>11, <1>12, <1>13, <1>14, <1>15, <1>16, <1>17
    DEF Act, HandlerStep, ClientStep

-----------------------------------------------------------------------------
(* Where the task of a connection is.                                        *)

LEMMA CarriedShapes ==
  /\ Carried(<<>>) = {} /\ Carried(<<CpuInfo>>) = {} /\ Carried(<<TaskRequest>>) = {}
  /\ Carried(<<CpuInfo, TaskRequest>>) = {}
  /\ Carried(<<NoWork>>) = {} /\ Carried(<<Shutdown>>) = {}
  /\ \A t \in TaskIds : /\ Carried(<<Answer(t)>>) = {t}
                        /\ Carried(<<Answer(t), TaskRequest>>) = {t}
                        /\ Carried(<<Task(t)>>) = {t}
<1>1. \A t \in TaskIds : t # NoTask
  BY DispatchAssumption DEF TaskIds, NoTask
<1>2. CpuInfo.task = NoTask /\ TaskRequest.task = NoTask /\ NoWork.task = NoTask
      /\ Shutdown.task = NoTask
      /\ \A t : Answer(t).task = t /\ Task(t).task = t
  BY Types
<1> QED BY <1>1, <1>2, CarriedBy

\* Only what moves with the connection's own threads and streams is in hand.
LEMMA InHandQuiet ==
  ASSUME NEW c, htask'[c] = htask[c], ctask'[c] = ctask[c],
         toMaster'[c] = toMaster[c], toClient'[c] = toClient[c],
         hpc[c] # "bump", hpc'[c] # "bump"
  PROVE  InHand(c)' = InHand(c)
BY DEF InHand, Held

LEMMA InHandIs ==
  ASSUME NEW c, Hands(c), TypeOK, c \in Clients
  PROVE  /\ cpc[c] # "compute" => ctask[c] = NoTask
         /\ cpc[c] # "compute" /\ hpc[c] \notin {"reply", "perf", "count", "write", "bump"}
              => InHand(c) = Carried(toMaster[c]) \cup Carried(toClient[c])
         /\ cpc[c] # "compute" /\ hpc[c] = "bump"
              => InHand(c) = Carried(toMaster[c]) \cup Carried(toClient[c])
BY DEF Hands, InHand, Held

LEMMA HandsOwn ==
  ASSUME TypeOK, NEW c \in Clients, Conn(c), Hands(c), Act(c)
  PROVE  Hands(c)'
<1> USE DEF TypeOK, Hands, Go, Step, handVars, clientVars
<1>1. CASE ReceiveInfo(c) \/ MissInfo(c) \/ InitCount(c) \/ ReceiveRequest(c)
           \/ FindNotStarted(c) \/ EnterWait(c) \/ SpuriousWake(c) \/ Accept(c)
           \/ SeeDisconnect(c) \/ HandlerExit(c)
  BY <1>1 DEF ReceiveInfo, MissInfo, InitCount, ReceiveRequest, FindNotStarted,
     EnterWait, SpuriousWake, Accept, SeeDisconnect, HandlerExit
<1>2. CASE GrantTask(c) \/ RefuseTask(c) \/ ReplyTask(c) \/ ReplyShutdown(c)
           \/ ReplyNoWork(c)
  BY <1>2 DEF GrantTask, RefuseTask, ReplyTask, ReplyShutdown, ReplyNoWork
<1>3. CASE ReceiveResult(c)
  <2>1. /\ hpc[c] = "recv" /\ toMaster[c] # <<>>
        /\ Head(toMaster[c]).type = "COMPUTATION_RESULT"
    BY <1>3 DEF ReceiveResult, Arrived
  <2>2. toMaster[c] # <<TaskRequest>>
    BY <2>1, Wire, Types
  <2>3. PICK t \in TaskIds : \/ toMaster[c] = <<Answer(t)>>
                            \/ toMaster[c] = <<Answer(t), TaskRequest>>
    BY <2>1, <2>2, RecvShape
  <2>4. Head(toMaster[c]).task = t
    BY <2>3, Wire, Types
  <2>5. t # NoTask
    BY DispatchAssumption DEF TaskIds, NoTask
  <2> QED BY <1>3, <2>4, <2>5 DEF ReceiveResult
<1>4. CASE UpdateClientPerformance(c) \/ DecrementCount(c) \/ StoreTile(c)
           \/ CountCompletion(c)
  BY <1>4 DEF UpdateClientPerformance, DecrementCount, StoreTile, CountCompletion
<1>5. CASE Connect(c) \/ SendCpuInfo(c) \/ RequestTask(c) \/ TakeNoWork(c)
           \/ TakeShutdown(c) \/ SendResult(c) \/ Leave(c) \/ Crash(c)
  BY <1>5 DEF Connect, SendCpuInfo, RequestTask, TakeNoWork, TakeShutdown, SendResult,
     Leave, Crash
<1>6. CASE TakeTask(c)
  <2>1. /\ cpc[c] = "await" /\ toClient[c] # <<>>
        /\ Head(toClient[c]).type = "TASK_RESPONSE"
    BY <1>6 DEF TakeTask, Delivered
  <2>2. toClient[c] # <<NoWork>> /\ toClient[c] # <<Shutdown>>
    BY <2>1, Wire, Types
  <2>3. PICK t \in TaskIds : toClient[c] = <<Task(t)>>
    BY <2>1, <2>2, AwaitShape
  <2>4. Head(toClient[c]).task = t
    BY <2>3, Wire, Types
  <2>5. t # NoTask
    BY DispatchAssumption DEF TaskIds, NoTask
  <2> QED BY <1>6, <2>4, <2>5 DEF TakeTask
<1> QED BY <1>1, <1>2, <1>3, <1>4, <1>5, <1>6 DEF Act, HandlerStep, ClientStep

LEMMA InHandOwn ==
  ASSUME TypeOK, NEW c \in Clients, Conn(c), Hands(c), Act(c),
         ~GrantTask(c), ~StoreTile(c)
  PROVE  /\ InHand(c)' \subseteq InHand(c)
         /\ ~Crash(c) /\ ~(ReplyTask(c) /\ Gone(c)) => InHand(c)' = InHand(c)
         /\ queue' = queue /\ written' = written
<1>0. queue' = queue /\ written' = written
  BY DEF Act, HandlerStep, ClientStep, masterVars, Accept, ReceiveInfo, MissInfo,
     InitCount, ReceiveRequest, FindNotStarted, EnterWait, RefuseTask, ReplyTask,
     ReplyShutdown, ReplyNoWork, ReceiveResult, UpdateClientPerformance,
     DecrementCount, CountCompletion, SeeDisconnect, HandlerExit, SpuriousWake, Connect,
     SendCpuInfo, RequestTask, TakeTask, TakeNoWork, TakeShutdown, SendResult, Leave,
     Crash
<1>1. CASE Accept(c) \/ MissInfo(c) \/ InitCount(c) \/ FindNotStarted(c)
           \/ EnterWait(c) \/ RefuseTask(c) \/ UpdateClientPerformance(c)
           \/ DecrementCount(c) \/ SeeDisconnect(c) \/ HandlerExit(c) \/ SpuriousWake(c)
           \/ Connect(c) \/ Leave(c)
  BY <1>0, <1>1, InHandQuiet DEF TypeOK, Go, Step, handVars, clientVars, netVars,
     Accept, MissInfo, InitCount, FindNotStarted, EnterWait, RefuseTask, UpdateClientPerformance,
     DecrementCount, SeeDisconnect, HandlerExit, SpuriousWake, Connect, Leave, InHand, Held
<1>2. CASE ReceiveInfo(c)
  <2>1. /\ hpc[c] = "info" /\ hpc'[c] = "init" /\ toMaster[c] # <<>>
        /\ toMaster'[c] = Tail(toMaster[c]) /\ toClient'[c] = toClient[c]
        /\ htask'[c] = htask[c] /\ ctask'[c] = ctask[c]
    BY <1>2 DEF TypeOK, ReceiveInfo, Arrived, Go, Consume, clientVars
  <2>2. Carried(toMaster[c]) = {} /\ Carried(toMaster'[c]) = {}
    <3>1. CASE toMaster[c] = <<CpuInfo>>
      <4>1. toMaster'[c] = <<>>
        BY <2>1, <3>1, Wire
      <4> QED BY <3>1, <4>1, CarriedShapes
    <3>2. CASE toMaster[c] = <<CpuInfo, TaskRequest>>
      <4>1. toMaster'[c] = <<TaskRequest>>
        BY <2>1, <3>2, Wire
      <4> QED BY <3>2, <4>1, CarriedShapes
    <3> QED BY <2>1, <3>1, <3>2, InfoShape
  <2> QED BY <1>0, <2>1, <2>2 DEF InHand, Held
<1>3. CASE ReceiveRequest(c)
  <2>1. /\ hpc[c] = "recv" /\ hpc'[c] = "check" /\ toMaster[c] # <<>>
        /\ Head(toMaster[c]).type = "TASK_REQUEST"
        /\ toMaster'[c] = Tail(toMaster[c]) /\ toClient'[c] = toClient[c]
        /\ htask'[c] = htask[c] /\ ctask'[c] = ctask[c]
    BY <1>3 DEF TypeOK, ReceiveRequest, Arrived, Go, Consume, clientVars
  <2>2. toMaster[c] = <<TaskRequest>>
    BY <2>1, RecvShape, Wire, Types
  <2>3. Carried(toMaster[c]) = {} /\ Carried(toMaster'[c]) = {}
    BY <2>1, <2>2, Wire, CarriedShapes
  <2> QED BY <1>0, <2>1, <2>3 DEF InHand, Held
<1>4. CASE ReceiveResult(c)
  <2>1. /\ hpc[c] = "recv" /\ hpc'[c] = "perf" /\ toMaster[c] # <<>>
        /\ Head(toMaster[c]).type = "COMPUTATION_RESULT"
        /\ toMaster'[c] = Tail(toMaster[c]) /\ toClient'[c] = toClient[c]
        /\ htask'[c] = Head(toMaster[c]).task /\ ctask'[c] = ctask[c]
        /\ htask[c] = NoTask
    BY <1>4 DEF TypeOK, ReceiveResult, Arrived, Go, Consume, clientVars, Hands
  <2>2. toMaster[c] # <<TaskRequest>>
    BY <2>1, Wire, Types
  <2>3. PICK t \in TaskIds : \/ toMaster[c] = <<Answer(t)>>
                            \/ toMaster[c] = <<Answer(t), TaskRequest>>
    BY <2>1, <2>2, RecvShape
  <2>4. Head(toMaster[c]).task = t /\ t # NoTask
    BY <2>3, Wire, Types, DispatchAssumption DEF TaskIds, NoTask
  <2>5. Carried(toMaster[c]) = {t} /\ Carried(toMaster'[c]) = {}
    <3>1. toMaster'[c] \in {<<>>, <<TaskRequest>>}
      BY <2>1, <2>3, Wire
    <3>2. Carried(toMaster'[c]) = {}
      BY <3>1, CarriedShapes
    <3> QED BY <2>3, <3>2, CarriedShapes
  <2> QED BY <1>0, <2>1, <2>4, <2>5 DEF InHand, Held
<1>5. CASE ReplyTask(c)
  <2>1. /\ hpc[c] = "reply" /\ hpc'[c] = "recv" /\ htask[c] # NoTask
        /\ htask[c] \in TaskIds /\ htask'[c] = NoTask /\ ctask'[c] = ctask[c]
        /\ toMaster'[c] = toMaster[c]
    BY <1>5 DEF TypeOK, ReplyTask, Go, clientVars
  <2>2. toMaster[c] = <<>> /\ toClient[c] = <<>>
    BY <2>1, ReplyShape DEF Asked, Silent
  <2>3. CASE Gone(c)
    <3>1. toClient'[c] = <<>>
      BY <1>5, <2>2, <2>3 DEF ReplyTask, Send
    <3> QED BY <1>0, <1>5, <2>1, <2>2, <2>3, <3>1, CarriedShapes DEF InHand, Held
  <2>4. CASE ~Gone(c)
    <3>1. toClient'[c] = <<Task(htask[c])>>
      BY <1>5, <2>1, <2>2, <2>4, Wire, MessageTypes DEF TypeOK, ReplyTask, Send, Task
    <3>2. /\ Carried(toClient'[c]) = {htask[c]} /\ Carried(toClient[c]) = {}
          /\ Carried(toMaster'[c]) = {} /\ Carried(toMaster[c]) = {}
      BY <2>1, <2>2, <3>1, CarriedShapes
    <3> QED BY <1>0, <2>1, <3>2 DEF InHand, Held
  <2> QED BY <2>3, <2>4
<1>6. CASE ReplyShutdown(c) \/ ReplyNoWork(c)
  <2>1. /\ hpc[c] = "reply" /\ hpc'[c] # "bump" /\ htask'[c] = htask[c]
        /\ ctask'[c] = ctask[c] /\ toMaster'[c] = toMaster[c]
    BY <1>6 DEF TypeOK, ReplyShutdown, ReplyNoWork, Go, clientVars
  <2>2. toClient[c] = <<>>
    BY <2>1, ReplyShape DEF Asked, Silent
  <2>3. toClient'[c] \in {<<>>, <<NoWork>>, <<Shutdown>>}
    <3>1. CASE ReplyShutdown(c)
      BY <2>2, <3>1, Wire, MessageTypes DEF TypeOK, ReplyShutdown, Send
    <3>2. CASE ReplyNoWork(c)
      BY <2>2, <3>2, Wire, MessageTypes DEF TypeOK, ReplyNoWork, Send
    <3> QED BY <1>6, <3>1, <3>2
  <2> QED BY <1>0, <2>1, <2>2, <2>3, CarriedShapes DEF InHand, Held
<1>7. CASE CountCompletion(c)
  <2>1. /\ hpc[c] = "bump" /\ hpc'[c] = "recv" /\ htask'[c] = NoTask
        /\ ctask'[c] = ctask[c] /\ toMaster'[c] = toMaster[c]
        /\ toClient'[c] = toClient[c]
    BY <1>7 DEF TypeOK, CountCompletion, Go, clientVars, netVars
  <2> QED BY <1>0, <2>1 DEF InHand, Held
<1>8. CASE SendCpuInfo(c)
  <2>1. toMaster[c] = <<>>
    BY <1>8 DEF SendCpuInfo, Conn, Gone, Silent
  <2>2. toMaster'[c] = <<CpuInfo>>
    BY <1>8, <2>1, Wire, MessageTypes DEF TypeOK, SendCpuInfo, Post
  <2> QED BY <1>0, <1>8, <2>1, <2>2, CarriedShapes
      DEF TypeOK, SendCpuInfo, InHand, Held, handVars
<1>9. CASE RequestTask(c)
  <2>1. toMaster'[c] = Append(toMaster[c], TaskRequest) /\ toClient'[c] = toClient[c]
        /\ hpc'[c] = hpc[c] /\ htask'[c] = htask[c] /\ ctask'[c] = ctask[c]
    BY <1>9 DEF TypeOK, RequestTask, Post, handVars
  <2>2. BeforeRequest(c)
    BY <1>9, TopShape DEF RequestTask
  <2>3. Carried(toMaster'[c]) = Carried(toMaster[c])
    <3>1. CASE toMaster[c] = <<CpuInfo>>
      <4>1. toMaster'[c] = <<CpuInfo, TaskRequest>>
        BY <2>1, <3>1, Wire, MessageTypes
      <4> QED BY <3>1, <4>1, CarriedShapes
    <3>2. CASE toMaster[c] = <<>>
      <4>1. toMaster'[c] = <<TaskRequest>>
        BY <2>1, <3>2, Wire, MessageTypes
      <4> QED BY <3>2, <4>1, CarriedShapes
    <3>3. CASE \E t \in TaskIds : toMaster[c] = <<Answer(t)>>
      <4>1. PICK t \in TaskIds : toMaster[c] = <<Answer(t)>>
        BY <3>3
      <4>2. toMaster'[c] = <<Answer(t), TaskRequest>>
        BY <2>1, <4>1, Wire, MessageTypes
      <4> QED BY <4>1, <4>2, CarriedShapes
    <3> QED BY <2>2, <3>1, <3>2, <3>3 DEF BeforeRequest
  <2> QED BY <1>0, <2>1, <2>3 DEF InHand, Held
<1>10. CASE TakeTask(c)
  <2>1. /\ cpc[c] = "await" /\ toClient[c] # <<>> /\ toClient'[c] = Tail(toClient[c])
        /\ Head(toClient[c]).type = "TASK_RESPONSE"
        /\ toMaster'[c] = toMaster[c] /\ hpc'[c] = hpc[c] /\ htask'[c] = htask[c]
        /\ ctask[c] = NoTask /\ ctask'[c] = Head(toClient[c]).task
    BY <1>10 DEF TypeOK, TakeTask, Delivered, Take, handVars, Hands
  <2>2. toClient[c] # <<NoWork>> /\ toClient[c] # <<Shutdown>>
    BY <2>1, Wire, Types
  <2>3. PICK t \in TaskIds : toClient[c] = <<Task(t)>>
    BY <2>1, <2>2, AwaitShape
  <2>4. Head(toClient[c]).task = t /\ t # NoTask
    BY <2>3, Wire, Types, DispatchAssumption DEF TaskIds, NoTask
  <2>5. Carried(toClient[c]) = {t} /\ Carried(toClient'[c]) = {}
    <3>1. toClient'[c] = <<>>
      BY <2>1, <2>3, Wire
    <3> QED BY <2>3, <3>1, CarriedShapes
  <2> QED BY <1>0, <2>1, <2>4, <2>5 DEF InHand, Held
<1>11. CASE TakeNoWork(c) \/ TakeShutdown(c)
  <2>1. /\ cpc[c] = "await" /\ toClient[c] # <<>> /\ toClient'[c] = Tail(toClient[c])
        /\ Head(toClient[c]).type \in {"NO_WORK", "SHUTDOWN"}
        /\ toMaster'[c] = toMaster[c] /\ hpc'[c] = hpc[c] /\ htask'[c] = htask[c]
        /\ ctask'[c] = ctask[c]
    BY <1>11 DEF TypeOK, TakeNoWork, TakeShutdown, Delivered, Take, handVars
  <2>2. \A t : toClient[c] # <<Task(t)>>
    BY <2>1, Wire, Types
  <2>3. toClient[c] \in {<<NoWork>>, <<Shutdown>>}
    BY <2>1, <2>2, AwaitShape
  <2>4. Carried(toClient[c]) = {} /\ Carried(toClient'[c]) = {}
    <3>1. toClient'[c] = <<>>
      BY <2>1, <2>3, Wire
    <3> QED BY <2>3, <3>1, CarriedShapes
  <2> QED BY <1>0, <2>1, <2>4 DEF InHand, Held
<1>12. CASE SendResult(c)
  <2>1. /\ hpc[c] = "recv" /\ toMaster[c] = <<>> /\ cpc[c] = "compute"
    BY <1>12 DEF SendResult, Conn, Gone, Silent
  <2>2. ctask[c] \in TaskIds /\ Answer(ctask[c]) \in Messages /\ ctask[c] # NoTask
    BY <2>1, MessageTypes DEF TypeOK, Hands
  <2>3. /\ toMaster'[c] = <<Answer(ctask[c])>> /\ toClient'[c] = toClient[c]
        /\ ctask'[c] = NoTask /\ hpc'[c] = hpc[c] /\ htask'[c] = htask[c]
    BY <1>12, <2>1, <2>2, Wire DEF TypeOK, SendResult, Post, handVars, Answer
  <2>4. Carried(toMaster'[c]) = {ctask[c]} /\ Carried(toMaster[c]) = {}
    BY <2>1, <2>2, <2>3, CarriedShapes
  <2> QED BY <1>0, <2>1, <2>2, <2>3, <2>4 DEF InHand, Held
<1>13. CASE Crash(c)
  <2>1. /\ toClient'[c] = <<>> /\ ctask'[c] = NoTask /\ hpc'[c] = hpc[c]
        /\ htask'[c] = htask[c]
    BY <1>13 DEF TypeOK, Crash, handVars
  <2>2. PICK n \in 0 .. Len(toMaster[c]) : toMaster'[c] = SubSeq(toMaster[c], 1, n)
    BY <1>13 DEF TypeOK, Crash
  <2>3. Carried(toMaster'[c]) \subseteq Carried(toMaster[c])
    <3>1. CASE n = 0
      <4>1. toMaster'[c] = <<>>
        BY <2>2, <3>1, SubSeqEmpty
      <4> QED BY <4>1, CarriedShapes
    <3>2. CASE n # 0
      <4>1. n \in 1 .. Len(toMaster[c]) /\ toMaster[c] \in Seq(Messages)
        BY <3>2 DEF TypeOK
      <4>2. /\ Len(toMaster'[c]) = n
            /\ \A i \in 1 .. n : toMaster'[c][i] = toMaster[c][i]
        BY <2>2, <4>1, PrefixOf
      <4> QED BY <4>1, <4>2 DEF Carried
    <3> QED BY <3>1, <3>2
  <2>4. Carried(toClient'[c]) = {}
    BY <2>1, CarriedShapes
  <2> QED BY <1>0, <1>13, <2>1, <2>3, <2>4 DEF InHand, Held
<1> QED BY <1>1, <1>2, <1>3, <1>4, <1>5, <1>6, <1>7, <1>8, <1>9, <1>10, <1>11, <1>12, <1>13
    DEF Act, HandlerStep, ClientStep

LEMMA GrantOwn ==
  ASSUME TypeOK, NEW c \in Clients, Conn(c), Hands(c), GrantTask(c)
  PROVE  /\ InHand(c) = {} /\ InHand(c)' = {Head(queue)}
         /\ queue # <<>> /\ queue' = Tail(queue) /\ written' = written
<1>1. /\ hpc[c] = "check" /\ hpc'[c] = "reply" /\ htask'[c] = Head(queue)
      /\ queue # <<>> /\ queue' = Tail(queue) /\ written' = written
      /\ ctask'[c] = ctask[c] /\ toMaster'[c] = toMaster[c] /\ toClient'[c] = toClient[c]
  BY DEF TypeOK, GrantTask, Grantable, Go, clientVars, netVars
<1>2. Head(queue) \in TaskIds /\ Head(queue) # NoTask
  BY <1>1, HeadTailProperties, DispatchAssumption DEF TypeOK, TaskIds, NoTask
<1>3. Silent(c) /\ cpc[c] # "compute"
  BY <1>1, ReplyShape DEF Asked
<1>4. htask[c] = NoTask /\ ctask[c] = NoTask
  BY <1>1, <1>3 DEF TypeOK, Hands
<1>5. Carried(toMaster[c]) = {} /\ Carried(toClient[c]) = {}
  BY <1>3, CarriedShapes DEF Silent
<1> QED BY <1>1, <1>2, <1>4, <1>5 DEF InHand, Held

LEMMA StoreOwn ==
  ASSUME TypeOK, NEW c \in Clients, Conn(c), Hands(c), StoreTile(c)
  PROVE  /\ htask[c] \in TaskIds /\ InHand(c) = {htask[c]} /\ InHand(c)' = {}
         /\ queue' = queue /\ written' = written \cup {htask[c]}
<1>1. /\ hpc[c] = "write" /\ hpc'[c] = "bump" /\ htask'[c] = htask[c]
      /\ htask[c] # NoTask /\ htask[c] \in TaskIds
      /\ queue' = queue /\ written' = written \cup {htask[c]}
      /\ ctask'[c] = ctask[c] /\ toMaster'[c] = toMaster[c] /\ toClient'[c] = toClient[c]
  BY DEF TypeOK, StoreTile, Hands, Go, clientVars, netVars
<1>2. /\ cpc[c] # "compute" /\ toClient[c] = <<>>
      /\ toMaster[c] = <<>> \/ toMaster[c] = <<TaskRequest>>
  BY <1>1 DEF Conn, Silent, BeforeRequest, RequestSent, Answered, Gone, Gathering, Asked,
     Over, Serving
<1>3. Carried(toMaster[c]) = {} /\ Carried(toClient[c]) = {} /\ ctask[c] = NoTask
  BY <1>2, CarriedShapes DEF Hands
<1> QED BY <1>1, <1>3 DEF InHand, Held

\* Taking the head of a sequence without repetitions.
Distinct(s) == \A i, j \in 1 .. Len(s) : s[i] = s[j] => i = j
Elements(s) == {s[i] : i \in 1 .. Len(s)}

LEMMA Pop ==
  ASSUME NEW S, NEW q \in Seq(S), q # <<>>, Distinct(q)
  PROVE  /\ Distinct(Tail(q))
         /\ Elements(Tail(q)) = Elements(q) \ {Head(q)}
         /\ Head(q) \in Elements(q)
<1> USE DEF Distinct, Elements
<1> DEFINE p == Tail(q)
<1>1. /\ Len(q) \in Nat \ {0} /\ Len(p) = Len(q) - 1
      /\ \A i \in 1 .. Len(p) : p[i] = q[i + 1]
      /\ Head(q) = q[1]
  BY HeadTailProperties, EmptySeq
<1> HIDE DEF p
<1>2. \A i, j \in 1 .. Len(p) : p[i] = p[j] => i = j
  <2> SUFFICES ASSUME NEW i \in 1 .. Len(p), NEW j \in 1 .. Len(p), p[i] = p[j]
               PROVE  i = j
    OBVIOUS
  <2>1. i + 1 \in 1 .. Len(q) /\ j + 1 \in 1 .. Len(q)
    BY <1>1
  <2>2. i + 1 = j + 1
    BY <1>1, <2>1
  <2> QED BY <2>2
<1>3. ASSUME NEW i \in 1 .. Len(p)
      PROVE  p[i] \in {q[j] : j \in 1 .. Len(q)} \ {Head(q)}
  <2>1. i + 1 \in 1 .. Len(q) /\ 1 \in 1 .. Len(q) /\ i + 1 # 1
    BY <1>1
  <2> QED BY <1>1, <2>1
<1>4. ASSUME NEW j \in 1 .. Len(q), q[j] # Head(q)
      PROVE  q[j] \in {p[i] : i \in 1 .. Len(p)}
  <2>1. j # 1
    BY <1>1, <1>4
  <2>2. j - 1 \in 1 .. Len(p) /\ (j - 1) + 1 = j
    BY <1>1, <2>1
  <2>3. p[j - 1] = q[j]
    BY <1>1, <2>2
  <2> QED BY <2>2, <2>3
<1>5. Head(q) \in {q[i] : i \in 1 .. Len(q)}
  <2>1. 1 \in 1 .. Len(q)
    BY <1>1
  <2> QED BY <1>1, <2>1
<1>6. {p[i] : i \in 1 .. Len(p)} \subseteq {q[i] : i \in 1 .. Len(q)} \ {Head(q)}
  BY <1>3
<1>7. {q[i] : i \in 1 .. Len(q)} \ {Head(q)} \subseteq {p[i] : i \in 1 .. Len(p)}
  BY <1>4
<1> QED BY <1>2, <1>5, <1>6, <1>7 DEF p

Connections == \A c \in Clients : Conn(c) /\ Hands(c)

LEMMA PlacedAct ==
  ASSUME TypeOK, Connections, TaskPlacedOnce, NEW c \in Clients, Act(c)
  PROVE  TaskPlacedOnce'
<1>1. \A d \in Clients \ {c} : InHand(d)' = InHand(d)
  BY Others, InHandSame
<1>2. Conn(c) /\ Hands(c)
  BY DEF Connections
<1>3. CASE GrantTask(c)
  <2>1. /\ InHand(c) = {} /\ InHand(c)' = {Head(queue)} /\ queue # <<>>
        /\ queue' = Tail(queue) /\ written' = written
    BY <1>2, <1>3, GrantOwn
  <2>2. /\ \A i, j \in 1 .. Len(queue') : queue'[i] = queue'[j] => i = j
        /\ Queued' = Queued \ {Head(queue)} /\ Head(queue) \in Queued
    <3>1. queue \in Seq(TaskIds) /\ Distinct(queue)
      BY DEF TypeOK, TaskPlacedOnce, Distinct
    <3>2. /\ Distinct(queue') /\ Elements(queue') = Elements(queue) \ {Head(queue)}
          /\ Head(queue) \in Elements(queue)
      BY <2>1, <3>1, Pop
    <3> QED BY <3>2 DEF Queued, Distinct, Elements
  <2>3. Queued' \cap written' = {} /\ Head(queue) \notin written
    BY <2>1, <2>2 DEF TaskPlacedOnce
  <2>4. \A d \in Clients \ {c} : /\ InHand(d)' \cap (Queued' \cup written') = {}
                                /\ Head(queue) \notin InHand(d)'
    BY <1>1, <2>1, <2>2 DEF TaskPlacedOnce
  <2>5. InHand(c)' \cap (Queued' \cup written') = {}
    BY <2>1, <2>2, <2>3
  <2>6. \A d \in Clients, e \in Clients : d # e => InHand(d)' \cap InHand(e)' = {}
    <3> SUFFICES ASSUME NEW d \in Clients, NEW e \in Clients, d # e
                 PROVE  InHand(d)' \cap InHand(e)' = {}
      OBVIOUS
    <3>1. CASE d = c
      BY <2>1, <2>4, <3>1
    <3>2. CASE e = c
      BY <2>1, <2>4, <3>2
    <3>3. CASE d # c /\ e # c
      BY <1>1, <3>3 DEF TaskPlacedOnce
    <3> QED BY <3>1, <3>2, <3>3
  <2> QED BY <2>2, <2>3, <2>4, <2>5, <2>6 DEF TaskPlacedOnce
<1>4. CASE StoreTile(c)
  <2>1. /\ InHand(c) = {htask[c]} /\ InHand(c)' = {}
        /\ queue' = queue /\ written' = written \cup {htask[c]}
    BY <1>2, <1>4, StoreOwn
  <2>2. Queued' = Queued
    BY <2>1 DEF Queued
  <2>3. htask[c] \notin Queued /\ \A d \in Clients \ {c} : htask[c] \notin InHand(d)
    BY <2>1 DEF TaskPlacedOnce
  <2>4. Queued' \cap written' = {}
    BY <2>1, <2>2, <2>3 DEF TaskPlacedOnce
  <2>5. ASSUME NEW d \in Clients
        PROVE  /\ InHand(d)' \cap (Queued' \cup written') = {}
               /\ \A e \in Clients \ {d} : InHand(d)' \cap InHand(e)' = {}
    BY <1>1, <2>1, <2>2, <2>3 DEF TaskPlacedOnce
  <2> QED BY <2>1, <2>4, <2>5 DEF TaskPlacedOnce
<1>5. CASE ~GrantTask(c) /\ ~StoreTile(c)
  <2>1. InHand(c)' \subseteq InHand(c) /\ queue' = queue /\ written' = written
    BY <1>2, <1>5, InHandOwn
  <2>2. Queued' = Queued
    BY <2>1 DEF Queued
  <2>3. \A d \in Clients : InHand(d)' \subseteq InHand(d)
    BY <1>1, <2>1
  <2>4. ASSUME NEW d \in Clients
        PROVE  /\ InHand(d)' \cap (Queued' \cup written') = {}
               /\ \A e \in Clients \ {d} : InHand(d)' \cap InHand(e)' = {}
    BY <2>1, <2>2, <2>3 DEF TaskPlacedOnce
  <2> QED BY <2>1, <2>2, <2>4 DEF TaskPlacedOnce
<1> QED BY <1>3, <1>4, <1>5

LEMMA CountsOwn ==
  ASSUME TypeOK, NEW c \in Clients, Conn(c), Hands(c), Counts(c), Act(c)
  PROVE  Counts(c)'
<1>1. CASE GrantTask(c)
  <2>1. /\ hpc[c] = "check" /\ hpc'[c] = "reply" /\ count'[c] = count[c] + 1
        /\ htask'[c] = Head(queue) /\ queue # <<>>
    BY <1>1 DEF TypeOK, GrantTask, Grantable, Go
  <2>2. Head(queue) # NoTask
    BY <2>1, HeadTailProperties, DispatchAssumption DEF TypeOK, TaskIds, NoTask
  <2> QED BY <2>1, <2>2 DEF Counts
<1>2. CASE StoreTile(c)
  <2>1. hpc[c] = "write" /\ hpc'[c] = "bump" /\ count'[c] = count[c]
    BY <1>2 DEF TypeOK, StoreTile, Go
  <2> QED BY <2>1 DEF Counts
<1>3. CASE Accept(c) \/ ReceiveInfo(c) \/ MissInfo(c)
  <2>1. hpc'[c] \in {"info", "init"} /\ count'[c] = count[c]
    BY <1>3 DEF TypeOK, Accept, ReceiveInfo, MissInfo, Go, masterVars
  <2> QED BY <2>1 DEF Counts
<1>4. CASE InitCount(c)
  <2>1. /\ hpc[c] = "init" /\ hpc'[c] = "recv" /\ count'[c] = 0
    BY <1>4 DEF TypeOK, InitCount, Go
  <2>2. InHand(c)' = InHand(c)
    <3>1. ~GrantTask(c) /\ ~StoreTile(c) /\ ~ReplyTask(c)
      BY <2>1 DEF GrantTask, StoreTile, ReplyTask
    <3>2. ~Crash(c)
      BY <2>1 DEF Crash, handVars
    <3> QED BY <3>1, <3>2, InHandOwn
  <2>3. InHand(c) = {}
    <3>1. /\ cpc[c] # "compute" /\ toClient[c] = <<>>
          /\ toMaster[c] = <<>> \/ toMaster[c] = <<TaskRequest>>
      BY <2>1 DEF Conn, Silent, BeforeRequest, RequestSent, Answered, Gone, Gathering,
         Asked, Over, Serving
    <3>2. Carried(toMaster[c]) = {} /\ Carried(toClient[c]) = {}
      BY <3>1, CarriedShapes
    <3> QED BY <2>1, <3>1, <3>2, InHandIs
  <2> QED BY <2>1, <2>2, <2>3 DEF Counts
<1>5. CASE ReceiveRequest(c)
  <2>1. /\ hpc[c] = "recv" /\ hpc'[c] = "check" /\ toMaster[c] # <<>>
        /\ Head(toMaster[c]).type = "TASK_REQUEST" /\ count'[c] = count[c]
    BY <1>5 DEF TypeOK, ReceiveRequest, Arrived, Go, masterVars
  <2>2. toMaster[c] = <<TaskRequest>> /\ toClient[c] = <<>> /\ cpc[c] # "compute"
    BY <2>1, RecvShape, Wire, Types
  <2>3. InHand(c) = {}
    <3>1. Carried(toMaster[c]) = {} /\ Carried(toClient[c]) = {}
      BY <2>2, CarriedShapes
    <3> QED BY <2>1, <2>2, <3>1, InHandIs
  <2>4. ~EndOfStream(c)
    BY <2>1 DEF EndOfStream
  <2> QED BY <2>1, <2>3, <2>4 DEF Counts
<1>6. CASE FindNotStarted(c) \/ EnterWait(c) \/ SpuriousWake(c) \/ RefuseTask(c)
  <2>1. /\ hpc[c] \in {"check", "block", "wait"} /\ count'[c] = count[c]
        /\ hpc'[c] \in {"check", "block", "wait", "reply"}
        /\ htask'[c] = htask[c]
    BY <1>6 DEF TypeOK, FindNotStarted, EnterWait, SpuriousWake, RefuseTask, Go, masterVars,
       handVars
  <2>2. htask[c] = NoTask
    BY <2>1 DEF Hands
  <2> QED BY <2>1, <2>2 DEF Counts
<1>7. CASE ReplyTask(c)
  <2>1. /\ hpc[c] = "reply" /\ hpc'[c] = "recv" /\ htask[c] # NoTask
        /\ count'[c] = count[c] /\ cpc'[c] = cpc[c] /\ toMaster'[c] = toMaster[c]
    BY <1>7 DEF TypeOK, ReplyTask, Go, masterVars, clientVars
  <2>2. count[c] = 1
    BY <2>1 DEF Counts
  <2>3. CASE Gone(c)
    <3>1. EndOfStream(c)'
      BY <2>1, <2>3, ReplyShape DEF Asked, Silent, Gone, EndOfStream
    <3> QED BY <2>1, <2>2, <3>1 DEF Counts
  <2>4. CASE ~Gone(c)
    <3>1. InHand(c)' = InHand(c)
      <4>1. ~Crash(c) /\ ~GrantTask(c) /\ ~StoreTile(c)
        BY <2>1 DEF Crash, GrantTask, StoreTile, TypeOK, handVars
      <4> QED BY <1>7, <2>4, <4>1, InHandOwn
    <3>2. htask[c] \in InHand(c)
      BY <2>1 DEF InHand, Held
    <3> QED BY <2>1, <2>2, <3>1, <3>2 DEF Counts
  <2> QED BY <2>3, <2>4
<1>8. CASE ReplyNoWork(c) \/ ReplyShutdown(c)
  <2>1. /\ hpc[c] = "reply" /\ hpc'[c] \in {"recv", "close"} /\ htask[c] = NoTask
        /\ count'[c] = count[c] /\ cpc'[c] = cpc[c] /\ htask'[c] = NoTask
        /\ ctask'[c] = ctask[c]
    BY <1>8 DEF TypeOK, ReplyNoWork, ReplyShutdown, Go, masterVars, clientVars
  <2>2. count[c] = 0
    BY <2>1 DEF Counts
  <2>3. InHand(c)' \subseteq InHand(c)
    <3>1. ~GrantTask(c) /\ ~StoreTile(c)
      BY <2>1 DEF GrantTask, StoreTile
    <3> QED BY <3>1, InHandOwn
  <2>4. InHand(c) = {}
    <3>1. toMaster[c] = <<>> /\ toClient[c] = <<>> /\ cpc[c] # "compute"
      BY <2>1, ReplyShape DEF Asked, Silent
    <3>2. ctask[c] = NoTask
      BY <3>1 DEF Hands
    <3> QED BY <2>1, <3>1, <3>2, CarriedShapes DEF InHand, Held
  <2> QED BY <2>1, <2>2, <2>3, <2>4 DEF Counts
<1>9. CASE ReceiveResult(c)
  <2>1. /\ hpc[c] = "recv" /\ hpc'[c] = "perf" /\ toMaster[c] # <<>>
        /\ Head(toMaster[c]).type = "COMPUTATION_RESULT" /\ count'[c] = count[c]
    BY <1>9 DEF TypeOK, ReceiveResult, Arrived, Go, masterVars
  <2>2. toMaster[c] # <<TaskRequest>>
    BY <2>1, Wire, Types
  <2>3. \E t \in TaskIds : Carried(toMaster[c]) = {t}
    BY <2>1, <2>2, RecvShape, CarriedShapes
  <2>4. InHand(c) # {} /\ ~EndOfStream(c)
    BY <2>1, <2>3 DEF InHand, EndOfStream
  <2> QED BY <2>1, <2>4 DEF Counts
<1>10. CASE UpdateClientPerformance(c) \/ DecrementCount(c)
  <2>1. \/ hpc[c] = "perf" /\ hpc'[c] = "count" /\ count'[c] = count[c]
        \/ hpc[c] = "count" /\ hpc'[c] = "write" /\ count'[c] = count[c] - 1
    BY <1>10 DEF TypeOK, UpdateClientPerformance, DecrementCount, Go
  <2> QED BY <2>1 DEF Counts
<1>11. CASE CountCompletion(c)
  <2>1. /\ hpc[c] = "bump" /\ hpc'[c] = "recv" /\ count'[c] = count[c]
        /\ count[c] = 0
    BY <1>11 DEF TypeOK, CountCompletion, Go, Counts
  <2>2. InHand(c)' \subseteq InHand(c)
    <3>1. ~GrantTask(c) /\ ~StoreTile(c)
      BY <2>1 DEF GrantTask, StoreTile
    <3> QED BY <3>1, InHandOwn
  <2>3. InHand(c) = {}
    <3>1. /\ cpc[c] # "compute" /\ toClient[c] = <<>>
          /\ toMaster[c] = <<>> \/ toMaster[c] = <<TaskRequest>>
      BY <2>1 DEF Conn, Silent, BeforeRequest, RequestSent, Answered, Gone, Gathering,
         Asked, Over, Serving
    <3>2. Carried(toMaster[c]) = {} /\ Carried(toClient[c]) = {}
      BY <3>1, CarriedShapes
    <3> QED BY <2>1, <3>1, <3>2, InHandIs
  <2> QED BY <2>1, <2>2, <2>3 DEF Counts
<1>12. CASE SeeDisconnect(c) \/ HandlerExit(c)
  <2>1. hpc'[c] \in Over /\ count'[c] = count[c]
    BY <1>12 DEF TypeOK, SeeDisconnect, HandlerExit, Go, Over, masterVars
  <2> QED BY <2>1 DEF Counts, Over
<1>13. CASE Connect(c) \/ ClientStep(c) \/ Leave(c)
  <2>1. /\ hpc'[c] = hpc[c] /\ count'[c] = count[c] /\ htask'[c] = htask[c]
    BY <1>13 DEF Connect, ClientStep, Leave, SendCpuInfo, RequestTask, TakeTask,
       TakeNoWork, TakeShutdown, SendResult, masterVars, handVars
  <2>2. ~Gone(c)
    BY <1>13 DEF Connect, ClientStep, Leave, SendCpuInfo, RequestTask, TakeTask,
       TakeNoWork, TakeShutdown, SendResult, Gone
  <2>3. ~Crash(c) /\ ~GrantTask(c) /\ ~StoreTile(c) /\ ~(ReplyTask(c) /\ Gone(c))
    <3>1. cpc'[c] # "crashed"
      BY <1>13 DEF TypeOK, Connect, ClientStep, Leave, SendCpuInfo, RequestTask, TakeTask,
         TakeNoWork, TakeShutdown, SendResult, Step
    <3>2. ~GrantTask(c) /\ ~StoreTile(c)
      BY <2>1 DEF GrantTask, StoreTile, TypeOK, Go
    <3> QED BY <2>2, <3>1, <3>2 DEF Crash, Step, TypeOK
  <2>4. InHand(c)' = InHand(c)
    BY <2>3, InHandOwn
  <2>5. ~EndOfStream(c)
    BY <2>2 DEF EndOfStream
  <2> QED BY <2>1, <2>4, <2>5 DEF Counts
<1>14. CASE Crash(c)
  <2>1. /\ hpc'[c] = hpc[c] /\ count'[c] = count[c] /\ htask'[c] = htask[c]
        /\ cpc'[c] = "crashed" /\ ~Gone(c) /\ toClient'[c] = <<>> /\ ctask'[c] = NoTask
    BY <1>14 DEF TypeOK, Crash, Step, masterVars, handVars, Gone
  <2>2. SUFFICES ASSUME hpc[c] = "recv", ~EndOfStream(c)'
                 PROVE  InHand(c)' = InHand(c)
    BY <2>1 DEF Counts, EndOfStream
  <2>3. toMaster'[c] # <<>>
    BY <2>1, <2>2 DEF EndOfStream, Gone
  <2>4. PICK n \in 0 .. Len(toMaster[c]) : toMaster'[c] = SubSeq(toMaster[c], 1, n)
    BY <1>14 DEF TypeOK, Crash
  <2>5. toMaster[c] # <<>>
    BY <2>3, <2>4, Prefixes
  <2>6. /\ toClient[c] = <<>> /\ cpc[c] # "compute"
        /\ \/ toMaster[c] = <<TaskRequest>>
           \/ \E t \in TaskIds : \/ toMaster[c] = <<Answer(t)>>
                                \/ toMaster[c] = <<Answer(t), TaskRequest>>
    BY <2>2, <2>5, RecvShape
  <2>7. Carried(toMaster'[c]) = Carried(toMaster[c])
    <3>1. CASE toMaster[c] = <<TaskRequest>>
      <4>1. n \in 0 .. Len(<<TaskRequest>>)
            /\ toMaster'[c] = SubSeq(<<TaskRequest>>, 1, n)
        BY <2>4, <3>1
      <4>2. toMaster'[c] = <<TaskRequest>>
        BY <2>3, <4>1, CutOff, MessageTypes
      <4> QED BY <3>1, <4>2
    <3>2. CASE \E t \in TaskIds : toMaster[c] = <<Answer(t)>>
      <4>1. PICK t \in TaskIds : toMaster[c] = <<Answer(t)>>
        BY <3>2
      <4>2. n \in 0 .. Len(<<Answer(t)>>) /\ toMaster'[c] = SubSeq(<<Answer(t)>>, 1, n)
        BY <2>4, <4>1
      <4>3. toMaster'[c] = <<Answer(t)>>
        BY <2>3, <4>2, CutOff, MessageTypes
      <4> QED BY <4>1, <4>3
    <3>3. CASE \E t \in TaskIds : toMaster[c] = <<Answer(t), TaskRequest>>
      <4>1. PICK t \in TaskIds : toMaster[c] = <<Answer(t), TaskRequest>>
        BY <3>3
      <4>2. n \in 0 .. Len(<<Answer(t), TaskRequest>>)
            /\ toMaster'[c] = SubSeq(<<Answer(t), TaskRequest>>, 1, n)
        BY <2>4, <4>1
      <4>3. toMaster'[c] \in {<<Answer(t)>>, <<Answer(t), TaskRequest>>}
        BY <2>3, <4>2, CutOff, MessageTypes
      <4> QED BY <4>1, <4>3, CarriedShapes
    <3> QED BY <2>6, <3>1, <3>2, <3>3
  <2>8. Carried(toClient'[c]) = {} /\ Carried(toClient[c]) = {}
    BY <2>1, <2>6, CarriedShapes
  <2>9. ctask[c] = NoTask
    BY <2>6 DEF Hands
  <2> QED BY <2>1, <2>7, <2>8, <2>9 DEF InHand, Held
<1> QED BY <1>1, <1>2, <1>3, <1>4, <1>5, <1>6, <1>7, <1>8, <1>9, <1>10, <1>11, <1>12, <1>13, <1>14
    DEF Act, HandlerStep

-----------------------------------------------------------------------------
(* Counting the stored tiles.                                                *)

Bumping == {c \in Clients : hpc[c] = "bump"}

LEMMA TaskIdsFinite == IsFiniteSet(TaskIds) /\ Cardinality(TaskIds) = NumTasks
<1>1. NumTasks \in Nat
  BY DispatchAssumption
<1>2. IsFiniteSet(0 .. NumTasks - 1)
      /\ Cardinality(0 .. NumTasks - 1)
           = IF 0 <= NumTasks - 1 THEN (NumTasks - 1) - 0 + 1 ELSE 0
  BY <1>1, FS_Interval
<1> QED BY <1>1, <1>2 DEF TaskIds

LEMMA CountedSets ==
  ASSUME TypeOK
  PROVE  /\ IsFiniteSet(Bumping) /\ Cardinality(Bumping) \in Nat
         /\ IsFiniteSet(written) /\ Cardinality(written) \in Nat
         /\ Cardinality(written) <= NumTasks
<1>1. Bumping \subseteq Clients /\ IsFiniteSet(Clients)
  BY DispatchAssumption DEF Bumping
<1>2. written \subseteq TaskIds
  BY DEF TypeOK
<1> QED BY <1>1, <1>2, TaskIdsFinite, FS_Subset, FS_CardinalityType

LEMMA AllStored ==
  ASSUME TypeOK, CompletionCountsTiles, Progress, isComplete
  PROVE  written = TaskIds
<1>1. completed + Cardinality(Bumping) = Cardinality(written)
  BY DEF CompletionCountsTiles, Bumping
<1>2. completed >= NumTasks /\ completed \in Nat /\ NumTasks \in Nat
  BY DispatchAssumption DEF isComplete, Progress, TypeOK
<1>3. Cardinality(written) = Cardinality(TaskIds)
  BY <1>1, <1>2, CountedSets, TaskIdsFinite
<1>4. written \subseteq TaskIds
  BY DEF TypeOK
<1> QED BY <1>3, <1>4, TaskIdsFinite, FS_Subset

LEMMA CompletionAct ==
  ASSUME TypeOK, Connections, TaskPlacedOnce, CompletionCountsTiles,
         NEW c \in Clients, Act(c)
  PROVE  CompletionCountsTiles'
<1>1. completed + Cardinality(Bumping) = Cardinality(written)
  BY DEF CompletionCountsTiles, Bumping
<1>2. \A d \in Clients \ {c} : hpc'[d] = hpc[d]
  BY Others DEF Same
<1>3. Conn(c) /\ Hands(c)
  BY DEF Connections
<1>4. CASE StoreTile(c)
  <2>1. /\ htask[c] \in InHand(c) /\ written' = written \cup {htask[c]}
    BY <1>3, <1>4, StoreOwn
  <2>2. htask[c] \notin written
    BY <2>1 DEF TaskPlacedOnce
  <2>3. hpc[c] = "write" /\ hpc'[c] = "bump" /\ completed' = completed
    BY <1>4 DEF TypeOK, StoreTile, Go
  <2>4. Bumping' = Bumping \cup {c} /\ c \notin Bumping
    BY <1>2, <2>3 DEF Bumping
  <2>5. Cardinality(Bumping') = Cardinality(Bumping) + 1
    BY <2>4, CountedSets, FS_AddElement
  <2>6. Cardinality(written') = Cardinality(written) + 1
    BY <2>1, <2>2, CountedSets, FS_AddElement
  <2>7. completed' + Cardinality(Bumping') = Cardinality(written')
    BY <1>1, <2>3, <2>5, <2>6, CountedSets DEF TypeOK
  <2> QED BY <2>7 DEF CompletionCountsTiles, Bumping
<1>5. CASE CountCompletion(c)
  <2>1. /\ hpc[c] = "bump" /\ hpc'[c] = "recv" /\ completed' = completed + 1
        /\ written' = written
    BY <1>5 DEF TypeOK, CountCompletion, Go
  <2>2. Bumping' = Bumping \ {c} /\ c \in Bumping
    BY <1>2, <2>1 DEF Bumping
  <2>3. Cardinality(Bumping') = Cardinality(Bumping) - 1
    BY <2>2, CountedSets, FS_RemoveElement
  <2>4. completed \in Nat /\ Cardinality(Bumping) \in Nat /\ Cardinality(written) \in Nat
    BY CountedSets DEF TypeOK
  <2>5. Cardinality(written') = Cardinality(written)
    BY <2>1
  <2>6. completed' + Cardinality(Bumping') = Cardinality(written')
    BY <1>1, <2>1, <2>3, <2>4, <2>5
  <2> QED BY <2>6 DEF CompletionCountsTiles, Bumping
<1>6. CASE ~StoreTile(c) /\ ~CountCompletion(c)
  <2>1. /\ completed' = completed
        /\ hpc[c] = "bump" <=> hpc'[c] = "bump"
        /\ written' = written
    BY <1>6 DEF TypeOK, Act, HandlerStep, ClientStep, masterVars, handVars, Go, Accept,
       ReceiveInfo, MissInfo, InitCount, ReceiveRequest, FindNotStarted, EnterWait,
       GrantTask, RefuseTask, ReplyTask, ReplyShutdown, ReplyNoWork, ReceiveResult,
       UpdateClientPerformance, DecrementCount, SeeDisconnect, HandlerExit, SpuriousWake,
       Connect, SendCpuInfo, RequestTask, TakeTask, TakeNoWork, TakeShutdown, SendResult,
       Leave, Crash
  <2>2. \A d \in Clients : hpc'[d] = "bump" <=> hpc[d] = "bump"
    BY <1>2, <2>1
  <2>3. Bumping' = Bumping
    BY <2>2 DEF Bumping
  <2>4. Cardinality(Bumping') = Cardinality(Bumping) /\ Cardinality(written') = Cardinality(written)
    BY <2>1, <2>3
  <2> QED BY <1>1, <2>1, <2>4 DEF CompletionCountsTiles, Bumping
<1> QED BY <1>4, <1>5, <1>6

-----------------------------------------------------------------------------
(* The main thread's progress.                                               *)

LEMMA StoredAct ==
  ASSUME TypeOK, Connections, Stored, NEW c \in Clients, Act(c)
  PROVE  Stored'
<1>1. \A d \in Clients \ {c} : hpc'[d] = hpc[d] /\ htask'[d] = htask[d]
  BY Others DEF Same
<1>2. written \subseteq written'
  <2>1. CASE GrantTask(c)
    BY <2>1 DEF GrantTask
  <2>2. CASE StoreTile(c)
    BY <2>2 DEF StoreTile
  <2>3. CASE ~GrantTask(c) /\ ~StoreTile(c)
    BY <2>3, InHandOwn DEF Connections
  <2> QED BY <2>1, <2>2, <2>3
<1>3. hpc'[c] = "bump" => htask'[c] \in written'
  <2>1. CASE StoreTile(c)
    BY <2>1 DEF StoreTile, handVars
  <2>2. CASE ~StoreTile(c) /\ hpc'[c] = "bump"
    <3>1. hpc[c] = "bump" /\ htask'[c] = htask[c]
      BY <2>2 DEF TypeOK, Act, HandlerStep, ClientStep, handVars, Go, Accept,
         ReceiveInfo, MissInfo, InitCount, ReceiveRequest, FindNotStarted, EnterWait,
         GrantTask, RefuseTask, ReplyTask, ReplyShutdown, ReplyNoWork, ReceiveResult,
         UpdateClientPerformance, DecrementCount, CountCompletion, SeeDisconnect,
         HandlerExit, SpuriousWake, Connect, SendCpuInfo, RequestTask, TakeTask,
         TakeNoWork, TakeShutdown, SendResult, Leave, Crash
    <3> QED BY <1>2, <3>1 DEF Stored
  <2> QED BY <2>1, <2>2
<1> QED BY <1>1, <1>2, <1>3 DEF Stored

LEMMA ProgressAct ==
  ASSUME TypeOK, Connections, Progress, CompletionCountsTiles, NEW c \in Clients, Act(c)
  PROVE  Progress'
<1>1. mpc' = mpc /\ total' = total /\ started' = started /\ result' = result
  BY DEF Act, HandlerStep, ClientStep, mainVars, Accept, ReceiveInfo, MissInfo,
     InitCount, ReceiveRequest, FindNotStarted, EnterWait, GrantTask, RefuseTask,
     ReplyTask, ReplyShutdown, ReplyNoWork, ReceiveResult, UpdateClientPerformance,
     DecrementCount, StoreTile, CountCompletion, SeeDisconnect, HandlerExit, SpuriousWake,
     Connect, SendCpuInfo, RequestTask, TakeTask, TakeNoWork, TakeShutdown, SendResult,
     Leave, Crash
<1>2. \A d \in Clients \ {c} : Same(d) /\ InHand(d)' = InHand(d)
  BY Others, InHandSame
<1>3. Conn(c) /\ Hands(c)
  BY DEF Connections
<1>4. /\ \A d \in Clients : InHand(d)' # {} => started
      /\ written \subseteq written' /\ (written' # {} => started)
      /\ mpc = "setup" => queue' = <<>> /\ written' = {}
  <2>1. CASE GrantTask(c)
    BY <1>2, <1>3, <2>1, GrantOwn DEF GrantTask, Progress
  <2>2. CASE StoreTile(c)
    BY <1>2, <1>3, <2>2, StoreOwn DEF Progress
  <2>3. CASE ~GrantTask(c) /\ ~StoreTile(c)
    BY <1>2, <1>3, <2>3, InHandOwn DEF Progress
  <2> QED BY <2>1, <2>2, <2>3
<1>5. mpc = "setup" => completed' = 0
  <2>1. CASE CountCompletion(c)
    <3>1. c \in Bumping
      BY <2>1 DEF CountCompletion, Bumping
    <3>2. Cardinality(Bumping) # 0
      BY <3>1, CountedSets, FS_EmptySet
    <3>3. Cardinality(written) # 0
      BY <3>2, CountedSets DEF CompletionCountsTiles, Bumping, TypeOK
    <3>4. written # {}
      BY <3>3, FS_EmptySet
    <3> QED BY <3>4 DEF Progress
  <2>2. CASE ~CountCompletion(c)
    <3>1. completed' = completed
      BY <2>2 DEF Act, HandlerStep, ClientStep, masterVars, Accept, ReceiveInfo, MissInfo,
         InitCount, ReceiveRequest, FindNotStarted, EnterWait, GrantTask, RefuseTask,
         ReplyTask, ReplyShutdown, ReplyNoWork, ReceiveResult, UpdateClientPerformance,
         DecrementCount, StoreTile, SeeDisconnect, HandlerExit, SpuriousWake, Connect,
         SendCpuInfo, RequestTask, TakeTask, TakeNoWork, TakeShutdown, SendResult, Leave,
         Crash
    <3> QED BY <3>1 DEF Progress
  <2> QED BY <2>1, <2>2
<1>6. hpc'[c] \in Over => Gone(c)' \/ written' = TaskIds
  <2> SUFFICES ASSUME hpc'[c] \in Over PROVE Gone(c)' \/ written' = TaskIds
    OBVIOUS
  <2>1. Gone(c) => Gone(c)'
    BY DEF TypeOK, Gone, Act, HandlerStep, ClientStep, clientVars, Step, Accept,
       ReceiveInfo, MissInfo, InitCount, ReceiveRequest, FindNotStarted, EnterWait,
       GrantTask, RefuseTask, ReplyTask, ReplyShutdown, ReplyNoWork, ReceiveResult,
       UpdateClientPerformance, DecrementCount, StoreTile, CountCompletion, SeeDisconnect,
       HandlerExit, SpuriousWake, Connect, SendCpuInfo, RequestTask, TakeTask,
       TakeNoWork, TakeShutdown, SendResult, Leave, Crash
  <2>2. CASE ReplyShutdown(c)
    <3>1. written = TaskIds /\ written' = written
      BY <2>2, AllStored DEF ReplyShutdown, masterVars
    <3> QED BY <3>1
  <2>3. CASE SeeDisconnect(c)
    BY <2>1, <2>3 DEF SeeDisconnect, EndOfStream
  <2>4. CASE hpc[c] \in Over
    <3>1. Gone(c) \/ written = TaskIds
      BY <2>4 DEF Progress
    <3>2. written' \subseteq TaskIds
      BY <1>3, ActType DEF TypeOK
    <3> QED BY <1>4, <2>1, <3>1, <3>2
  <2>5. CASE ~ReplyShutdown(c) /\ ~SeeDisconnect(c) /\ hpc[c] \notin Over
    <3>1. hpc'[c] \notin Over
      BY <2>5 DEF TypeOK, Over, Act, HandlerStep, ClientStep, handVars, Go, Accept,
       ReceiveInfo, MissInfo, InitCount, ReceiveRequest, FindNotStarted, EnterWait,
       GrantTask, RefuseTask, ReplyTask, ReplyNoWork, ReceiveResult,
       UpdateClientPerformance, DecrementCount, StoreTile, CountCompletion,
       HandlerExit, SpuriousWake, Connect, SendCpuInfo, RequestTask, TakeTask,
       TakeNoWork, TakeShutdown, SendResult, Leave, Crash
    <3> QED BY <3>1
  <2> QED BY <2>2, <2>3, <2>4, <2>5
<1>7. \A d \in Clients \ {c} : hpc'[d] \in Over => Gone(d)' \/ written' = TaskIds
  <2>1. written' \subseteq TaskIds
    BY <1>3, ActType DEF TypeOK
  <2>2. \A d \in Clients \ {c} : hpc'[d] = hpc[d] /\ cpc'[d] = cpc[d]
    BY <1>2 DEF Same
  <2> QED BY <1>4, <2>1, <2>2 DEF Progress, Gone
<1>8. ~started => \A d \in Clients : hpc'[d] # "reply"
  <2>1. \A d \in Clients \ {c} : hpc'[d] = hpc[d]
    BY <1>2 DEF Same
  <2>2. ~started /\ hpc[c] # "reply" => hpc'[c] # "reply"
    BY DEF TypeOK, Act, HandlerStep, ClientStep, handVars, Go, Accept,
       ReceiveInfo, MissInfo, InitCount, ReceiveRequest, FindNotStarted, EnterWait,
       GrantTask, RefuseTask, ReplyTask, ReplyShutdown, ReplyNoWork, ReceiveResult,
       UpdateClientPerformance, DecrementCount, StoreTile, CountCompletion, SeeDisconnect,
       HandlerExit, SpuriousWake, Connect, SendCpuInfo, RequestTask, TakeTask,
       TakeNoWork, TakeShutdown, SendResult, Leave, Crash
  <2> QED BY <2>1, <2>2 DEF Progress
<1> QED BY <1>1, <1>4, <1>5, <1>6, <1>7, <1>8 DEF Progress

-----------------------------------------------------------------------------
(* The steps of the main thread and of the accept thread's Register.  Only   *)
(* NotifyAll touches a connection, and only moves its handler out of wait.   *)

Ready(d) == Conn(d) /\ Hands(d) /\ Counts(d)

LEMMA ReadySame ==
  ASSUME NEW d, Same(d), Ready(d)
  PROVE  Ready(d)'
<1>1. Conn(d)' /\ InHand(d)' = InHand(d)
  BY ConnSame, InHandSame DEF Ready
<1>2. Hands(d)'
  BY DEF Ready, Hands, Same
<1>3. EndOfStream(d)' <=> EndOfStream(d)
  BY DEF Same, EndOfStream, Gone
<1>4. Counts(d)'
  BY <1>1, <1>3 DEF Ready, Counts, Same
<1> QED BY <1>1, <1>2, <1>4 DEF Ready

LEMMA MainSame ==
  ASSUME TypeOK, MainAct, NEW d \in Clients
  PROVE  \/ Same(d)
         \/ /\ hpc[d] = "wait" /\ hpc'[d] = "check"
            /\ htask'[d] = htask[d] /\ count'[d] = count[d]
            /\ cpc'[d] = cpc[d] /\ ctask'[d] = ctask[d]
            /\ toMaster'[d] = toMaster[d] /\ toClient'[d] = toClient[d]
<1> USE DEF Same, mainVars, masterVars, acceptVars, handVars, clientVars, netVars
<1>1. CASE SetMatrices
  BY <1>1 DEF SetMatrices
<1>2. CASE CheckClients \/ RaiseFlag \/ GetResult
  BY <1>2 DEF CheckClients, RaiseFlag, GetResult
<1>3. CASE NotifyAll
  <2>1. hpc'[d] = IF hpc[d] = "wait" THEN "check" ELSE hpc[d]
    BY <1>3 DEF NotifyAll
  <2> QED BY <1>3, <2>1 DEF NotifyAll
<1>4. CASE Register
  BY <1>4 DEF Register
<1> QED BY <1>1, <1>2, <1>3, <1>4 DEF MainAct, MainStep

LEMMA ReadyMain ==
  ASSUME TypeOK, MainAct, NEW d \in Clients, Ready(d)
  PROVE  /\ Ready(d)' /\ InHand(d)' = InHand(d)
         /\ hpc'[d] \in {"bump", "reply"} \cup Over => hpc'[d] = hpc[d]
         /\ hpc[d] = "bump" => hpc'[d] = "bump"
         /\ cpc'[d] = cpc[d] /\ htask'[d] = htask[d]
<1>1. CASE Same(d)
  BY <1>1, ReadySame, InHandSame DEF Same
<1>2. CASE /\ hpc[d] = "wait" /\ hpc'[d] = "check"
           /\ htask'[d] = htask[d] /\ count'[d] = count[d]
           /\ cpc'[d] = cpc[d] /\ ctask'[d] = ctask[d]
           /\ toMaster'[d] = toMaster[d] /\ toClient'[d] = toClient[d]
  <2>1. Conn(d)'
    BY <1>2, ConnInternal DEF Ready, Asked
  <2>2. Hands(d)'
    BY <1>2 DEF Ready, Hands
  <2>3. Counts(d)'
    BY <1>2 DEF Ready, Counts
  <2>4. InHand(d)' = InHand(d)
    BY <1>2, InHandQuiet
  <2> QED BY <1>2, <2>1, <2>2, <2>3, <2>4 DEF Ready, Over
<1> QED BY <1>1, <1>2, MainSame

LEMMA PlacedMain ==
  ASSUME TypeOK, MainAct, TaskPlacedOnce, Progress, \A d \in Clients : Ready(d)
  PROVE  TaskPlacedOnce'
<1>1. \A d \in Clients : InHand(d)' = InHand(d)
  BY ReadyMain
<1>2. CASE SetMatrices
  <2>1. /\ mpc = "setup" /\ queue' = [i \in 1 .. NumTasks |-> i - 1] /\ written' = written
    BY <1>2 DEF SetMatrices
  <2>2. written' = {} /\ \A d \in Clients : InHand(d)' = {}
    BY <1>1, <2>1 DEF Progress
  <2>3. Len(queue') = NumTasks /\ NumTasks \in Nat
    BY <2>1, QueueCreated, DispatchAssumption
  <2>4. \A i, j \in 1 .. Len(queue') : queue'[i] = queue'[j] => i = j
    BY <2>1, <2>3
  <2> QED BY <2>2, <2>4 DEF TaskPlacedOnce
<1>3. CASE ~SetMatrices
  <2>1. queue' = queue /\ written' = written
    BY <1>3 DEF MainAct, MainStep, CheckClients, RaiseFlag, NotifyAll, GetResult, Register,
       masterVars
  <2> QED BY <1>1, <2>1 DEF TaskPlacedOnce, Queued
<1> QED BY <1>2, <1>3

LEMMA MainProgress ==
  ASSUME TypeOK, MainAct, Stored, Progress, CompletionCountsTiles,
         \A d \in Clients : Ready(d)
  PROVE  Stored' /\ Progress' /\ CompletionCountsTiles'
<1>1. written' = written
  BY DEF MainAct, MainStep, SetMatrices, CheckClients, RaiseFlag, NotifyAll, GetResult,
     Register, masterVars
<1>2. \A d \in Clients :
        /\ InHand(d)' = InHand(d)
        /\ hpc'[d] \in {"bump", "reply"} \cup Over => hpc'[d] = hpc[d]
        /\ hpc[d] = "bump" => hpc'[d] = "bump"
        /\ cpc'[d] = cpc[d] /\ htask'[d] = htask[d]
  BY ReadyMain
<1>3. Stored'
  BY <1>1, <1>2 DEF Stored
<1>4. completed' = completed
  BY DEF MainAct, MainStep, SetMatrices, CheckClients, RaiseFlag, NotifyAll, GetResult,
     Register, masterVars, Progress
<1>5. CompletionCountsTiles'
  <2>1. \A d \in Clients : hpc'[d] = "bump" <=> hpc[d] = "bump"
    BY <1>2
  <2>2. Bumping' = Bumping
    BY <2>1 DEF Bumping
  <2>3. /\ Cardinality(Bumping') = Cardinality(Bumping)
        /\ Cardinality(written') = Cardinality(written)
    BY <1>1, <2>2
  <2> QED BY <1>4, <2>3 DEF CompletionCountsTiles, Bumping
<1>6. /\ \A d \in Clients : hpc'[d] \in Over => Gone(d)' \/ written' = TaskIds
      /\ (\A d \in Clients : hpc[d] # "reply") => \A d \in Clients : hpc'[d] # "reply"
  BY <1>1, <1>2 DEF Progress, Gone
<1>7. /\ mpc' = "setup" => queue' = <<>> /\ total' = 0
      /\ mpc' # "setup" => total' = NumTasks
      /\ started' => mpc' \in {"notify", "polling", "got"}
      /\ started => started' 
      /\ mpc' = "got" => result' = TaskIds /\ started'
  <2>1. CASE SetMatrices
    BY <2>1 DEF SetMatrices, Progress
  <2>2. CASE CheckClients
    BY <2>2 DEF CheckClients, Progress, masterVars
  <2>3. CASE RaiseFlag
    BY <2>3 DEF RaiseFlag, Progress, masterVars
  <2>4. CASE NotifyAll
    BY <2>4 DEF NotifyAll, Progress, masterVars
  <2>5. CASE GetResult
    <3>1. isComplete /\ started /\ result' = written /\ mpc' = "got" /\ mpc = "polling"
          /\ started' = started /\ total' = total
      BY <2>5 DEF GetResult, isComplete
    <3>2. written = TaskIds
      BY <3>1, AllStored
    <3> QED BY <3>1, <3>2 DEF Progress
  <2>6. CASE Register
    BY <2>6 DEF Register, Progress, mainVars, masterVars
  <2> QED BY <2>1, <2>2, <2>3, <2>4, <2>5, <2>6 DEF MainAct, MainStep
<1>8. mpc' = "setup" => mpc = "setup"
  BY DEF MainAct, MainStep, SetMatrices, CheckClients, RaiseFlag, NotifyAll, GetResult,
     Register, mainVars
<1>9. Progress'
  BY <1>1, <1>2, <1>4, <1>6, <1>7, <1>8 DEF Progress
<1> QED BY <1>3, <1>5, <1>9

-----------------------------------------------------------------------------
(* IInv holds initially and every step keeps it.                             *)

LEMMA InitIInv == Init => IInv
<1> SUFFICES ASSUME Init PROVE IInv
  OBVIOUS
<1>1. TypeOK
  BY InitType
<1>2. ASSUME NEW c \in Clients
      PROVE  /\ hpc[c] = "none" /\ htask[c] = NoTask /\ cpc[c] = "out" /\ ctask[c] = NoTask
             /\ count[c] = 0 /\ toMaster[c] = <<>> /\ toClient[c] = <<>>
  BY DEF Init
<1>3. ASSUME NEW c \in Clients PROVE Conn(c) /\ Hands(c) /\ Counts(c) /\ InHand(c) = {}
  <2>1. InHand(c) = {}
    BY <1>2, CarriedBy DEF InHand, Held
  <2> QED BY <1>2, <2>1 DEF Conn, Silent, Hands, Counts
<1>4. queue = <<>> /\ written = {} /\ completed = 0 /\ mpc = "setup" /\ total = 0
      /\ ~started
  BY DEF Init
<1>5. TaskPlacedOnce
  BY <1>3, <1>4 DEF TaskPlacedOnce, Queued
<1>6. Stored /\ Progress
  BY <1>2, <1>3, <1>4 DEF Stored, Progress, Over
<1>7. Bumping = {}
  BY <1>2 DEF Bumping
<1>8. CompletionCountsTiles
  BY <1>4, <1>7, FS_EmptySet DEF CompletionCountsTiles, Bumping
<1> QED BY <1>1, <1>3, <1>5, <1>6, <1>8 DEF IInv

LEMMA NextIInv == IInv /\ [Next]_vars => IInv'
<1> SUFFICES ASSUME IInv, [Next]_vars PROVE IInv'
  OBVIOUS
<1>1. /\ TypeOK /\ TaskPlacedOnce /\ Stored /\ Progress /\ CompletionCountsTiles
      /\ Connections /\ \A d \in Clients : Ready(d)
  BY DEF IInv, Connections, Ready
<1>2. CASE MainAct
  <2>1. TypeOK' /\ TaskPlacedOnce'
    BY <1>1, <1>2, MainType, PlacedMain
  <2>2. Stored' /\ Progress' /\ CompletionCountsTiles'
    BY <1>1, <1>2, MainProgress
  <2>3. \A d \in Clients : Ready(d)'
    BY <1>1, <1>2, ReadyMain
  <2> QED BY <2>1, <2>2, <2>3 DEF IInv, Ready
<1>3. CASE \E c \in Clients : Act(c)
  <2>1. PICK c \in Clients : Act(c)
    BY <1>3
  <2>2. Conn(c) /\ Hands(c) /\ Counts(c)
    BY <1>1 DEF Ready
  <2>3. TypeOK'
    BY <1>1, <2>1, <2>2, ActType
  <2>4. TaskPlacedOnce' /\ Stored' /\ Progress'
    BY <1>1, <2>1, PlacedAct, StoredAct, ProgressAct
  <2>5. CompletionCountsTiles'
    BY <1>1, <2>1, CompletionAct
  <2>6. Conn(c)' /\ Hands(c)' /\ Counts(c)'
    BY <1>1, <2>1, <2>2, ConnOwn, HandsOwn, CountsOwn
  <2>7. \A d \in Clients \ {c} : Ready(d)'
    BY <1>1, <2>1, Others, ReadySame
  <2> QED BY <2>3, <2>4, <2>5, <2>6, <2>7 DEF IInv, Ready
<1>4. CASE UNCHANGED vars
  <2>1. \A d : Same(d)
    BY <1>4 DEF vars, masterVars, handVars, clientVars, netVars, Same
  <2>2. \A d \in Clients : Ready(d)' /\ InHand(d)' = InHand(d)
    BY <1>1, <2>1, ReadySame, InHandSame
  <2>3. TypeOK'
    BY <1>1, <1>4 DEF TypeOK, vars, mainVars, masterVars, acceptVars, handVars, clientVars,
       netVars
  <2>4. /\ mpc' = mpc /\ total' = total /\ started' = started /\ result' = result
        /\ queue' = queue /\ completed' = completed /\ written' = written
        /\ hpc' = hpc /\ htask' = htask /\ cpc' = cpc
    BY <1>4 DEF vars, mainVars, masterVars, handVars, clientVars
  <2>5. TaskPlacedOnce'
    BY <1>1, <2>2, <2>4 DEF TaskPlacedOnce, Queued
  <2>6. Stored' /\ Progress'
    BY <1>1, <2>2, <2>4 DEF Stored, Progress, Gone
  <2>7. CompletionCountsTiles'
    BY <1>1, <2>4 DEF CompletionCountsTiles
  <2> QED BY <2>2, <2>3, <2>5, <2>6, <2>7 DEF IInv, Ready
<1> QED BY <1>2, <1>3, <1>4, NextCases

-----------------------------------------------------------------------------
(* A task is lost with a client that crashed, and one with each.             *)

\* Nothing on the wire of c will make its handler serve a request.
NoRequestOn(c) == \/ toMaster[c] = <<>> \/ toMaster[c] = <<CpuInfo>>
                  \/ \E t \in TaskIds : toMaster[c] = <<Answer(t)>>

LEMMA NotSent ==
  ASSUME NEW c
  PROVE  /\ NoRequestOn(c) => ~RequestSent(c)
         /\ NoRequestOn(c)' => ~RequestSent(c)'
<1>1. /\ \A a, b : <<a, b>> # <<>> /\ \A d : <<a, b>> # <<d>>
      /\ <<TaskRequest>> # <<>>
  OBVIOUS
<1>2. <<TaskRequest>> # <<CpuInfo>> /\ \A t \in TaskIds : <<TaskRequest>> # <<Answer(t)>>
  BY Wire, Types
<1> QED BY <1>1, <1>2 DEF NoRequestOn, RequestSent

LEMMA GoneQuietShape ==
  ASSUME NEW c, Conn(c), Gone(c), ~WillAsk(c)
  PROVE  NoRequestOn(c) /\ toClient[c] = <<>>
BY DEF Conn, Gone, WillAsk, NoRequestOn, BeforeRequest, Silent

LEMMA BeforeQuiet ==
  ASSUME NEW c
  PROVE  /\ BeforeRequest(c) => NoRequestOn(c) /\ ~WillAsk(c)
         /\ BeforeRequest(c)' => ~WillAsk(c)'
<1>1. /\ BeforeRequest(c) => NoRequestOn(c) /\ hpc[c] \notin Asked
      /\ BeforeRequest(c)' => NoRequestOn(c)' /\ hpc'[c] \notin Asked
  BY DEF BeforeRequest, NoRequestOn, Gathering, Serving, Asked
<1> QED BY <1>1, NotSent DEF WillAsk

\* Once its client is gone only the handler of a connection moves.
LEMMA GoneStep ==
  ASSUME TypeOK, NEW c \in Clients, Gone(c), Act(c)
  PROVE  /\ cpc'[c] = cpc[c]
         /\ \/ toMaster'[c] = toMaster[c]
            \/ toMaster[c] # <<>> /\ toMaster'[c] = Tail(toMaster[c])
         /\ hpc'[c] \in Asked /\ hpc[c] \notin Asked
              => toMaster[c] # <<>> /\ Head(toMaster[c]).type = "TASK_REQUEST"
<1> USE DEF TypeOK, Gone, Go, Asked, clientVars, handVars, netVars
<1>1. HandlerStep(c) \/ SpuriousWake(c) \/ Accept(c)
  BY DEF Act, Connect, ClientStep, SendCpuInfo, RequestTask, TakeTask, TakeNoWork,
     TakeShutdown, SendResult, Leave, Crash
<1>2. CASE ReceiveInfo(c) \/ ReceiveRequest(c) \/ ReceiveResult(c)
  BY <1>2 DEF ReceiveInfo, ReceiveRequest, ReceiveResult, Arrived, Consume
<1>3. CASE MissInfo(c) \/ InitCount(c) \/ FindNotStarted(c) \/ EnterWait(c)
           \/ GrantTask(c) \/ RefuseTask(c) \/ SpuriousWake(c) \/ Accept(c)
  BY <1>3 DEF MissInfo, InitCount, FindNotStarted, EnterWait, GrantTask, RefuseTask,
     SpuriousWake, Accept
<1>4. CASE ReplyTask(c) \/ ReplyShutdown(c) \/ ReplyNoWork(c)
           \/ UpdateClientPerformance(c) \/ DecrementCount(c) \/ StoreTile(c)
           \/ CountCompletion(c) \/ SeeDisconnect(c) \/ HandlerExit(c)
  BY <1>4 DEF ReplyTask, ReplyShutdown, ReplyNoWork, UpdateClientPerformance,
     DecrementCount, StoreTile, CountCompletion, SeeDisconnect, HandlerExit
<1> QED BY <1>1, <1>2, <1>3, <1>4 DEF HandlerStep

LEMMA QuietStays ==
  ASSUME TypeOK, NEW c \in Clients, Conn(c), Gone(c), ~WillAsk(c), Act(c)
  PROVE  cpc'[c] = cpc[c] /\ ~WillAsk(c)'
<1>1. NoRequestOn(c)
  BY GoneQuietShape
<1>2. NoRequestOn(c)'
  <2>1. toMaster[c] # <<>> => Tail(toMaster[c]) = <<>>
    BY <1>1, Wire DEF NoRequestOn
  <2> QED BY <1>1, <2>1, GoneStep DEF NoRequestOn
<1>3. toMaster[c] # <<>> => Head(toMaster[c]).type # "TASK_REQUEST"
  BY <1>1, Wire, Types DEF NoRequestOn
<1>4. hpc'[c] \notin Asked
  BY <1>3, GoneStep DEF WillAsk
<1>5. ~RequestSent(c)'
  BY <1>2, NotSent
<1> QED BY <1>4, <1>5, GoneStep DEF WillAsk

\* A dying client's stream is cut: the request goes, or all of it arrives.
LEMMA CrashCut ==
  ASSUME TypeOK, NEW c \in Clients, Conn(c), Crash(c)
  PROVE  toMaster'[c] = toMaster[c] \/ NoRequestOn(c)'
<1>1. cpc[c] \in {"hello", "top", "await", "compute"}
  BY DEF Crash
<1>2. PICK n \in 0 .. Len(toMaster[c]) : toMaster'[c] = SubSeq(toMaster[c], 1, n)
  BY DEF TypeOK, Crash
<1>3. toMaster[c] = <<>> \/ BeforeRequest(c) \/ RequestSent(c)
  BY <1>1 DEF Conn, Gone, Silent, Answered
<1>4. ASSUME NEW a \in Messages, toMaster[c] = <<a>>
      PROVE  toMaster'[c] \in {<<>>, <<a>>}
  BY <1>2, <1>4, CutOff
<1>5. ASSUME NEW a \in Messages, NEW b \in Messages, toMaster[c] = <<a, b>>
      PROVE  toMaster'[c] \in {<<>>, <<a>>, <<a, b>>}
  <2>1. n \in 0 .. Len(<<a, b>>) /\ toMaster'[c] = SubSeq(<<a, b>>, 1, n)
    BY <1>2, <1>5
  <2> QED BY <2>1, CutOff
<1>6. CASE toMaster[c] = <<>>
  BY <1>2, <1>6, Prefixes
<1>7. CASE BeforeRequest(c)
  <2>1. PICK a \in Messages : toMaster[c] = <<>> \/ toMaster[c] = <<a>>
    BY <1>7, MessageTypes DEF BeforeRequest
  <2> QED BY <1>4, <1>6, <2>1 DEF NoRequestOn
<1>8. CASE RequestSent(c)
  <2>1. CASE toMaster[c] = <<CpuInfo, TaskRequest>>
    BY <1>5, <2>1, MessageTypes DEF NoRequestOn
  <2>2. CASE toMaster[c] = <<TaskRequest>>
    BY <1>4, <2>2, MessageTypes DEF NoRequestOn
  <2>3. CASE \E t \in TaskIds : toMaster[c] = <<Answer(t), TaskRequest>>
    <3>1. PICK t \in TaskIds : toMaster[c] = <<Answer(t), TaskRequest>>
      BY <2>3
    <3>2. toMaster'[c] \in {<<>>, <<Answer(t)>>, <<Answer(t), TaskRequest>>}
      BY <1>5, <3>1, MessageTypes
    <3> QED BY <3>1, <3>2 DEF NoRequestOn
  <2> QED BY <1>8, <2>1, <2>2, <2>3 DEF RequestSent
<1> QED BY <1>3, <1>6, <1>7, <1>8

\* A crash that leaves a request behind takes no task with it.
LEMMA CrashKeeps ==
  ASSUME TypeOK, NEW c \in Clients, Conn(c), Hands(c), Crash(c), WillAsk(c)'
  PROVE  InHand(c)' = InHand(c)
<1>1. /\ cpc[c] \in {"hello", "top", "await", "compute"}
      /\ toClient'[c] = <<>> /\ ctask'[c] = NoTask /\ hpc'[c] = hpc[c]
      /\ htask'[c] = htask[c]
  BY DEF TypeOK, Crash, handVars
<1>2. toMaster'[c] = toMaster[c] /\ toClient[c] = <<>> /\ cpc[c] # "compute"
  <2>1. CASE hpc[c] \in Asked
    <3>1. Silent(c) /\ cpc[c] = "await"
      BY <1>1, <2>1, ReplyShape
    <3>2. toMaster'[c] = <<>>
      <4>1. PICK n \in 0 .. Len(toMaster[c]) : toMaster'[c] = SubSeq(toMaster[c], 1, n)
        BY DEF TypeOK, Crash
      <4> QED BY <3>1, <4>1, Prefixes DEF Silent
    <3> QED BY <3>1, <3>2 DEF Silent
  <2>2. CASE RequestSent(c)'
    <3>1. toMaster'[c] = toMaster[c]
      BY <2>2, CrashCut, NotSent
    <3>2. RequestSent(c)
      BY <1>1, <2>2, <3>1 DEF RequestSent
    <3>3. ~NoRequestOn(c)
      BY <3>2, NotSent
    <3>4. toMaster[c] # <<>> /\ ~BeforeRequest(c)
      BY <3>3, BeforeQuiet DEF NoRequestOn
    <3>5. cpc[c] = "await" /\ toClient[c] = <<>>
      BY <1>1, <3>4 DEF Conn, Gone, Silent, Answered
    <3> QED BY <3>1, <3>5
  <2> QED BY <1>1, <2>1, <2>2 DEF WillAsk
<1>3. ctask[c] = NoTask
  BY <1>2 DEF Hands
<1> QED BY <1>1, <1>2, <1>3 DEF InHand, Held

\* A connection has one task at most.
LEMMA InHandOne ==
  ASSUME TypeOK, NEW c \in Clients, Conn(c), Hands(c)
  PROVE  \E t : InHand(c) \subseteq {t}
<1>1. InHand(c) = Held(c) \cup ({ctask[c]} \ {NoTask})
                  \cup Carried(toMaster[c]) \cup Carried(toClient[c])
  BY DEF InHand
<1>2. CASE hpc[c] \in {"perf", "count", "write", "bump", "reply"}
  <2>1. /\ cpc[c] # "compute"
        /\ toClient[c] = <<>>
        /\ toMaster[c] = <<>> \/ toMaster[c] = <<TaskRequest>>
    BY <1>2 DEF Conn, Silent, BeforeRequest, RequestSent, Answered, Gone, Gathering,
       Asked, Over, Serving
  <2>2. Carried(toMaster[c]) = {} /\ Carried(toClient[c]) = {} /\ ctask[c] = NoTask
    BY <2>1, CarriedShapes DEF Hands
  <2> QED BY <1>1, <2>2 DEF Held
<1>3. CASE hpc[c] \notin {"perf", "count", "write", "bump", "reply"}
  <2>1. Held(c) = {}
    BY <1>3 DEF Hands, Held
  <2>2. CASE cpc[c] = "compute"
    <3>1. toMaster[c] = <<>> /\ toClient[c] = <<>>
      BY <2>2 DEF Conn, Silent, Gone
    <3> QED BY <1>1, <2>1, <3>1, CarriedShapes
  <2>3. CASE cpc[c] # "compute"
    <3>1. ctask[c] = NoTask
      BY <2>3 DEF Hands
    <3>2. CASE toMaster[c] = <<>>
      <4>1. \/ toClient[c] \in {<<>>, <<NoWork>>, <<Shutdown>>}
            \/ \E t \in TaskIds : toClient[c] = <<Task(t)>>
        BY DEF Conn, Silent, Answered
      <4>2. \E t : Carried(toClient[c]) \subseteq {t}
        BY <4>1, CarriedShapes
      <4> QED BY <1>1, <2>1, <3>1, <3>2, <4>2, CarriedShapes
    <3>3. CASE toMaster[c] # <<>>
      <4>1. toClient[c] = <<>> /\ (BeforeRequest(c) \/ RequestSent(c))
        BY <3>3 DEF Conn, Silent, Answered
      <4>2. \/ toMaster[c] \in {<<CpuInfo>>, <<TaskRequest>>, <<CpuInfo, TaskRequest>>}
            \/ \E t \in TaskIds : \/ toMaster[c] = <<Answer(t)>>
                                 \/ toMaster[c] = <<Answer(t), TaskRequest>>
        BY <3>3, <4>1 DEF BeforeRequest, RequestSent
      <4>3. \E t : Carried(toMaster[c]) \subseteq {t}
        BY <4>2, CarriedShapes
      <4> QED BY <1>1, <2>1, <3>1, <4>1, <4>3, CarriedShapes
    <3> QED BY <3>2, <3>3
  <2> QED BY <2>2, <2>3
<1> QED BY <1>2, <1>3

\* Only what leaves the hands of the connection that moves can get lost.
LEMMA LostFrom ==
  ASSUME TypeOK, Connections, TaskPlacedOnce, NEW c \in Clients, Act(c)
  PROVE  Missing' \subseteq Missing \cup (InHand(c) \ InHand(c)')
<1>1. \A d \in Clients \ {c} : InHand(d)' = InHand(d)
  BY Others, InHandSame
<1>2. Conn(c) /\ Hands(c)
  BY DEF Connections
<1>3. Created' = Created
  BY DEF Created, Act, HandlerStep, ClientStep, mainVars, Accept, ReceiveInfo, MissInfo,
     InitCount, ReceiveRequest, FindNotStarted, EnterWait, GrantTask, RefuseTask,
     ReplyTask, ReplyShutdown, ReplyNoWork, ReceiveResult, UpdateClientPerformance,
     DecrementCount, StoreTile, CountCompletion, SeeDisconnect, HandlerExit,
     SpuriousWake, Connect, SendCpuInfo, RequestTask, TakeTask, TakeNoWork,
     TakeShutdown, SendResult, Leave, Crash
<1>4. Queued \cup written \subseteq Queued' \cup written' \cup InHand(c)'
  <2>1. CASE GrantTask(c)
    <3>1. /\ InHand(c)' = {Head(queue)} /\ queue # <<>>
          /\ queue' = Tail(queue) /\ written' = written
      BY <1>2, <2>1, GrantOwn
    <3>2. queue \in Seq(TaskIds) /\ Distinct(queue)
      BY DEF TypeOK, TaskPlacedOnce, Distinct
    <3>3. Elements(queue') = Elements(queue) \ {Head(queue)}
      BY <3>1, <3>2, Pop
    <3>4. Queued = Elements(queue) /\ Queued' = Elements(queue')
      BY DEF Queued, Elements
    <3> QED BY <3>1, <3>3, <3>4
  <2>2. CASE StoreTile(c)
    BY <1>2, <2>2, StoreOwn DEF Queued
  <2>3. CASE ~GrantTask(c) /\ ~StoreTile(c)
    BY <1>2, <2>3, InHandOwn DEF Queued
  <2> QED BY <2>1, <2>2, <2>3
<1>5. CASE StoreTile(c)
  <2>1. /\ InHand(c) = {htask[c]} /\ written' = written \cup {htask[c]}
    BY <1>2, <1>5, StoreOwn
  <2>2. InHand(c) \subseteq written'
    BY <2>1
  <2> QED BY <1>1, <1>3, <1>4, <2>2 DEF Missing
<1>6. CASE ~StoreTile(c)
  BY <1>1, <1>3, <1>4 DEF Missing
<1> QED BY <1>5, <1>6

LEMMA FiniteClients ==
  /\ IsFiniteSet(Missing) /\ IsFiniteSet(Missing')
  /\ IsFiniteSet(Crashed) /\ IsFiniteSet(Spent) /\ IsFiniteSet(Spent')
<1>1. Missing \subseteq TaskIds /\ Missing' \subseteq TaskIds
  BY DEF Missing, Created
<1>2. Crashed \subseteq Clients /\ Spent \subseteq Clients /\ Spent' \subseteq Clients
  BY DEF Crashed, Spent
<1> QED BY <1>1, <1>2, TaskIdsFinite, FS_Subset, DispatchAssumption

\* At most one task more is lost, and only if one client more is spent.
LEMMA OneMore ==
  ASSUME OneLossEach, Spent \subseteq Spent',
         \/ Missing' \subseteq Missing
         \/ \E t : Missing' \subseteq Missing \cup {t} /\ Spent' # Spent
  PROVE  OneLossEach'
<1>1. /\ IsFiniteSet(Missing) /\ IsFiniteSet(Missing')
      /\ IsFiniteSet(Spent) /\ IsFiniteSet(Spent')
  BY FiniteClients
<1>2. /\ Cardinality(Missing) \in Nat /\ Cardinality(Missing') \in Nat
      /\ Cardinality(Spent) \in Nat /\ Cardinality(Spent') \in Nat
      /\ Cardinality(Spent) <= Cardinality(Spent')
  BY <1>1, FS_CardinalityType, FS_Subset
<1>3. CASE Missing' \subseteq Missing
  <2>1. Cardinality(Missing') <= Cardinality(Missing)
    BY <1>1, <1>3, FS_Subset
  <2> QED BY <1>2, <2>1 DEF OneLossEach
<1>4. CASE \E t : Missing' \subseteq Missing \cup {t} /\ Spent' # Spent
  <2>1. PICK t : Missing' \subseteq Missing \cup {t} /\ Spent' # Spent
    BY <1>4
  <2>2. /\ IsFiniteSet(Missing \cup {t})
        /\ Cardinality(Missing \cup {t}) <= Cardinality(Missing) + 1
    BY <1>1, <1>2, FS_AddElement
  <2>3. Cardinality(Missing') <= Cardinality(Missing) + 1
    <3>1. Cardinality(Missing') <= Cardinality(Missing \cup {t})
      BY <2>1, <2>2, FS_Subset
    <3>2. Cardinality(Missing \cup {t}) \in Nat
      BY <2>2, FS_CardinalityType
    <3> QED BY <1>2, <2>2, <3>1, <3>2
  <2>4. Cardinality(Spent) # Cardinality(Spent')
    BY <1>1, <2>1, FS_Subset
  <2> QED BY <1>2, <2>3, <2>4 DEF OneLossEach
<1> QED BY <1>3, <1>4

LEMMA LossAct ==
  ASSUME TypeOK, Connections, TaskPlacedOnce, LossInv, NEW c \in Clients, Act(c)
  PROVE  LossInv'
<1>1. Conn(c) /\ Hands(c)
  BY DEF Connections
<1>2. \A d \in Clients \ {c} : cpc'[d] = cpc[d] /\ (WillAsk(d)' <=> WillAsk(d))
  BY Others DEF Same, WillAsk, RequestSent
<1>3. Gone(c) /\ ~WillAsk(c) => cpc'[c] = cpc[c] /\ ~WillAsk(c)'
  BY <1>1, QuietStays
<1>4. LeftQuietly'
  <2>1. ASSUME cpc'[c] = "closed" PROVE ~WillAsk(c)'
    <3>1. CASE Gone(c)
      <4>1. cpc[c] = "closed"
        BY <2>1, <3>1, GoneStep
      <4> QED BY <1>3, <3>1, <4>1 DEF LossInv, LeftQuietly
    <3>2. CASE ~Gone(c)
      <4>1. Leave(c)
        BY <2>1, <3>2 DEF TypeOK, Gone, Act, HandlerStep, ClientStep, clientVars, Step,
           Accept, ReceiveInfo, MissInfo, InitCount, ReceiveRequest, FindNotStarted,
           EnterWait, GrantTask, RefuseTask, ReplyTask, ReplyShutdown, ReplyNoWork,
           ReceiveResult, UpdateClientPerformance, DecrementCount, StoreTile,
           CountCompletion, SeeDisconnect, HandlerExit, SpuriousWake, Connect,
           SendCpuInfo, RequestTask, TakeTask, TakeNoWork, TakeShutdown, SendResult, Crash
      <4>2. BeforeRequest(c)'
        <5>1. cpc[c] = "top" /\ hpc'[c] = hpc[c] /\ toMaster'[c] = toMaster[c]
          BY <4>1 DEF Leave, handVars, netVars
        <5> QED BY <1>1, <5>1, TopShape DEF BeforeRequest
      <4> QED BY <4>2, BeforeQuiet
    <3> QED BY <3>1, <3>2
  <2> QED BY <1>2, <2>1 DEF LossInv, LeftQuietly
<1>5. Spent \subseteq Spent'
  BY <1>2, <1>3 DEF Spent, Crashed, Gone
<1>6. Missing' \subseteq Missing \cup (InHand(c) \ InHand(c)')
  BY LostFrom
<1>7. PICK t : InHand(c) \subseteq {t}
  BY <1>1, InHandOne
<1>8. CASE GrantTask(c) \/ StoreTile(c)
  <2>1. Missing' \subseteq Missing
    <3>1. CASE GrantTask(c)
      BY <1>1, <1>6, <3>1, GrantOwn
    <3>2. CASE StoreTile(c)
      <4>1. InHand(c) \subseteq written'
        BY <1>1, <3>2, StoreOwn
      <4> QED BY <1>6, <4>1 DEF Missing
    <3> QED BY <1>8, <3>1, <3>2
  <2> QED BY <1>4, <1>5, <2>1, OneMore DEF LossInv
<1>9. CASE ReplyTask(c) /\ Gone(c)
  <2>1. /\ hpc[c] = "reply" /\ hpc'[c] = "recv" /\ toMaster'[c] = toMaster[c]
        /\ cpc'[c] = cpc[c]
    BY <1>9 DEF TypeOK, ReplyTask, Go, clientVars
  <2>2. WillAsk(c) /\ toMaster[c] = <<>>
    BY <1>1, <2>1, ReplyShape DEF WillAsk, Asked, Silent
  <2>3. cpc[c] = "crashed"
    BY <1>9, <2>2 DEF Gone, LossInv, LeftQuietly
  <2>4. ~WillAsk(c)'
    <3>1. NoRequestOn(c)'
      BY <2>1, <2>2 DEF NoRequestOn
    <3> QED BY <2>1, <3>1, NotSent DEF WillAsk, Asked
  <2>5. c \in Spent' /\ c \notin Spent
    BY <2>1, <2>2, <2>3, <2>4 DEF Spent, Crashed
  <2>6. Missing' \subseteq Missing \cup {t} /\ Spent' # Spent
    BY <1>6, <1>7, <2>5
  <2> QED BY <1>4, <1>5, <2>6, OneMore DEF LossInv
<1>10. CASE Crash(c)
  <2>1. cpc[c] # "crashed" /\ cpc'[c] = "crashed"
    BY <1>10 DEF TypeOK, Crash, Step
  <2>2. CASE WillAsk(c)'
    <3>1. Missing' \subseteq Missing
      BY <1>1, <1>6, <1>10, <2>2, CrashKeeps
    <3> QED BY <1>4, <1>5, <3>1, OneMore DEF LossInv
  <2>3. CASE ~WillAsk(c)'
    <3>1. c \in Spent' /\ c \notin Spent
      BY <2>1, <2>3 DEF Spent, Crashed
    <3>2. Missing' \subseteq Missing \cup {t} /\ Spent' # Spent
      BY <1>6, <1>7, <3>1
    <3> QED BY <1>4, <1>5, <3>2, OneMore DEF LossInv
  <2> QED BY <2>2, <2>3
<1>11. CASE ~(GrantTask(c) \/ StoreTile(c)) /\ ~(ReplyTask(c) /\ Gone(c)) /\ ~Crash(c)
  <2>1. InHand(c)' = InHand(c)
    BY <1>1, <1>11, InHandOwn
  <2>2. Missing' \subseteq Missing
    BY <1>6, <2>1
  <2> QED BY <1>4, <1>5, <2>2, OneMore DEF LossInv
<1> QED BY <1>8, <1>9, <1>10, <1>11

LEMMA LossMain ==
  ASSUME TypeOK, MainAct, Progress, LossInv, \A d \in Clients : Ready(d)
  PROVE  LossInv'
<1>1. \A d \in Clients : /\ InHand(d)' = InHand(d) /\ cpc'[d] = cpc[d]
                         /\ WillAsk(d)' <=> WillAsk(d)
  BY ReadyMain, MainSame DEF WillAsk, RequestSent, Asked, Same
<1>2. Spent' = Spent /\ LeftQuietly'
  BY <1>1 DEF Spent, Crashed, LossInv, LeftQuietly
<1>3. Missing' \subseteq Missing
  <2>1. CASE SetMatrices
    <3>1. queue' = [i \in 1 .. NumTasks |-> i - 1]
      BY <2>1 DEF SetMatrices
    <3>2. Len(queue') = NumTasks /\ NumTasks \in Nat
      BY <3>1, QueueCreated, DispatchAssumption
    <3>3. TaskIds \subseteq Queued'
      <4>1. ASSUME NEW t \in TaskIds PROVE t \in Queued'
        <5>1. t + 1 \in 1 .. NumTasks /\ (t + 1) - 1 = t
          BY <3>2 DEF TaskIds
        <5>2. queue'[t + 1] = t
          BY <3>1, <5>1
        <5> QED BY <3>2, <5>1, <5>2 DEF Queued
      <4> QED BY <4>1
    <3> QED BY <3>3 DEF Missing, Created
  <2>2. CASE ~SetMatrices
    <3>1. queue' = queue /\ written' = written /\ (mpc' = "setup" <=> mpc = "setup")
      BY <2>2 DEF MainAct, MainStep, CheckClients, RaiseFlag, NotifyAll, GetResult,
         Register, masterVars, mainVars
    <3> QED BY <1>1, <3>1 DEF Missing, Created, Queued
  <2> QED BY <2>1, <2>2
<1>4. OneLossEach'
  BY <1>2, <1>3, OneMore DEF LossInv
<1> QED BY <1>2, <1>4 DEF LossInv

LEMMA InitLoss == Init => LossInv
<1> SUFFICES ASSUME Init PROVE LossInv
  OBVIOUS
<1>1. Missing = {} /\ Spent = {} /\ LeftQuietly
  BY DEF Init, Missing, Created, Spent, Crashed, LeftQuietly
<1> QED BY <1>1, FS_EmptySet DEF LossInv, OneLossEach

LEMMA NextLoss == IInv /\ LossInv /\ [Next]_vars => LossInv'
<1> SUFFICES ASSUME IInv, LossInv, [Next]_vars PROVE LossInv'
  OBVIOUS
<1>1. /\ TypeOK /\ TaskPlacedOnce /\ Progress
      /\ Connections /\ \A d \in Clients : Ready(d)
  BY DEF IInv, Connections, Ready
<1>2. CASE MainAct
  BY <1>1, <1>2, LossMain
<1>3. CASE \E c \in Clients : Act(c)
  BY <1>1, <1>3, LossAct
<1>4. CASE UNCHANGED vars
  <2>1. \A d : Same(d)
    BY <1>4 DEF vars, masterVars, handVars, clientVars, netVars, Same
  <2>2. \A d \in Clients : InHand(d)' = InHand(d) /\ (WillAsk(d)' <=> WillAsk(d))
    BY <2>1, InHandSame DEF Same, WillAsk, RequestSent
  <2>3. mpc' = mpc /\ queue' = queue /\ written' = written /\ cpc' = cpc
    BY <1>4 DEF vars, mainVars, masterVars, clientVars
  <2>4. Missing' = Missing /\ Spent' = Spent /\ LeftQuietly'
    BY <2>2, <2>3 DEF Missing, Created, Queued, Spent, Crashed, LossInv, LeftQuietly
  <2>5. OneLossEach'
    BY <2>4, OneMore DEF LossInv
  <2> QED BY <2>4, <2>5 DEF LossInv
<1> QED BY <1>2, <1>3, <1>4, NextCases

-----------------------------------------------------------------------------
(* The theorems.                                                             *)

\* Whatever the number of clients and tasks, the connections, the counts and
\* the places of the tasks stay as IInv says: the handlers of master.cpp and the
\* workers of client.cpp take turns on every connection.
THEOREM Invariance == Spec => []IInv
<1>1. Init => IInv
  BY InitIInv
<1>2. IInv /\ [Next]_vars => IInv'
  BY NextIInv
<1> QED BY <1>1, <1>2, PTL DEF Spec

\* Every variable keeps its type; in particular no task is sent or received
\* that setMatrices did not create, and completedTasks_ is never negative.
THEOREM TypeCorrect == Spec => []TypeOK
<1>1. IInv => TypeOK
  BY DEF IInv
<1> QED BY <1>1, Invariance, PTL

\* No task is ever with two clients, or queued and stored: the handlers that
\* write resultMatrix_ without a lock (master.cpp:424) write different tiles.
THEOREM NoTileShared == Spec => []TaskPlacedOnce
<1>1. IInv => TaskPlacedOnce
  BY DEF IInv
<1> QED BY <1>1, Invariance, PTL

\* completedTasks_ is the number of stored tiles, less those being counted.
THEOREM CompletionExact == Spec => []CompletionCountsTiles
<1>1. IInv => CompletionCountsTiles
  BY DEF IInv
<1> QED BY <1>1, Invariance, PTL

\* When isComplete answers true (master.cpp:166) all tiles are stored, nobody is
\* still writing one, and the matrix getResult copies without a lock is whole.
THEOREM ResultIsComplete == Spec => []ResultComplete
<1>1. IInv => ResultComplete
  <2> SUFFICES ASSUME IInv PROVE ResultComplete
    OBVIOUS
  <2>1. mpc = "got" => result = TaskIds
    BY DEF IInv, Progress
  <2>2. ASSUME isComplete, NEW c \in Clients, hpc[c] = "write" PROVE FALSE
    <3>1. written = TaskIds
      BY <2>2, AllStored DEF IInv
    <3>2. htask[c] \in TaskIds /\ htask[c] \in InHand(c)
      BY <2>2 DEF IInv, Hands, TypeOK, InHand, Held
    <3> QED BY <3>1, <3>2 DEF IInv, TaskPlacedOnce
  <2> QED BY <2>1, <2>2 DEF ResultComplete
<1> QED BY <1>1, Invariance, PTL

\* SHUTDOWN is sent (master.cpp:341) only when no client has a tile to deliver.
THEOREM ShutdownIsLast == Spec => []ShutdownOnlyWhenDone
<1>1. IInv => ShutdownOnlyWhenDone
  <2> SUFFICES ASSUME IInv, NEW c \in Clients,
                      \/ cpc[c] = "stopped"
                      \/ \E i \in 1 .. Len(toClient[c]) : toClient[c][i] = Shutdown
               PROVE  written = TaskIds
    BY DEF ShutdownOnlyWhenDone
  <2>1. Conn(c) /\ Progress
    BY DEF IInv
  <2>2. CASE cpc[c] = "stopped"
    <3>1. hpc[c] \in Over /\ ~Gone(c)
      BY <2>1, <2>2 DEF Conn, Gone
    <3> QED BY <2>1, <3>1 DEF Progress
  <2>3. CASE \E i \in 1 .. Len(toClient[c]) : toClient[c][i] = Shutdown
    <3>1. toClient[c] # <<>>
      BY <2>3
    <3>2. cpc[c] = "await" /\ Answered(c)
      BY <2>1, <3>1 DEF Conn, Silent
    <3>3. ~(\E t \in TaskIds : toClient[c] = <<Task(t)>>) /\ toClient[c] # <<NoWork>>
      <4>1. \A t : Task(t) # Shutdown
        BY Types
      <4>2. NoWork # Shutdown
        BY Types
      <4> QED BY <2>3, <4>1, <4>2
    <3>4. hpc[c] \in Over /\ ~Gone(c)
      BY <3>2, <3>3 DEF Answered, Gone
    <3> QED BY <2>1, <3>4 DEF Progress
  <2> QED BY <2>2, <2>3
<1> QED BY <1>1, Invariance, PTL

LEMMA NeverOutweighs ==
  ASSUME IInv, NEW c \in Clients, hpc[c] = "check", queue # <<>>
  PROVE  Grantable(c)
<1>1. ASSUME NEW d \in counted
      PROVE  ~WeighsMore(count[c], OwnRatio(c), count[d], OtherRatio(d))
  <2>1. d \in Clients /\ Counts(c) /\ Counts(d) /\ TypeOK
    BY DEF IInv, TypeOK
  <2>2. count[c] = 0 /\ count[d] \in {0, 1}
    BY <2>1 DEF Counts
  <2>3. perf[c] \in Speeds \cup {0, NoEntry} /\ perf[d] \in Speeds \cup {0, NoEntry}
    BY <2>1 DEF TypeOK
  <2>4. OwnRatio(c) \in Nat /\ OtherRatio(d) \in Nat
    <3>1. \A s \in Speeds \cup {0, NoEntry} : s # NoEntry => s \in Nat
      BY DispatchAssumption
    <3>2. /\ perf[c] # NoEntry => perf[c] \in Nat
          /\ perf[d] # NoEntry => perf[d] \in Nat
      BY <2>3, <3>1
    <3> QED BY <3>2 DEF OwnRatio, OtherRatio
  <2>5. ~(count[c] * OtherRatio(d) > count[d] * OwnRatio(c))
    <3>1. count[c] * OtherRatio(d) = 0
      BY <2>2, <2>4
    <3>2. CASE count[d] = 0
      BY <2>4, <3>1, <3>2
    <3>3. CASE count[d] = 1
      BY <2>4, <3>1, <3>3
    <3> QED BY <2>2, <3>2, <3>3
  <2> QED BY <2>5 DEF WeighsMore
<1> QED BY <1>1 DEF Grantable, ShouldAssign

\* A request that meets a queued task gets it (master.cpp:284-327): the load
\* balancing refuses nobody, since a client that asks has no task left to weigh.
THEOREM NoRefusal == Spec => QueuedTaskIsGranted
<1>1. ASSUME IInv, Next, NEW c \in Clients,
             hpc[c] = "check", hpc'[c] = "reply", queue # <<>>
      PROVE  htask'[c] = Head(queue)
  <2>1. TypeOK /\ Grantable(c)
    BY <1>1, NeverOutweighs DEF IInv
  <2>2. ~MainAct
    BY <1>1, <2>1, MainSame DEF Same
  <2>3. PICK d \in Clients : Act(d)
    BY <1>1, <2>2, NextCases
  <2>4. d = c
    BY <1>1, <2>1, <2>3, Others DEF Same
  <2>5. GrantTask(c) \/ RefuseTask(c)
    BY <1>1, <2>1, <2>3, <2>4 DEF TypeOK, Act, HandlerStep, ClientStep, handVars, Go,
       Accept, ReceiveInfo, MissInfo, InitCount, ReceiveRequest, FindNotStarted, EnterWait,
       ReplyTask, ReplyShutdown, ReplyNoWork, ReceiveResult, UpdateClientPerformance,
       DecrementCount, StoreTile, CountCompletion, SeeDisconnect, HandlerExit,
       SpuriousWake, Connect, SendCpuInfo, RequestTask, TakeTask, TakeNoWork,
       TakeShutdown, SendResult, Leave, Crash
  <2>6. ~RefuseTask(c)
    BY <2>1 DEF RefuseTask
  <2> QED BY <2>1, <2>5, <2>6 DEF GrantTask, TypeOK
<1>2. IInv /\ [Next]_vars
        => [\A c \in Clients :
              hpc[c] = "check" /\ hpc'[c] = "reply" /\ queue # <<>>
                => htask'[c] = Head(queue)]_vars
  BY <1>1
<1> QED BY <1>2, Invariance, PTL DEF Spec, QueuedTaskIsGranted

\* processResult (master.cpp:420) stores each tile once, and a stored tile is
\* never taken back.
THEOREM StoredOnce == Spec => TileStoredOnce
<1>1. ASSUME IInv, Next
      PROVE  /\ written \subseteq written'
             /\ \A c \in Clients : hpc[c] = "write" /\ hpc'[c] = "bump"
                                    => htask[c] \notin written
  <2>1. /\ TypeOK /\ TaskPlacedOnce /\ \A c \in Clients : Conn(c) /\ Hands(c)
    BY <1>1 DEF IInv
  <2>2. CASE MainAct
    <3>1. written' = written
      BY <2>2 DEF MainAct, MainStep, SetMatrices, CheckClients, RaiseFlag, NotifyAll,
         GetResult, Register, masterVars
    <3>2. \A c \in Clients : hpc[c] = "write" => hpc'[c] # "bump"
      BY <2>1, <2>2, MainSame DEF Same
    <3> QED BY <3>1, <3>2
  <2>3. CASE \E d \in Clients : Act(d)
    <3>1. PICK d \in Clients : Act(d)
      BY <2>3
    <3>2. \A c \in Clients \ {d} : hpc'[c] = hpc[c]
      BY <2>1, <3>1, Others DEF Same
    <3>3. CASE StoreTile(d)
      BY <2>1, <3>2, <3>3, StoreOwn DEF TaskPlacedOnce
    <3>4. CASE GrantTask(d)
      BY <2>1, <3>2, <3>4 DEF GrantTask
    <3>5. CASE ~StoreTile(d) /\ ~GrantTask(d)
      <4>1. written' = written
        BY <2>1, <3>1, <3>5, InHandOwn
      <4>2. hpc[d] = "write" => hpc'[d] # "bump"
        BY <2>1, <3>1, <3>5 DEF TypeOK, Act, HandlerStep, ClientStep, handVars, Go,
           Accept, ReceiveInfo, MissInfo, InitCount, ReceiveRequest, FindNotStarted,
           EnterWait, RefuseTask, ReplyTask, ReplyShutdown, ReplyNoWork, ReceiveResult,
           UpdateClientPerformance, DecrementCount, CountCompletion, SeeDisconnect,
           HandlerExit, SpuriousWake, Connect, SendCpuInfo, RequestTask, TakeTask,
           TakeNoWork, TakeShutdown, SendResult, Leave, Crash
      <4> QED BY <3>2, <4>1, <4>2
    <3> QED BY <3>3, <3>4, <3>5
  <2> QED BY <1>1, <2>2, <2>3, NextCases
<1>2. IInv /\ [Next]_vars
        => [/\ written \subseteq written'
            /\ \A c \in Clients : hpc[c] = "write" /\ hpc'[c] = "bump"
                                   => htask[c] \notin written]_vars
  BY <1>1
<1> QED BY <1>2, Invariance, PTL DEF Spec, TileStoredOnce

\* A task is lost only with a client that crashed, at most one with each: a
\* client that is stopped (client.cpp:92) delivers what it holds, and a task the
\* master sends to a closed socket (master.cpp:335) had been asked for by a
\* client that died afterwards.
THEOREM LossOnlyByCrash == Spec => []LossNeedsCrash
<1>1. Spec => []LossInv
  BY InitLoss, NextLoss, Invariance, PTL DEF Spec
<1>2. LossInv => LossNeedsCrash
  <2> SUFFICES ASSUME LossInv PROVE LossNeedsCrash
    OBVIOUS
  <2>1. Cardinality(Spent) <= Cardinality(Crashed)
    BY FiniteClients, FS_Subset DEF Spent
  <2>2. /\ Cardinality(Missing) \in Nat /\ Cardinality(Spent) \in Nat
        /\ Cardinality(Crashed) \in Nat
    BY FiniteClients, FS_CardinalityType
  <2> QED BY <2>1, <2>2 DEF LossInv, OneLossEach, LossNeedsCrash
<1> QED BY <1>1, <1>2, PTL
=============================================================================
