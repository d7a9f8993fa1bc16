------------------------------ MODULE Framing --------------------------------
(* The bytes of one direction of a connection: NetworkMessage::sendMessage   *)
(* and receiveMessage (src/NetworkMessage.cpp) over a stream that takes and  *)
(* gives as many bytes at a time as it likes.  A message is a header with    *)
(* its type and the size of its payload, and the payload.  A byte is known   *)
(* by its message and its offset there.                                      *)
EXTENDS Integers, Sequences, FiniteSets

CONSTANTS NumMessages,  \* the messages of the sender
          Sizes,        \* the payload sizes they may have
          HeaderSize,   \* sizeof(MessageType) + sizeof(size_t)
          Capacity      \* the bytes the stream holds

ASSUME FramingAssumption ==
  /\ NumMessages \in Nat /\ Sizes \subseteq Nat
  /\ HeaderSize \in Nat \ {0} /\ Capacity \in Nat \ {0}

VARIABLES
  payloadSize,  \* the payload size of each message
  sending,      \* the message the sender is at
  totalSent,    \* the bytes of it that send has taken
  wire,         \* the bytes in the stream
  closed,       \* the sender's socket is closed
  headerBuf,    \* the bytes of the header received so far
  payload,      \* the bytes of the payload received so far
  received,     \* the messages returned, each with all its bytes
  ended         \* CLIENT_DISCONNECT has been returned

vars == <<payloadSize, sending, totalSent, wire, closed, headerBuf, payload,
          received, ended>>

Init ==
  /\ payloadSize \in [1 .. NumMessages -> Sizes]
  /\ sending = 1 /\ totalSent = 0
  /\ wire = <<>> /\ closed = FALSE
  /\ headerBuf = <<>> /\ payload = <<>> /\ received = <<>> /\ ended = FALSE

-----------------------------------------------------------------------------
\* createMessage: the header, then the payload.
MessageSize(m) == HeaderSize + payloadSize[m]
Bytes(m, from, to) == [i \in 1 .. to - from |-> [msg |-> m, off |-> from + i - 1]]
Message(m) == Bytes(m, 0, MessageSize(m))

\* Mutant: what one call of send takes is taken for the whole message.
SendChunkOnly ==
  /\ ~closed /\ sending <= NumMessages
  /\ \E n \in 1 .. MessageSize(sending) :
       /\ Len(wire) + n <= Capacity
       /\ wire' = wire \o Bytes(sending, 0, n)
       /\ sending' = sending + 1 /\ totalSent' = 0
  /\ UNCHANGED <<payloadSize, closed, headerBuf, payload, received, ended>>

\* One call of send in the loop of sendMessage.
SendChunk ==
  /\ ~closed /\ sending <= NumMessages
  /\ \E n \in 1 .. MessageSize(sending) - totalSent :
       /\ Len(wire) + n <= Capacity
       /\ wire' = wire \o Bytes(sending, totalSent, totalSent + n)
       /\ IF totalSent + n = MessageSize(sending)
          THEN sending' = sending + 1 /\ totalSent' = 0
          ELSE totalSent' = totalSent + n /\ UNCHANGED sending
  /\ UNCHANGED <<payloadSize, closed, headerBuf, payload, received, ended>>

\* The sender's socket is closed, in the middle of a message if the process
\* dies; the stream keeps a prefix of what it had taken.
CloseSocket ==
  /\ ~closed
  /\ closed' = TRUE
  /\ \E n \in 0 .. Len(wire) : wire' = SubSeq(wire, 1, n)
  /\ UNCHANGED <<payloadSize, sending, totalSent, headerBuf, payload, received, ended>>

-----------------------------------------------------------------------------
\* The payload size that stands in a complete header.
SizeIn(header) == payloadSize[header[1].msg]

Take(n) == SubSeq(wire, 1, n)
Drop(n) == wire' = SubSeq(wire, n + 1, Len(wire))

\* receiveMessage returns a message and starts over with the next call.
Return(bytes) == /\ received' = Append(received, bytes)
                 /\ headerBuf' = <<>> /\ payload' = <<>>

\* Mutant: recv is asked for a whole header each time round.
RecvHeaderAfresh ==
  /\ ~ended /\ Len(headerBuf) < HeaderSize
  /\ \E n \in 1 .. HeaderSize :
       /\ n <= Len(wire)
       /\ LET header == headerBuf \o Take(n)
          IN  IF Len(header) >= HeaderSize /\ SizeIn(header) = 0
              THEN Return(header)
              ELSE headerBuf' = header /\ UNCHANGED <<payload, received>>
       /\ Drop(n)
  /\ UNCHANGED <<payloadSize, sending, totalSent, closed, ended>>

\* One call of recv in the first loop of receiveMessage.
RecvHeader ==
  /\ ~ended /\ Len(headerBuf) < HeaderSize
  /\ \E n \in 1 .. HeaderSize - Len(headerBuf) :
       /\ n <= Len(wire)
       /\ LET header == headerBuf \o Take(n)
          IN  IF Len(header) = HeaderSize /\ SizeIn(header) = 0
              THEN Return(header)
              ELSE headerBuf' = header /\ UNCHANGED <<payload, received>>
       /\ Drop(n)
  /\ UNCHANGED <<payloadSize, sending, totalSent, closed, ended>>

\* Mutant: the second loop waits until the whole payload can be taken at once.
RecvPayloadAtOnce ==
  /\ ~ended /\ Len(headerBuf) = HeaderSize
  /\ SizeIn(headerBuf) <= Len(wire)
  /\ Return(headerBuf \o Take(SizeIn(headerBuf)))
  /\ Drop(SizeIn(headerBuf))
  /\ UNCHANGED <<payloadSize, sending, totalSent, closed, ended>>

\* One call of recv in the second loop.
RecvPayload ==
  /\ ~ended /\ Len(headerBuf) = HeaderSize
  /\ \E n \in 1 .. SizeIn(headerBuf) - Len(payload) :
       /\ n <= Len(wire)
       /\ IF Len(payload) + n = SizeIn(headerBuf)
          THEN Return(headerBuf \o payload \o Take(n))
          ELSE payload' = payload \o Take(n) /\ UNCHANGED <<headerBuf, received>>
       /\ Drop(n)
  /\ UNCHANGED <<payloadSize, sending, totalSent, closed, ended>>

\* Mutant: what had come of a message when recv returns 0 is returned.
RecvEndReturns ==
  /\ ~ended /\ wire = <<>> /\ closed
  /\ IF headerBuf = <<>> THEN ended' = TRUE /\ UNCHANGED <<headerBuf, payload, received>>
     ELSE Return(headerBuf \o payload) /\ UNCHANGED ended
  /\ UNCHANGED <<payloadSize, sending, totalSent, wire, closed>>

\* recv returns 0: what had come of a message is thrown away.
RecvEnd ==
  /\ ~ended /\ wire = <<>> /\ closed
  /\ ended' = TRUE
  /\ UNCHANGED <<payloadSize, sending, totalSent, wire, closed, headerBuf, payload, received>>

Receiver == RecvHeader \/ RecvPayload \/ RecvEnd

Next == SendChunk \/ CloseSocket \/ Receiver

Spec == Init /\ [][Next]_vars

(* Fairness: the sender's and the receiver's threads keep calling send and   *)
(* recv, and the stream moves the bytes.  Nobody has to close the socket.    *)
FairSpec == Spec /\ WF_vars(SendChunk) /\ WF_vars(Receiver)

-----------------------------------------------------------------------------
\* Every variable has its type, and the stream is never over its capacity.
TypeOK ==
  /\ payloadSize \in [1 .. NumMessages -> Sizes]
  /\ sending \in 1 .. NumMessages + 1
  /\ totalSent \in Nat /\ (sending <= NumMessages => totalSent < MessageSize(sending))
  /\ Len(wire) <= Capacity /\ Len(headerBuf) <= HeaderSize
  /\ closed \in BOOLEAN /\ ended \in BOOLEAN

\* The message that a byte on the wire completes.
Completes(b) == b.off = MessageSize(b.msg) - 1

\* The messages whose last byte is on the wire come after the returned ones.
Whole == {wire[i].msg : i \in {j \in 1 .. Len(wire) : Completes(wire[j])}}
OnWay == [i \in 1 .. Cardinality(Whole) |-> Len(received) + i]

\* The message that was returned, or 0 for bytes that are not one whole message.
Returned(bytes) == IF bytes = Message(bytes[1].msg) THEN bytes[1].msg ELSE 0

\* The abstract channel behind the bytes: a message is sent with its last byte
\* and received with its last byte.
Abstract == INSTANCE Channel WITH
  nextMessage <- sending,
  onWay       <- OnWay,
  delivered   <- [i \in 1 .. Len(received) |-> Returned(received[i])]

\* receiveMessage returns whole messages, once each and in the order in which
\* sendMessage took them, however the stream splits and joins them.
ImplementsChannel == Abstract!Spec

\* At all times the stream and the receiver's buffers together continue where
\* the last returned message stopped: no byte is lost, doubled or out of place.
NothingOutOfPlace ==
  LET inBuffers == headerBuf \o payload \o wire
  IN  /\ \A i \in 1 .. Len(inBuffers) :
           LET b == inBuffers[i]
           IN  IF i = 1 THEN b = [msg |-> Len(received) + 1, off |-> 0]
               ELSE LET a == inBuffers[i - 1]
                    IN  b = IF Completes(a) THEN [msg |-> a.msg + 1, off |-> 0]
                            ELSE [msg |-> a.msg, off |-> a.off + 1]

\* Every message arrives, or the receiver is told that the connection is over.
AllDelivered == <>(ended \/ Len(received) = NumMessages)
=============================================================================
