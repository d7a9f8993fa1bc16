------------------------------ MODULE Channel --------------------------------
(* What NetworkMessage promises of one direction of a connection, and what   *)
(* Dispatch builds on: whole messages, once each, in the order in which they *)
(* were sent; when the sender's socket closes, of the messages on their way  *)
(* a prefix still arrives, and then the receiver is told of the end.         *)
EXTENDS Integers, Sequences

CONSTANT NumMessages   \* the messages the sender has to send: 1 .. NumMessages

VARIABLES nextMessage, \* the message to be sent next
          onWay,       \* the messages on their way
          delivered,   \* the messages receiveMessage has returned
          closed,      \* the sender's socket is closed
          ended        \* receiveMessage has returned CLIENT_DISCONNECT

vars == <<nextMessage, onWay, delivered, closed, ended>>

Init == /\ nextMessage = 1 /\ onWay = <<>> /\ delivered = <<>>
        /\ closed = FALSE /\ ended = FALSE

Send == /\ ~closed /\ nextMessage <= NumMessages
        /\ onWay' = Append(onWay, nextMessage)
        /\ nextMessage' = nextMessage + 1
        /\ UNCHANGED <<delivered, closed, ended>>

Receive == /\ onWay # <<>> /\ ~ended
           /\ delivered' = Append(delivered, Head(onWay))
           /\ onWay' = Tail(onWay)
           /\ UNCHANGED <<nextMessage, closed, ended>>

Close == /\ ~closed
         /\ closed' = TRUE
         /\ \E n \in 0 .. Len(onWay) : onWay' = SubSeq(onWay, 1, n)
         /\ UNCHANGED <<nextMessage, delivered, ended>>

End == /\ closed /\ onWay = <<>> /\ ~ended
       /\ ended' = TRUE
       /\ UNCHANGED <<nextMessage, onWay, delivered, closed>>

Next == Send \/ Receive \/ Close \/ End

Spec == Init /\ [][Next]_vars
=============================================================================
