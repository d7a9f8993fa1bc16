---------------------------- MODULE FramingProofs ----------------------------
(* Proofs, checked by TLAPS, about Framing for any number of messages, any   *)
(* sizes of their payloads, of the header and of the stream: receiveMessage  *)
(* returns the messages of sendMessage, whole and in order, and so the bytes *)
(* implement Channel.                                                        *)
(*                                                                           *)
(* The bytes under way, in the receiver's buffers and in the stream, are one *)
(* sequence.  A call of send adds to its end, the end of the connection cuts *)
(* it, a call of recv leaves it alone or takes a whole message off its front.*)
EXTENDS Framing, FiniteSetTheorems, SequenceTheorems, TLAPS

Byte == {b \in [msg : 1 .. NumMessages, off : Nat] : b.off < MessageSize(b.msg)}
At(m, t) == [msg |-> m, off |-> t]

\* The byte that comes after b.
After(b) == IF Completes(b) THEN At(b.msg + 1, 0) ELSE At(b.msg, b.off + 1)

Stream == headerBuf \o payload \o wire

\* s starts with message n + 1 and goes on without a gap.  That a message goes
\* on to its end, and that all messages before a byte are there, follows by
\* induction on the bytes; as parts of the invariant they follow step by step.
Starts(s, n) == s # <<>> => s[1] = At(n + 1, 0)
Follows(s)   == \A i, j \in 1 .. Len(s) : j = i + 1 => s[j] = After(s[i])
Rises(s)     == \A i, j \in 1 .. Len(s) : i <= j => s[i].msg <= s[j].msg
Runs(s)      == \A i, j \in 1 .. Len(s) :
                  i <= j /\ s[i].off + (j - i) < MessageSize(s[i].msg)
                    => s[j] = At(s[i].msg, s[i].off + (j - i))
Ended(s, m, k) == \E i \in 1 .. k : s[i].msg = m /\ Completes(s[i])
Passed(s, n) == \A j \in 1 .. Len(s) : \A m \in n + 1 .. s[j].msg - 1 : Ended(s, m, j)

InOrder(s, n) ==
  s \in Seq(Byte) /\ Starts(s, n) /\ Follows(s) /\ Rises(s) /\ Runs(s) /\ Passed(s, n)

\* The byte that comes after s is the one at t of message m.
GoesOn(s, n, m, t) ==
  /\ s = <<>> => m = n + 1 /\ t = 0
  /\ s # <<>> => At(m, t) = After(s[Len(s)])
  /\ \A i \in 1 .. Len(s) :
       /\ s[i].msg <= m
       /\ s[i].off + (Len(s) + 1 - i) < MessageSize(s[i].msg)
            => m = s[i].msg /\ t = s[i].off + (Len(s) + 1 - i)
  /\ \A y \in n + 1 .. m - 1 : Ended(s, y, Len(s))

\* The receiver's buffers hold a part of one message.
Buffers ==
  /\ headerBuf \in Seq(Byte) /\ payload \in Seq(Byte) /\ wire \in Seq(Byte)
  /\ Len(headerBuf) < HeaderSize => payload = <<>>
  /\ Len(headerBuf) = HeaderSize => Len(payload) < SizeIn(headerBuf)

WholeReceived ==
  /\ received \in Seq(Seq(Byte))
  /\ \A i \in 1 .. Len(received) : i <= NumMessages /\ received[i] = Message(i)

FInv ==
  /\ TypeOK
  /\ Buffers
  /\ InOrder(Stream, Len(received))
  /\ ~closed => GoesOn(Stream, Len(received), sending, totalSent)
  /\ WholeReceived

-----------------------------------------------------------------------------
(* Bytes and messages.                                                       *)

LEMMA SizeType ==
  ASSUME TypeOK, NEW m \in 1 .. NumMessages
  PROVE  MessageSize(m) \in Nat \ {0} /\ MessageSize(m) >= HeaderSize
         /\ payloadSize[m] \in Nat /\ MessageSize(m) = HeaderSize + payloadSize[m]
<1>1. payloadSize[m] \in Nat
  BY FramingAssumption DEF TypeOK
<1> QED BY <1>1, FramingAssumption DEF MessageSize

LEMMA ByteFacts ==
  ASSUME TypeOK, NEW b \in Byte
  PROVE  /\ b.msg \in 1 .. NumMessages /\ b.off \in Nat
         /\ MessageSize(b.msg) \in Nat \ {0} /\ b.off < MessageSize(b.msg)
         /\ b = At(b.msg, b.off)
         /\ Completes(b) <=> b.off + 1 = MessageSize(b.msg)
<1>1. /\ b.msg \in 1 .. NumMessages /\ b.off \in Nat /\ b.off < MessageSize(b.msg)
      /\ b = At(b.msg, b.off)
  BY DEF Byte, At
<1>2. MessageSize(b.msg) \in Nat \ {0}
  BY <1>1, SizeType
<1> QED BY <1>1, <1>2 DEF Completes

LEMMA AtIs ==
  \A m, t : /\ At(m, t).msg = m /\ At(m, t).off = t
            /\ \A k, u : At(m, t) = At(k, u) <=> m = k /\ t = u
<1>1. \A m, t : At(m, t).msg = m /\ At(m, t).off = t
  BY DEF At
<1> QED BY <1>1

LEMMA AtByte ==
  ASSUME NEW m \in 1 .. NumMessages, NEW t \in Nat, t < MessageSize(m)
  PROVE  At(m, t) \in Byte
BY DEF At, Byte

LEMMA AsSeq ==
  ASSUME NEW S, NEW n \in Nat, NEW f \in [1 .. n -> S]
  PROVE  f \in Seq(S) /\ Len(f) = n
BY SeqDef, LenProperties

LEMMA BytesAre ==
  ASSUME NEW m \in Int, NEW from \in Nat, NEW to \in Nat, from <= to
  PROVE  /\ Len(Bytes(m, from, to)) = to - from
         /\ \A i \in 1 .. to - from : Bytes(m, from, to)[i] = At(m, from + (i - 1))
         /\ Bytes(m, from, to) \in [1 .. to - from -> [msg : Int, off : Int]]
<1>1. to - from \in Nat
  OBVIOUS
<1>2. \A i \in 1 .. to - from : from + i - 1 = from + (i - 1)
  OBVIOUS
<1>3. Bytes(m, from, to) = [i \in 1 .. to - from |-> At(m, from + (i - 1))]
  BY <1>2 DEF Bytes, At
<1>4. \A i \in 1 .. to - from : At(m, from + (i - 1)) \in [msg : Int, off : Int]
  BY DEF At
<1>5. Bytes(m, from, to) \in [1 .. to - from -> [msg : Int, off : Int]]
  BY <1>3, <1>4
<1>6. Len(Bytes(m, from, to)) = to - from
  BY <1>1, <1>5, AsSeq
<1> QED BY <1>3, <1>5, <1>6

LEMMA BytesType ==
  ASSUME TypeOK, NEW m \in 1 .. NumMessages, NEW from \in Nat, NEW to \in Nat,
         from <= to, to <= MessageSize(m)
  PROVE  Bytes(m, from, to) \in Seq(Byte)
<1>0. m \in Int
  OBVIOUS
<1>1. /\ Len(Bytes(m, from, to)) = to - from /\ to - from \in Nat
      /\ \A i \in 1 .. to - from : Bytes(m, from, to)[i] = At(m, from + (i - 1))
      /\ DOMAIN Bytes(m, from, to) = 1 .. to - from
  <2>1. Bytes(m, from, to) \in [1 .. to - from -> [msg : Int, off : Int]]
    BY <1>0, BytesAre
  <2>2. DOMAIN Bytes(m, from, to) = 1 .. to - from
    BY <2>1
  <2>3. to - from \in Nat
    OBVIOUS
  <2> QED BY <1>0, <2>2, <2>3, BytesAre
<1>2. MessageSize(m) \in Nat
  BY SizeType
<1>3. \A i \in 1 .. to - from : At(m, from + (i - 1)) \in Byte
  BY <1>2, AtByte
<1>4. Bytes(m, from, to) \in [1 .. to - from -> Byte]
  <2>1. Bytes(m, from, to) = [i \in 1 .. to - from |-> Bytes(m, from, to)[i]]
    BY DEF Bytes
  <2> QED BY <1>1, <1>3, <2>1
<1> QED BY <1>1, <1>4, AsSeq

-----------------------------------------------------------------------------
(* What the calls of send and recv and the end of the connection do to bytes *)
(* in order.                                                                 *)

LEMMA Added ==
  ASSUME TypeOK, NEW n \in Nat, NEW m \in 1 .. NumMessages, NEW t \in Nat,
         NEW k \in Nat \ {0}, t + k <= MessageSize(m),
         NEW s, InOrder(s, n), GoesOn(s, n, m, t),
         NEW z \in Seq(Byte), Len(z) = Len(s) + k,
         \A i \in 1 .. Len(s) : z[i] = s[i],
         \A i \in Len(s) + 1 .. Len(z) : z[i] = At(m, t + (i - (Len(s) + 1)))
  PROVE  /\ InOrder(z, n)
         /\ t + k < MessageSize(m) => GoesOn(z, n, m, t + k)
         /\ t + k = MessageSize(m) => GoesOn(z, n, m + 1, 0)
<1> DEFINE L == Len(s)
<1>1. /\ L \in Nat /\ MessageSize(m) \in Nat \ {0} /\ Len(z) = L + k
      /\ s \in Seq(Byte) /\ m \in Int
  BY SizeType DEF InOrder
<1>0. L = Len(s)
  OBVIOUS
<1> HIDE DEF L
<1> USE <1>0
<1>2. \A i \in 1 .. L : /\ s[i] \in Byte /\ s[i].msg \in 1 .. NumMessages /\ s[i].off \in Nat
                        /\ MessageSize(s[i].msg) \in Nat /\ z[i] = s[i] /\ s[i].msg <= m
  <2>1. \A i \in 1 .. L : s[i] \in Byte
    BY <1>1, ElementOfSeq
  <2> QED BY <2>1, ByteFacts DEF GoesOn
<1>3. \A i \in L + 1 .. L + k : /\ z[i] = At(m, t + (i - (L + 1)))
                                /\ z[i].msg = m /\ z[i].off = t + (i - (L + 1))
  BY <1>1, AtIs
<1>4. Starts(z, n)
  <2>1. CASE L = 0
    <3>1. s = <<>>
      BY <1>1, <2>1, EmptySeq
    <3>2. m = n + 1 /\ t = 0
      BY <3>1 DEF GoesOn
    <3>3. z[1] = At(m, t + (1 - (L + 1)))
      BY <1>1, <1>3, <2>1
    <3> QED BY <2>1, <3>2, <3>3 DEF Starts
  <2>2. CASE L # 0
    <3>1. s # <<>> /\ 1 \in 1 .. L
      BY <1>1, <2>2, EmptySeq
    <3> QED BY <1>2, <3>1 DEF InOrder, Starts
  <2> QED BY <2>1, <2>2
<1>5. Follows(z)
  <2> SUFFICES ASSUME NEW i \in 1 .. L + k, NEW j \in 1 .. L + k, j = i + 1
               PROVE  z[j] = After(z[i])
    BY <1>1 DEF Follows
  <2>1. CASE j <= L
    <3>1. i \in 1 .. L /\ j \in 1 .. L
      BY <1>1, <2>1
    <3> QED BY <1>2, <3>1 DEF InOrder, Follows
  <2>2. CASE i = L
    <3>1. s # <<>>
      BY <1>1, <2>2, EmptySeq
    <3>2. At(m, t) = After(s[L])
      BY <3>1 DEF GoesOn
    <3>3. z[j] = At(m, t) /\ z[i] = s[L]
      BY <1>1, <1>2, <1>3, <2>2, SMTT(30)
    <3> QED BY <3>2, <3>3
  <2>3. CASE i > L
    <3>1. /\ i \in L + 1 .. L + k /\ j \in L + 1 .. L + k
          /\ t + (j - (L + 1)) = t + (i - (L + 1)) + 1
          /\ t + (i - (L + 1)) + 1 < MessageSize(m)
      BY <1>1, <2>3
    <3>2. ~Completes(z[i])
      BY <1>1, <1>3, <3>1 DEF Completes
    <3> QED BY <1>3, <3>1, <3>2 DEF After
  <2> QED BY <1>1, <2>1, <2>2, <2>3
<1>6. Rises(z)
  <2> SUFFICES ASSUME NEW i \in 1 .. L + k, NEW j \in 1 .. L + k, i <= j
               PROVE  z[i].msg <= z[j].msg
    BY <1>1 DEF Rises
  <2>1. CASE j <= L
    <3>1. i \in 1 .. L /\ j \in 1 .. L
      BY <1>1, <2>1
    <3> QED BY <1>2, <3>1 DEF InOrder, Rises
  <2>2. CASE j > L
    <3>1. z[j].msg = m
      BY <1>1, <1>3, <2>2
    <3>2. z[i].msg <= m
      <4>1. i \in 1 .. L \/ i \in L + 1 .. L + k
        BY <1>1
      <4>2. i \in 1 .. L => z[i].msg <= m
        BY <1>2
      <4>3. i \in L + 1 .. L + k => z[i].msg = m
        BY <1>3
      <4> QED BY <1>1, <4>1, <4>2, <4>3
    <3> QED BY <3>1, <3>2
  <2> QED BY <1>1, <2>1, <2>2
<1>7. Runs(z)
  <2> SUFFICES ASSUME NEW i \in 1 .. L + k, NEW j \in 1 .. L + k, i <= j,
                      z[i].off + (j - i) < MessageSize(z[i].msg)
               PROVE  z[j] = At(z[i].msg, z[i].off + (j - i))
    BY <1>1 DEF Runs
  <2>1. CASE j <= L
    <3>1. i \in 1 .. L /\ j \in 1 .. L
      BY <1>1, <2>1
    <3> QED BY <1>2, <3>1 DEF InOrder, Runs
  <2>2. CASE i <= L /\ j > L
    <3>1. i \in 1 .. L /\ j \in L + 1 .. L + k
      BY <1>1, <2>2
    <3>2. z[i] = s[i] /\ s[i].off \in Nat /\ MessageSize(s[i].msg) \in Nat
      BY <1>2, <3>1
    <3>3. s[i].off + (L + 1 - i) < MessageSize(s[i].msg)
      <4>1. s[i].off + (j - i) < MessageSize(s[i].msg) /\ L + 1 - i <= j - i
        BY <1>1, <3>1, <3>2
      <4> QED BY <1>1, <3>1, <3>2, <4>1, SMTT(30)
    <3>4. m = s[i].msg /\ t = s[i].off + (L + 1 - i)
      BY <3>1, <3>3 DEF GoesOn
    <3>5. t + (j - (L + 1)) = s[i].off + (j - i)
      <4> DEFINE x == s[i].off
                 a == L + 1
      <4>1. x \in Int /\ i \in Int /\ j \in Int /\ a \in Int /\ t \in Int
        BY <1>1, <3>1, <3>2
      <4>2. t = x + (a - i)
        BY <3>4
      <4> HIDE DEF x, a
      <4>3. t + (j - a) = x + (j - i)
        BY <4>1, <4>2
      <4> QED BY <4>3 DEF x, a
    <3>6. z[j] = At(m, t + (j - (L + 1)))
      BY <1>3, <3>1
    <3> QED BY <3>2, <3>4, <3>5, <3>6
  <2>3. CASE i > L
    <3>1. i \in L + 1 .. L + k /\ j \in L + 1 .. L + k
          /\ t + (j - (L + 1)) = t + (i - (L + 1)) + (j - i)
      BY <1>1, <2>3
    <3> QED BY <1>3, <3>1
  <2> QED BY <1>1, <2>1, <2>2, <2>3
<1>8. \A y \in n + 1 .. m - 1 : \A j \in L .. L + k : Ended(z, y, j)
  <2> SUFFICES ASSUME NEW y \in n + 1 .. m - 1, NEW j \in L .. L + k
               PROVE  Ended(z, y, j)
    OBVIOUS
  <2>1. PICK i \in 1 .. L : s[i].msg = y /\ Completes(s[i])
    BY DEF GoesOn, Ended
  <2>2. i \in 1 .. j /\ z[i] = s[i]
    BY <1>1, <1>2, <2>1
  <2> QED BY <2>1, <2>2 DEF Ended
<1>9. Passed(z, n)
  <2> SUFFICES ASSUME NEW j \in 1 .. L + k, NEW y \in n + 1 .. z[j].msg - 1
               PROVE  Ended(z, y, j)
    BY <1>1 DEF Passed
  <2>1. CASE j <= L
    <3>1. j \in 1 .. L /\ y \in n + 1 .. s[j].msg - 1
      BY <1>1, <1>2, <2>1
    <3>2. PICK i \in 1 .. j : s[i].msg = y /\ Completes(s[i])
      BY <3>1 DEF InOrder, Passed, Ended
    <3>3. z[i] = s[i]
      BY <1>1, <1>2, <3>1
    <3> QED BY <3>2, <3>3 DEF Ended
  <2>2. CASE j > L
    <3>1. j \in L .. L + k /\ y \in n + 1 .. m - 1
      BY <1>1, <1>3, <2>2
    <3> QED BY <1>8, <3>1
  <2> QED BY <1>1, <2>1, <2>2
<1>10. InOrder(z, n)
  BY <1>4, <1>5, <1>6, <1>7, <1>9 DEF InOrder
<1>11. z # <<>> /\ Len(z) \in L + 1 .. L + k /\ z[Len(z)] = At(m, t + (k - 1))
       /\ z[Len(z)].msg = m /\ z[Len(z)].off = t + (k - 1)
  <2>1. Len(z) \in L + 1 .. L + k /\ t + (Len(z) - (L + 1)) = t + (k - 1)
    BY <1>1
  <2>2. z # <<>>
    BY <1>1, <2>1, EmptySeq
  <2> QED BY <1>3, <2>1, <2>2
<1>12. \A i \in 1 .. L + k :
         /\ z[i].msg <= m
         /\ z[i].off + (Len(z) + 1 - i) < MessageSize(z[i].msg)
              => m = z[i].msg /\ t + k = z[i].off + (Len(z) + 1 - i)
  <2> SUFFICES ASSUME NEW i \in 1 .. L + k
               PROVE  /\ z[i].msg <= m
                      /\ z[i].off + (L + k + 1 - i) < MessageSize(z[i].msg)
                           => m = z[i].msg /\ t + k = z[i].off + (L + k + 1 - i)
    BY <1>1
  <2>1. CASE i \in 1 .. L
    <3>1. /\ z[i] = s[i] /\ s[i].off \in Nat /\ MessageSize(s[i].msg) \in Nat
          /\ s[i].msg <= m
      BY <1>2, <2>1
    <3>2. ASSUME s[i].off + (L + k + 1 - i) < MessageSize(s[i].msg)
          PROVE  m = s[i].msg /\ t + k = s[i].off + (L + k + 1 - i)
      <4>1. s[i].off + (L + 1 - i) < MessageSize(s[i].msg)
        BY <1>1, <2>1, <3>1, <3>2
      <4>2. m = s[i].msg /\ t = s[i].off + (L + 1 - i)
        BY <2>1, <4>1 DEF GoesOn
      <4> DEFINE x == s[i].off
      <4>3. x \in Int /\ L \in Int /\ i \in Int /\ t = x + (L + 1 - i)
        BY <1>1, <2>1, <3>1, <4>2
      <4> HIDE DEF x
      <4>4. t + k = x + (L + k + 1 - i)
        BY <4>3
      <4> QED BY <4>2, <4>4 DEF x
    <3> QED BY <3>1, <3>2
  <2>2. CASE i \in L + 1 .. L + k
    BY <1>1, <1>3, <2>2
  <2> QED BY <1>1, <2>1, <2>2
<1>13. ASSUME t + k < MessageSize(m) PROVE GoesOn(z, n, m, t + k)
  <2>1. After(z[Len(z)]) = At(m, t + k)
    <3>1. ~Completes(z[Len(z)]) /\ t + (k - 1) + 1 = t + k
      BY <1>1, <1>11, <1>13 DEF Completes
    <3> QED BY <1>11, <3>1 DEF After
  <2>2. \A y \in n + 1 .. m - 1 : Ended(z, y, Len(z))
    <3>1. Len(z) \in L .. L + k
      BY <1>1
    <3> QED BY <1>8, <3>1
  <2> QED BY <1>1, <1>11, <1>12, <2>1, <2>2 DEF GoesOn
<1>14. ASSUME t + k = MessageSize(m) PROVE GoesOn(z, n, m + 1, 0)
  <2>1. Completes(z[Len(z)])
    BY <1>1, <1>11, <1>14 DEF Completes
  <2>2. After(z[Len(z)]) = At(m + 1, 0)
    BY <1>11, <2>1 DEF After
  <2>3. \A i \in 1 .. L + k :
          /\ z[i].msg <= m + 1
          /\ ~(z[i].off + (Len(z) + 1 - i) < MessageSize(z[i].msg))
    <3> SUFFICES ASSUME NEW i \in 1 .. L + k
                 PROVE  /\ z[i].msg <= m + 1
                        /\ ~(z[i].off + (Len(z) + 1 - i) < MessageSize(z[i].msg))
      OBVIOUS
    <3>1. z[i].msg \in Int
      <4>1. i \in 1 .. L \/ i \in L + 1 .. L + k
        BY <1>1
      <4> QED BY <1>1, <1>2, <1>3, <4>1
    <3> QED BY <1>12, <1>14, <3>1
  <2>4. \A y \in n + 1 .. (m + 1) - 1 : Ended(z, y, Len(z))
    <3> SUFFICES ASSUME NEW y \in n + 1 .. (m + 1) - 1 PROVE Ended(z, y, Len(z))
      OBVIOUS
    <3>1. CASE y = m
      BY <1>1, <1>11, <2>1, <3>1 DEF Ended
    <3>2. CASE y # m
      <4>1. y \in n + 1 .. m - 1 /\ Len(z) \in L .. L + k
        BY <1>1, <3>2
      <4> QED BY <1>8, <4>1
    <3> QED BY <3>1, <3>2
  <2> QED BY <1>1, <1>11, <2>2, <2>3, <2>4 DEF GoesOn
<1> QED BY <1>10, <1>13, <1>14

LEMMA Cut ==
  ASSUME TypeOK, NEW n \in Nat, NEW s, InOrder(s, n),
         NEW z \in Seq(Byte), Len(z) <= Len(s), \A i \in 1 .. Len(z) : z[i] = s[i]
  PROVE  InOrder(z, n)
<1>1. Len(s) \in Nat /\ Len(z) \in Nat /\ s \in Seq(Byte)
  BY DEF InOrder
<1>2. 1 .. Len(z) \subseteq 1 .. Len(s)
  BY <1>1
<1>3. Starts(z, n)
  <2>1. z # <<>> => 1 \in 1 .. Len(z) /\ s # <<>>
    BY <1>1, EmptySeq
  <2> QED BY <2>1 DEF InOrder, Starts
<1>4. Follows(z) /\ Rises(z) /\ Runs(z)
  BY <1>2 DEF InOrder, Follows, Rises, Runs
<1>5. Passed(z, n)
  <2> SUFFICES ASSUME NEW j \in 1 .. Len(z), NEW y \in n + 1 .. z[j].msg - 1
               PROVE  Ended(z, y, j)
    BY DEF Passed
  <2>1. PICK i \in 1 .. j : s[i].msg = y /\ Completes(s[i])
    BY <1>2 DEF InOrder, Passed, Ended
  <2>2. z[i] = s[i]
    BY <1>1
  <2> QED BY <2>1, <2>2 DEF Ended
<1> QED BY <1>3, <1>4, <1>5 DEF InOrder

\* The first bytes are those of message n + 1.
LEMMA FrontIs ==
  ASSUME TypeOK, NEW n \in Nat, NEW s, InOrder(s, n), s # <<>>
  PROVE  /\ n + 1 \in 1 .. NumMessages
         /\ \A i \in 1 .. Len(s) : i <= MessageSize(n + 1) => s[i] = At(n + 1, i - 1)
<1>1. s \in Seq(Byte) /\ 1 \in 1 .. Len(s) /\ Len(s) \in Nat
  BY EmptySeq DEF InOrder
<1>2. s[1] \in Byte
  BY <1>1, ElementOfSeq
<1>3. s[1].msg = n + 1 /\ s[1].off = 0
  BY AtIs DEF InOrder, Starts
<1>4. n + 1 \in 1 .. NumMessages /\ MessageSize(n + 1) \in Nat
  BY <1>2, <1>3, ByteFacts
<1>5. \A i \in 1 .. Len(s) : i <= MessageSize(n + 1) => s[i] = At(n + 1, i - 1)
  <2> SUFFICES ASSUME NEW i \in 1 .. Len(s), i <= MessageSize(n + 1)
               PROVE  s[i] = At(n + 1, i - 1)
    OBVIOUS
  <2>1. 1 <= i /\ 0 + (i - 1) < MessageSize(n + 1)
    BY <1>4
  <2>2. s[i] = At(s[1].msg, s[1].off + (i - 1))
    BY <1>1, <1>3, <2>1 DEF InOrder, Runs
  <2> QED BY <1>3, <2>2
<1> QED BY <1>4, <1>5

LEMMA Taken ==
  ASSUME TypeOK, NEW n \in Nat, NEW s, InOrder(s, n), s # <<>>,
         NEW front \in Seq(Byte), NEW z \in Seq(Byte), s = front \o z,
         Len(front) = MessageSize(n + 1)
  PROVE  /\ front = Message(n + 1) /\ n + 1 \in 1 .. NumMessages
         /\ InOrder(z, n + 1)
         /\ \A m \in Nat, t \in Nat : GoesOn(s, n, m, t) => GoesOn(z, n + 1, m, t)
<1> DEFINE k == Len(front)
           L == Len(z)
<1>1. /\ n + 1 \in 1 .. NumMessages
      /\ \A i \in 1 .. Len(s) : i <= MessageSize(n + 1) => s[i] = At(n + 1, i - 1)
  BY FrontIs
<1>2. /\ k \in Nat \ {0} /\ L \in Nat /\ Len(s) = k + L /\ k = MessageSize(n + 1)
      /\ \A i \in 1 .. k + L : s[i] = IF i <= k THEN front[i] ELSE z[i - k]
  BY <1>1, SizeType, ConcatProperties, LenProperties
<1>0. L = Len(z) /\ k = Len(front)
  OBVIOUS
<1> HIDE DEF k, L
<1> USE <1>0
<1>3. \A i \in 1 .. k : s[i] = front[i] /\ s[i] = At(n + 1, i - 1)
                        /\ s[i].msg = n + 1 /\ s[i].off = i - 1
  BY <1>1, <1>2, AtIs
<1>4. \A i \in 1 .. L : i + k \in 1 .. Len(s) /\ z[i] = s[i + k]
  <2> SUFFICES ASSUME NEW i \in 1 .. L PROVE i + k \in 1 .. Len(s) /\ z[i] = s[i + k]
    OBVIOUS
  <2>1. i + k \in 1 .. k + L /\ ~(i + k <= k) /\ (i + k) - k = i
    BY <1>2
  <2> QED BY <1>2, <2>1
<1>5. \A i \in 1 .. L : z[i] \in Byte /\ z[i].msg \in Nat /\ z[i].off \in Nat
                        /\ MessageSize(z[i].msg) \in Nat
  <2>1. \A i \in 1 .. L : z[i] \in Byte
    BY ElementOfSeq
  <2> QED BY <2>1, ByteFacts
<1>6. front = Message(n + 1)
  <2>1. /\ Len(Message(n + 1)) = k
        /\ \A i \in 1 .. k : Message(n + 1)[i] = At(n + 1, i - 1)
    <3>1. /\ Len(Message(n + 1)) = MessageSize(n + 1) - 0
          /\ \A i \in 1 .. MessageSize(n + 1) - 0 :
               Message(n + 1)[i] = At(n + 1, 0 + (i - 1))
      <4>1. n + 1 \in Int /\ MessageSize(n + 1) \in Nat /\ 0 <= MessageSize(n + 1)
        BY <1>2
      <4> QED BY <4>1, BytesAre DEF Message
    <3>2. MessageSize(n + 1) - 0 = k /\ \A i \in 1 .. k : 0 + (i - 1) = i - 1
      BY <1>2
    <3> QED BY <3>1, <3>2
  <2>2. Message(n + 1) \in Seq(Byte)
    BY <1>1, <1>2, BytesType DEF Message
  <2> QED BY <1>3, <2>1, <2>2, SeqEqual
<1>7. Completes(s[k])
  BY <1>2, <1>3 DEF Completes
<1>8. Starts(z, n + 1)
  <2> SUFFICES ASSUME z # <<>> PROVE z[1] = At(n + 2, 0)
    BY DEF Starts
  <2>1. 1 \in 1 .. L
    BY <1>2, EmptySeq
  <2>2. k \in 1 .. Len(s) /\ 1 + k \in 1 .. Len(s) /\ 1 + k = k + 1 /\ z[1] = s[1 + k]
    BY <1>2, <1>4, <2>1
  <2>3. s[1 + k] = After(s[k])
    BY <2>2 DEF InOrder, Follows
  <2>4. s[k].msg + 1 = n + 2
    BY <1>2, <1>3
  <2> QED BY <1>7, <2>2, <2>3, <2>4 DEF After
<1>9. Follows(z)
  <2> SUFFICES ASSUME NEW i \in 1 .. L, NEW j \in 1 .. L, j = i + 1
               PROVE  z[j] = After(z[i])
    BY DEF Follows
  <2>1. j + k = (i + k) + 1
    BY <1>2
  <2>2. /\ i + k \in 1 .. Len(s) /\ j + k \in 1 .. Len(s)
        /\ z[i] = s[i + k] /\ z[j] = s[j + k]
    BY <1>4
  <2>3. s[j + k] = After(s[i + k])
    BY <2>1, <2>2 DEF InOrder, Follows
  <2> QED BY <2>2, <2>3
<1>10. Rises(z)
  <2> SUFFICES ASSUME NEW i \in 1 .. L, NEW j \in 1 .. L, i <= j
               PROVE  z[i].msg <= z[j].msg
    BY DEF Rises
  <2>1. i + k <= j + k
    BY <1>2
  <2> QED BY <1>4, <2>1 DEF InOrder, Rises
<1>11. Runs(z)
  <2> SUFFICES ASSUME NEW i \in 1 .. L, NEW j \in 1 .. L, i <= j,
                      z[i].off + (j - i) < MessageSize(z[i].msg)
               PROVE  z[j] = At(z[i].msg, z[i].off + (j - i))
    BY DEF Runs
  <2>1. i + k <= j + k /\ (j + k) - (i + k) = j - i
    BY <1>2
  <2>2. s[j + k] = At(s[i + k].msg, s[i + k].off + ((j + k) - (i + k)))
    BY <1>4, <2>1 DEF InOrder, Runs
  <2> QED BY <1>4, <2>1, <2>2
<1>12. ASSUME NEW j \in 1 .. L, NEW y \in Int, y >= n + 2, Ended(s, y, j + k)
       PROVE  Ended(z, y, j)
  <2>1. PICK i \in 1 .. j + k : s[i].msg = y /\ Completes(s[i])
    BY <1>12 DEF Ended
  <2>2. i > k
    BY <1>2, <1>3, <1>12, <2>1, SMTT(30)
  <2>3. i - k \in 1 .. j /\ (i - k) + k = i
    BY <1>2, <2>2
  <2>4. i - k \in 1 .. L
    BY <1>2, <2>3
  <2>5. z[i - k] = s[i]
    BY <1>4, <2>3, <2>4
  <2> QED BY <2>1, <2>3, <2>5 DEF Ended
<1>13. Passed(z, n + 1)
  <2> SUFFICES ASSUME NEW j \in 1 .. L, NEW y \in (n + 1) + 1 .. z[j].msg - 1
               PROVE  Ended(z, y, j)
    BY DEF Passed
  <2>1. y \in Int /\ y >= n + 2 /\ y \in n + 1 .. s[j + k].msg - 1
    BY <1>4, <1>5, SMTT(30)
  <2>2. Ended(s, y, j + k)
    BY <1>4, <2>1 DEF InOrder, Passed
  <2> QED BY <1>12, <2>1, <2>2
<1>14. InOrder(z, n + 1)
  BY <1>8, <1>9, <1>10, <1>11, <1>13 DEF InOrder
<1>15. ASSUME NEW m \in Nat, NEW t \in Nat, GoesOn(s, n, m, t)
       PROVE  GoesOn(z, n + 1, m, t)
  <2>1. At(m, t) = After(s[Len(s)])
    BY <1>15 DEF GoesOn
  <2>2. CASE z = <<>>
    <3>1. L = 0 /\ Len(s) = k
      BY <1>2, <2>2, EmptySeq
    <3>2. At(m, t) = At(n + 2, 0)
      BY <1>2, <1>3, <1>7, <2>1, <3>1 DEF After
    <3>3. m = n + 2 /\ t = 0
      BY <3>2, AtIs
    <3> QED BY <2>2, <3>1, <3>3 DEF GoesOn
  <2>3. CASE z # <<>>
    <3>1. L \in 1 .. L /\ L + k = Len(s)
      BY <1>2, <2>3, EmptySeq
    <3>2. At(m, t) = After(z[L])
      BY <1>4, <2>1, <3>1
    <3>3. \A i \in 1 .. L :
            /\ z[i].msg <= m
            /\ z[i].off + (L + 1 - i) < MessageSize(z[i].msg)
                 => m = z[i].msg /\ t = z[i].off + (L + 1 - i)
      <4> SUFFICES ASSUME NEW i \in 1 .. L
                   PROVE  /\ z[i].msg <= m
                          /\ z[i].off + (L + 1 - i) < MessageSize(z[i].msg)
                               => m = z[i].msg /\ t = z[i].off + (L + 1 - i)
        OBVIOUS
      <4>1. Len(s) + 1 - (i + k) = L + 1 - i
        BY <1>2
      <4> QED BY <1>4, <1>15, <4>1 DEF GoesOn
    <3>4. \A y \in (n + 1) + 1 .. m - 1 : Ended(z, y, L)
      <4> SUFFICES ASSUME NEW y \in (n + 1) + 1 .. m - 1 PROVE Ended(z, y, L)
        OBVIOUS
      <4>1. y \in Int /\ y >= n + 2 /\ y \in n + 1 .. m - 1
        OBVIOUS
      <4>2. Ended(s, y, L + k)
        BY <1>15, <3>1, <4>1 DEF GoesOn
      <4> QED BY <1>12, <3>1, <4>1, <4>2
    <3> QED BY <2>3, <3>2, <3>3, <3>4 DEF GoesOn
  <2> QED BY <2>2, <2>3
<1> QED BY <1>1, <1>6, <1>14, <1>15

-----------------------------------------------------------------------------
(* The bytes move from the stream through the receiver's buffers.            *)

LEMMA TakeDrop ==
  ASSUME NEW S, NEW w \in Seq(S), NEW k \in 0 .. Len(w)
  PROVE  /\ SubSeq(w, 1, k) \in Seq(S) /\ Len(SubSeq(w, 1, k)) = k
         /\ SubSeq(w, k + 1, Len(w)) \in Seq(S)
         /\ Len(SubSeq(w, k + 1, Len(w))) = Len(w) - k
         /\ SubSeq(w, 1, k) \o SubSeq(w, k + 1, Len(w)) = w
         /\ \A i \in 1 .. k : SubSeq(w, 1, k)[i] = w[i]
<1>1. Len(w) \in Nat /\ \A i \in 1 .. Len(w) : w[i] \in S
  BY LenProperties, ElementOfSeq
<1>2. /\ SubSeq(w, 1, k) \in Seq(S)
      /\ Len(SubSeq(w, 1, k)) = IF 1 <= k THEN (k - 1) + 1 ELSE 0
      /\ \A i \in 1 .. (k - 1) + 1 : SubSeq(w, 1, k)[i] = w[(1 + i) - 1]
  <2>1. 1 \in Int /\ k \in Int /\ \A i \in 1 .. k : w[i] \in S
    BY <1>1
  <2> QED BY <2>1, SubSeqProperties
<1>3. /\ SubSeq(w, k + 1, Len(w)) \in Seq(S)
      /\ Len(SubSeq(w, k + 1, Len(w)))
           = IF k + 1 <= Len(w) THEN (Len(w) - (k + 1)) + 1 ELSE 0
  <2>1. k + 1 \in Int /\ Len(w) \in Int /\ \A i \in k + 1 .. Len(w) : w[i] \in S
    BY <1>1
  <2> QED BY <2>1, SubSeqProperties
<1>4. SubSeq(w, 1, k) \o SubSeq(w, k + 1, Len(w)) = w
  <2>1. /\ 1 \in 1 .. Len(w) + 1 /\ k \in 1 - 1 .. Len(w) /\ Len(w) \in k .. Len(w)
    BY <1>1
  <2>2. SubSeq(w, 1, k) \o SubSeq(w, k + 1, Len(w)) = SubSeq(w, 1, Len(w))
    BY <2>1, ConcatAdjacentSubSeq
  <2> QED BY <2>2, SubSeqFull
<1>5. Len(SubSeq(w, 1, k)) = k /\ Len(SubSeq(w, k + 1, Len(w))) = Len(w) - k
  BY <1>1, <1>2, <1>3
<1>6. \A i \in 1 .. k : SubSeq(w, 1, k)[i] = w[i]
  <2> SUFFICES ASSUME NEW i \in 1 .. k PROVE SubSeq(w, 1, k)[i] = w[i]
    OBVIOUS
  <2>1. i \in 1 .. (k - 1) + 1 /\ (1 + i) - 1 = i
    OBVIOUS
  <2> QED BY <1>2, <2>1
<1> QED BY <1>2, <1>3, <1>4, <1>5, <1>6

LEMMA StreamType ==
  ASSUME Buffers
  PROVE  /\ headerBuf \o payload \in Seq(Byte) /\ Stream \in Seq(Byte)
         /\ Len(headerBuf) \in Nat /\ Len(payload) \in Nat /\ Len(wire) \in Nat
         /\ Len(Stream) = Len(headerBuf) + Len(payload) + Len(wire)
<1>1. /\ headerBuf \o payload \in Seq(Byte)
      /\ Len(headerBuf \o payload) = Len(headerBuf) + Len(payload)
  BY ConcatProperties DEF Buffers
<1>2. Stream \in Seq(Byte) /\ Len(Stream) = Len(headerBuf \o payload) + Len(wire)
  BY <1>1, ConcatProperties DEF Buffers, Stream
<1> QED BY <1>1, <1>2, LenProperties DEF Buffers

\* The buffers never hold the last byte of a message.
LEMMA InBuffers ==
  ASSUME FInv, Stream # <<>>
  PROVE  /\ Len(received) + 1 \in 1 .. NumMessages
         /\ Len(headerBuf) + Len(payload) < MessageSize(Len(received) + 1)
         /\ \A i \in 1 .. Len(headerBuf) + Len(payload) : ~Completes(Stream[i])
         /\ headerBuf # <<>> => SizeIn(headerBuf) = payloadSize[Len(received) + 1]
<1> DEFINE n == Len(received)
           h == Len(headerBuf)
           p == Len(payload)
<1>1. /\ TypeOK /\ Buffers /\ InOrder(Stream, n) /\ n \in Nat
      /\ HeaderSize \in Nat \ {0}
  BY LenProperties, FramingAssumption DEF FInv, WholeReceived
<1>2. /\ n + 1 \in 1 .. NumMessages
      /\ \A i \in 1 .. Len(Stream) : i <= MessageSize(n + 1) => Stream[i] = At(n + 1, i - 1)
  BY <1>1, FrontIs
<1>3. /\ MessageSize(n + 1) = HeaderSize + payloadSize[n + 1] /\ payloadSize[n + 1] \in Nat
      /\ h \in Nat /\ p \in Nat /\ h <= HeaderSize /\ Len(Stream) >= h + p
      /\ Len(wire) \in Nat
  BY <1>1, <1>2, SizeType, StreamType DEF TypeOK
<1>4. headerBuf # <<>> => headerBuf[1] = Stream[1] /\ SizeIn(headerBuf) = payloadSize[n + 1]
  <2> SUFFICES ASSUME headerBuf # <<>>
               PROVE  headerBuf[1] = Stream[1] /\ SizeIn(headerBuf) = payloadSize[n + 1]
    OBVIOUS
  <2>1. h # 0
    BY <1>1, EmptySeq DEF Buffers
  <2>2. /\ (headerBuf \o payload)[1] = headerBuf[1]
        /\ Len(headerBuf \o payload) = h + p
    <3>1. 1 \in 1 .. h + p /\ 1 <= h
      BY <1>3, <2>1
    <3> QED BY <1>1, <3>1, ConcatProperties DEF Buffers
  <2>3. Stream[1] = (headerBuf \o payload)[1]
    <3>1. 1 \in 1 .. Len(headerBuf \o payload) + Len(wire) /\ 1 <= Len(headerBuf \o payload)
      BY <1>3, <2>1, <2>2
    <3> QED BY <1>1, <3>1, StreamType, ConcatProperties DEF Buffers, Stream
  <2>4. Stream[1] = At(n + 1, 0)
    BY <1>1 DEF InOrder, Starts
  <2> QED BY <2>2, <2>3, <2>4, AtIs DEF SizeIn
<1>5. h + p < MessageSize(n + 1)
  <2>1. CASE h < HeaderSize
    <3>1. p = 0
      BY <1>1, <2>1, EmptySeq DEF Buffers
    <3> QED BY <1>1, <1>3, <2>1, <3>1
  <2>2. CASE h = HeaderSize
    <3>1. headerBuf # <<>> /\ p < SizeIn(headerBuf)
      BY <1>1, <2>2, EmptySeq DEF Buffers
    <3> QED BY <1>1, <1>3, <1>4, <2>2, <3>1
  <2> QED BY <1>1, <1>3, <2>1, <2>2
<1>6. ASSUME NEW i \in 1 .. h + p PROVE ~Completes(Stream[i])
  <2> HIDE DEF n, h, p
  <2> DEFINE size == MessageSize(n + 1)
             len  == Len(Stream)
  <2>1. /\ i \in Int /\ h \in Int /\ p \in Int /\ size \in Int /\ len \in Int /\ 1 <= i
        /\ i <= h + p /\ len >= h + p /\ h + p < size
    BY <1>1, <1>3, <1>5, StreamType DEF h, p
  <2> HIDE DEF size, len
  <2>2. i \in 1 .. len /\ i <= size /\ i - 1 # size - 1
    BY <2>1
  <2>3. Stream[i] = At(n + 1, i - 1)
    BY <1>2, <2>2 DEF size, len
  <2>4. Stream[i].msg = n + 1 /\ Stream[i].off = i - 1
    BY <2>3, AtIs
  <2> QED BY <2>2, <2>4 DEF Completes, size
<1> QED BY <1>2, <1>4, <1>5, <1>6

-----------------------------------------------------------------------------
(* FInv holds initially and every step keeps it.                             *)

LEMMA Kept ==
  ASSUME TypeOK, payloadSize' = payloadSize,
         sending' \in 1 .. NumMessages + 1, totalSent' \in Nat,
         sending' <= NumMessages => totalSent' < MessageSize(sending'),
         Len(wire') <= Capacity, Len(headerBuf') <= HeaderSize,
         closed' \in BOOLEAN, ended' \in BOOLEAN,
         headerBuf' \in Seq(Byte), payload' \in Seq(Byte), wire' \in Seq(Byte),
         Len(headerBuf') < HeaderSize => payload' = <<>>,
         Len(headerBuf') = HeaderSize => Len(payload') < payloadSize[headerBuf'[1].msg],
         InOrder(Stream', Len(received')),
         ~closed' => GoesOn(Stream', Len(received'), sending', totalSent'),
         received' \in Seq(Seq(Byte)),
         \A i \in 1 .. Len(received') : i <= NumMessages /\ received'[i] = Message(i)
  PROVE  FInv'
<1>1. TypeOK'
  BY DEF TypeOK, MessageSize
<1>2. Buffers'
  BY DEF Buffers, SizeIn, Byte, MessageSize
<1>3. InOrder(Stream, Len(received))'
  BY SMTT(30) DEF InOrder, Starts, Follows, Rises, Runs, Passed, Ended, After, Completes, At, Byte,
         MessageSize
<1>4. (~closed => GoesOn(Stream, Len(received), sending, totalSent))'
  BY DEF GoesOn, Ended, After, Completes, At, MessageSize
<1>5. WholeReceived'
  <2>1. Byte' = Byte
    BY DEF Byte, MessageSize
  <2>2. \A i : Message(i)' = Message(i)
    BY DEF Message, Bytes, MessageSize
  <2> QED BY <2>1, <2>2 DEF WholeReceived, Byte, MessageSize, Message, Bytes
<1> QED BY <1>1, <1>2, <1>3, <1>4, <1>5 DEF FInv

LEMMA InitFInv == Init => FInv
<1> SUFFICES ASSUME Init PROVE FInv
  OBVIOUS
<1>1. /\ headerBuf = <<>> /\ payload = <<>> /\ wire = <<>> /\ received = <<>>
      /\ sending = 1 /\ totalSent = 0 /\ payloadSize \in [1 .. NumMessages -> Sizes]
      /\ closed = FALSE /\ ended = FALSE
  BY DEF Init
<1>2. /\ Len(headerBuf) = 0 /\ Len(wire) = 0 /\ Len(received) = 0 /\ HeaderSize \in Nat \ {0}
      /\ Capacity \in Nat \ {0}
  BY <1>1, FramingAssumption
<1>3. TypeOK
  <2>1. sending \in 1 .. NumMessages + 1
    BY <1>1, FramingAssumption
  <2>2. sending <= NumMessages => totalSent < MessageSize(sending)
    <3> SUFFICES ASSUME sending <= NumMessages PROVE totalSent < MessageSize(sending)
      OBVIOUS
    <3>1. 1 \in 1 .. NumMessages
      BY <1>1, FramingAssumption
    <3>2. payloadSize[1] \in Nat
      BY <1>1, <3>1, FramingAssumption
    <3> QED BY <1>1, <1>2, <3>2 DEF MessageSize
  <2>3. Len(wire) <= Capacity /\ Len(headerBuf) <= HeaderSize /\ totalSent \in Nat
    BY <1>1, <1>2
  <2> QED BY <1>1, <2>1, <2>2, <2>3 DEF TypeOK
<1>4. Buffers
  BY <1>1, <1>2, EmptySeq DEF Buffers
<1>5. Stream = <<>>
  <2>1. Len(Stream) = 0 /\ Stream \in Seq(Byte)
    BY <1>1, <1>4, StreamType
  <2> QED BY <2>1, EmptySeq
<1>6. InOrder(Stream, 0) /\ GoesOn(Stream, 0, 1, 0)
  <2>1. Len(Stream) = 0 /\ Stream \in Seq(Byte)
    BY <1>5, EmptySeq
  <2> QED BY <1>5, <2>1
      DEF InOrder, Starts, Follows, Rises, Runs, Passed, GoesOn
<1>7. WholeReceived
  BY <1>1, <1>2 DEF WholeReceived
<1> QED BY <1>1, <1>2, <1>3, <1>4, <1>6, <1>7 DEF FInv

\* One call of send: what it takes comes at the end.
LEMMA SendStep ==
  ASSUME FInv, SendChunk
  PROVE  FInv'
<1> DEFINE n == Len(received)
<1>1. /\ TypeOK /\ Buffers /\ InOrder(Stream, n) /\ WholeReceived /\ n \in Nat
      /\ GoesOn(Stream, n, sending, totalSent)
  BY LenProperties DEF FInv, WholeReceived, SendChunk
<1>2. /\ sending \in 1 .. NumMessages /\ totalSent \in Nat /\ NumMessages \in Nat
      /\ MessageSize(sending) \in Nat \ {0} /\ totalSent < MessageSize(sending)
  <2>1. sending \in 1 .. NumMessages
    BY <1>1, FramingAssumption DEF TypeOK, SendChunk
  <2> QED BY <1>1, <2>1, SizeType, FramingAssumption DEF TypeOK
<1>3. PICK k \in 1 .. MessageSize(sending) - totalSent :
        /\ Len(wire) + k <= Capacity
        /\ wire' = wire \o Bytes(sending, totalSent, totalSent + k)
        /\ IF totalSent + k = MessageSize(sending)
           THEN sending' = sending + 1 /\ totalSent' = 0
           ELSE totalSent' = totalSent + k /\ UNCHANGED sending
  BY DEF SendChunk
<1>4. /\ payloadSize' = payloadSize /\ closed' = closed /\ headerBuf' = headerBuf
      /\ payload' = payload /\ received' = received /\ ended' = ended /\ ~closed
  BY DEF SendChunk
<1> DEFINE u == Bytes(sending, totalSent, totalSent + k)
<1>5. /\ k \in Nat \ {0} /\ totalSent + k \in Nat /\ totalSent <= totalSent + k
      /\ totalSent + k <= MessageSize(sending) /\ sending \in Int
      /\ (totalSent + k) - totalSent = k
  BY <1>2
<1>6. /\ u \in Seq(Byte) /\ Len(u) = k
      /\ \A i \in 1 .. k : u[i] = At(sending, totalSent + (i - 1))
  <2>1. u \in Seq(Byte)
    BY <1>1, <1>2, <1>5, BytesType
  <2>2. /\ Len(u) = (totalSent + k) - totalSent
        /\ \A i \in 1 .. (totalSent + k) - totalSent : u[i] = At(sending, totalSent + (i - 1))
    BY <1>2, <1>5, BytesAre, ZenonT(40)
  <2> QED BY <1>5, <2>1, <2>2
<1> HIDE DEF u
<1>7. wire' = wire \o u
  BY <1>3 DEF u
<1>8. /\ wire' \in Seq(Byte) /\ Len(wire') = Len(wire) + k
      /\ Stream' = Stream \o u
  <2>1. wire' \in Seq(Byte) /\ Len(wire') = Len(wire) + Len(u)
    BY <1>1, <1>6, <1>7, ConcatProperties DEF Buffers
  <2>2. ((headerBuf \o payload) \o wire) \o u = (headerBuf \o payload) \o (wire \o u)
    <3> DEFINE hp == headerBuf \o payload
    <3>1. hp \in Seq(Byte) /\ wire \in Seq(Byte) /\ u \in Seq(Byte)
      BY <1>1, <1>6, StreamType DEF Buffers
    <3> HIDE DEF hp
    <3>2. (hp \o wire) \o u = hp \o (wire \o u)
      BY <3>1, ConcatAssociative
    <3> QED BY <3>2 DEF hp
  <2> QED BY <1>4, <1>6, <1>7, <2>1, <2>2 DEF Stream
<1>9. /\ Stream' \in Seq(Byte) /\ Len(Stream') = Len(Stream) + k /\ Len(Stream) \in Nat
      /\ \A i \in 1 .. Len(Stream) : Stream'[i] = Stream[i]
      /\ \A i \in Len(Stream) + 1 .. Len(Stream') :
           Stream'[i] = At(sending, totalSent + (i - (Len(Stream) + 1)))
  <2> DEFINE L == Len(Stream)
             s == Stream
             z == s \o u
  <2>1. /\ z \in Seq(Byte) /\ Len(z) = L + k /\ L \in Nat
        /\ \A i \in 1 .. L + k : z[i] = IF i <= L THEN s[i] ELSE u[i - L]
    BY <1>1, <1>6, StreamType, ConcatProperties, LenProperties, ZenonT(40)
  <2> HIDE DEF L, z
  <2>2. \A i \in 1 .. L : z[i] = s[i]
    BY <1>5, <2>1
  <2>3. ASSUME NEW i \in L + 1 .. L + k
        PROVE  z[i] = At(sending, totalSent + (i - (L + 1)))
    <3>1. i \in 1 .. L + k /\ ~(i <= L) /\ i - L \in 1 .. k /\ (i - L) - 1 = i - (L + 1)
      BY <1>5, <2>1
    <3>2. z[i] = u[i - L]
      BY <2>1, <3>1
    <3>3. u[i - L] = At(sending, totalSent + ((i - L) - 1))
      BY <1>6, <3>1
    <3> QED BY <3>1, <3>2, <3>3
  <2>4. Stream' = z
    BY <1>8 DEF z
  <2> QED BY <2>1, <2>2, <2>3, <2>4 DEF L
<1>10. /\ InOrder(Stream', n)
       /\ totalSent + k < MessageSize(sending) => GoesOn(Stream', n, sending, totalSent + k)
       /\ totalSent + k = MessageSize(sending) => GoesOn(Stream', n, sending + 1, 0)
  BY <1>1, <1>2, <1>5, <1>9, Added
<1>11. GoesOn(Stream', n, sending', totalSent')
  <2>1. CASE totalSent + k = MessageSize(sending)
    BY <1>3, <1>10, <2>1
  <2>2. CASE totalSent + k # MessageSize(sending)
    <3>1. totalSent + k < MessageSize(sending)
      BY <1>2, <1>5, <2>2
    <3>2. sending' = sending /\ totalSent' = totalSent + k
      BY <1>3, <2>2
    <3> QED BY <1>10, <3>1, <3>2
  <2> QED BY <2>1, <2>2
<1>12. /\ sending' \in 1 .. NumMessages + 1 /\ totalSent' \in Nat
       /\ sending' <= NumMessages => totalSent' < MessageSize(sending')
  <2>1. CASE totalSent + k = MessageSize(sending)
    <3>1. sending' = sending + 1 /\ totalSent' = 0
      BY <1>3, <2>1
    <3>2. sending' \in 1 .. NumMessages + 1
      BY <1>2, <3>1
    <3>3. sending' <= NumMessages => MessageSize(sending') \in Nat \ {0}
      <4> SUFFICES ASSUME sending' <= NumMessages
                   PROVE  MessageSize(sending') \in Nat \ {0}
        OBVIOUS
      <4>1. sending' \in 1 .. NumMessages
        BY <1>2, <3>2
      <4> QED BY <1>1, <4>1, SizeType
    <3> QED BY <3>1, <3>2, <3>3
  <2>2. CASE totalSent + k # MessageSize(sending)
    <3>1. sending' = sending /\ totalSent' = totalSent + k
      BY <1>3, <2>2
    <3>2. totalSent + k < MessageSize(sending)
      BY <1>2, <1>5, <2>2
    <3> QED BY <1>2, <1>5, <3>1, <3>2
  <2> QED BY <2>1, <2>2
<1>13. Len(wire') <= Capacity /\ Len(received') = n
  BY <1>3, <1>4, <1>8
<1> QED
  BY <1>1, <1>4, <1>8, <1>10, <1>11, <1>12, <1>13, Kept DEF TypeOK, Buffers, WholeReceived, SizeIn

\* Of what is in the stream, k bytes are split off its front.
LEMMA Regroup ==
  ASSUME Buffers, NEW k \in 0 .. Len(wire)
  PROVE  LET front == headerBuf \o payload \o Take(k)
             rest  == SubSeq(wire, k + 1, Len(wire))
         IN  /\ Take(k) \in Seq(Byte) /\ Len(Take(k)) = k
             /\ rest \in Seq(Byte) /\ Len(rest) = Len(wire) - k
             /\ front \in Seq(Byte) /\ Len(front) = Len(headerBuf) + Len(payload) + k
             /\ Stream = front \o rest
             /\ front = headerBuf \o (payload \o Take(k))
             /\ payload \o Take(k) \in Seq(Byte)
             /\ Len(payload \o Take(k)) = Len(payload) + k
<1> DEFINE hp == headerBuf \o payload
           t  == Take(k)
           r  == SubSeq(wire, k + 1, Len(wire))
<1>1. wire \in Seq(Byte) /\ headerBuf \in Seq(Byte) /\ payload \in Seq(Byte)
  BY DEF Buffers
<1>2. hp \in Seq(Byte) /\ Len(hp) = Len(headerBuf) + Len(payload)
  BY <1>1, ConcatProperties
<1>3. /\ t \in Seq(Byte) /\ Len(t) = k /\ r \in Seq(Byte) /\ Len(r) = Len(wire) - k
      /\ t \o r = wire
  BY <1>1, TakeDrop DEF Take
<1>4. Stream = hp \o wire
  BY DEF Stream
<1> HIDE DEF hp, t, r
<1>5. hp \o t \in Seq(Byte) /\ Len(hp \o t) = Len(hp) + k
  BY <1>2, <1>3, ConcatProperties
<1>6. (hp \o t) \o r = hp \o (t \o r)
  <2>1. hp \in Seq(Byte) /\ t \in Seq(Byte) /\ r \in Seq(Byte)
    BY <1>2, <1>3
  <2> QED BY <2>1, ConcatAssociative, SMTT(30)
<1>7. /\ (headerBuf \o payload) \o t = headerBuf \o (payload \o t)
      /\ payload \o t \in Seq(Byte) /\ Len(payload \o t) = Len(payload) + k
  <2>1. headerBuf \in Seq(Byte) /\ payload \in Seq(Byte) /\ t \in Seq(Byte)
    BY <1>1, <1>3
  <2>2. (headerBuf \o payload) \o t = headerBuf \o (payload \o t)
    BY <2>1, ConcatAssociative, SMTT(30)
  <2> QED BY <1>3, <2>1, <2>2, ConcatProperties
<1> QED BY <1>2, <1>3, <1>4, <1>5, <1>6, <1>7 DEF hp, t, r

\* The end of the sender's socket: a prefix stays.
LEMMA CloseStep ==
  ASSUME FInv, CloseSocket
  PROVE  FInv'
<1> DEFINE n == Len(received)
<1>1. /\ TypeOK /\ Buffers /\ InOrder(Stream, n) /\ WholeReceived /\ n \in Nat
  BY LenProperties DEF FInv, WholeReceived
<1>2. PICK k \in 0 .. Len(wire) : wire' = SubSeq(wire, 1, k)
  BY DEF CloseSocket
<1>3. /\ payloadSize' = payloadSize /\ closed' = TRUE /\ headerBuf' = headerBuf
      /\ payload' = payload /\ received' = received /\ ended' = ended
      /\ sending' = sending /\ totalSent' = totalSent
  BY DEF CloseSocket
<1>4. /\ wire' = Take(k) /\ wire' \in Seq(Byte) /\ Len(wire') <= Capacity
      /\ Stream' \in Seq(Byte) /\ Len(Stream') <= Len(Stream)
      /\ \A i \in 1 .. Len(Stream') : Stream'[i] = Stream[i]
  <2> DEFINE front == headerBuf \o payload \o Take(k)
             rest  == SubSeq(wire, k + 1, Len(wire))
             s     == Stream
  <2>1. /\ Take(k) \in Seq(Byte) /\ Len(Take(k)) = k
        /\ front \in Seq(Byte) /\ rest \in Seq(Byte) /\ s = front \o rest
    BY <1>1, Regroup
  <2>2. wire' = Take(k) /\ Stream' = front
    BY <1>2, <1>3 DEF Take, Stream
  <2>3. Len(wire) \in Nat /\ Len(wire) <= Capacity /\ Capacity \in Nat
    BY <1>1, LenProperties, FramingAssumption DEF Buffers, TypeOK
  <2> HIDE DEF front, rest, s
  <2>4. /\ Len(s) = Len(front) + Len(rest) /\ Len(front) \in Nat /\ Len(rest) \in Nat
        /\ \A i \in 1 .. Len(front) + Len(rest) :
             s[i] = IF i <= Len(front) THEN front[i] ELSE rest[i - Len(front)]
    BY <2>1, ConcatProperties, LenProperties
  <2>5. Len(front) <= Len(s) /\ \A i \in 1 .. Len(front) : front[i] = s[i]
    BY <2>4
  <2> QED BY <2>1, <2>2, <2>3, <2>5 DEF s
<1>5. InOrder(Stream', n)
  BY <1>1, <1>4, Cut
<1> QED
  BY <1>1, <1>3, <1>4, <1>5, Kept DEF TypeOK, Buffers, WholeReceived, SizeIn

\* receiveMessage returns the front of the stream, as long as the next message.
LEMMA ReturnStep ==
  ASSUME FInv, NEW front \in Seq(Byte), NEW rest \in Seq(Byte),
         Stream = front \o rest, Len(front) = MessageSize(Len(received) + 1),
         Stream # <<>>, Len(rest) <= Len(wire),
         Return(front), wire' = rest,
         UNCHANGED <<payloadSize, sending, totalSent, closed, ended>>
  PROVE  /\ FInv'
         /\ received' = Append(received, Message(Len(received) + 1))
         /\ Len(received') = Len(received) + 1
         /\ Len(received) + 1 \in 1 .. NumMessages
         /\ Stream' = rest
<1> DEFINE n == Len(received)
<1>1. /\ TypeOK /\ Buffers /\ InOrder(Stream, n) /\ WholeReceived /\ n \in Nat
      /\ ~closed => GoesOn(Stream, n, sending, totalSent)
      /\ received \in Seq(Seq(Byte)) /\ sending \in Nat /\ totalSent \in Nat
  BY LenProperties, FramingAssumption DEF FInv, WholeReceived, TypeOK
<1>2. /\ front = Message(n + 1) /\ n + 1 \in 1 .. NumMessages /\ InOrder(rest, n + 1)
      /\ ~closed => GoesOn(rest, n + 1, sending, totalSent)
  BY <1>1, Taken
<1>3. /\ received' = Append(received, front) /\ headerBuf' = <<>> /\ payload' = <<>>
      /\ closed' = closed /\ ended' = ended /\ sending' = sending /\ totalSent' = totalSent
      /\ payloadSize' = payloadSize
  BY DEF Return
<1>4. /\ received' \in Seq(Seq(Byte)) /\ Len(received') = n + 1
      /\ \A i \in 1 .. Len(received') : i <= NumMessages /\ received'[i] = Message(i)
  <2>1. /\ Append(received, front) \in Seq(Seq(Byte))
        /\ Len(Append(received, front)) = n + 1
        /\ \A i \in 1 .. n : Append(received, front)[i] = received[i]
        /\ Append(received, front)[n + 1] = front
    BY <1>1, AppendProperties
  <2> HIDE DEF n
  <2>2. ASSUME NEW i \in 1 .. n + 1
        PROVE  i <= NumMessages /\ Append(received, front)[i] = Message(i)
    <3>1. CASE i = n + 1
      BY <1>1, <1>2, <2>1, <3>1, FramingAssumption
    <3>2. CASE i # n + 1
      <4>1. i \in 1 .. n
        BY <1>1, <3>2
      <4> QED BY <1>1, <2>1, <4>1 DEF WholeReceived, n
    <3> QED BY <3>1, <3>2
  <2> QED BY <1>3, <2>1, <2>2
<1>5. Stream' = rest
  <2>1. <<>> \o <<>> = <<>> /\ <<>> \o rest = rest
    BY ConcatEmptySeq, EmptySeq
  <2> QED BY <1>3, <2>1 DEF Stream
<1>6. /\ Len(rest) <= Capacity /\ Len(<<>>) = 0 /\ <<>> \in Seq(Byte)
      /\ HeaderSize \in Nat \ {0}
  BY <1>1, EmptySeq, LenProperties, FramingAssumption DEF TypeOK, Buffers
<1>7. FInv'
  <2>1. /\ Len(headerBuf') < HeaderSize /\ Len(headerBuf') <= HeaderSize
        /\ Len(headerBuf') # HeaderSize /\ payload' = <<>>
        /\ headerBuf' \in Seq(Byte) /\ payload' \in Seq(Byte) /\ wire' \in Seq(Byte)
        /\ Len(wire') <= Capacity
    BY <1>3, <1>6
  <2>2. InOrder(Stream', Len(received')) /\
        (~closed' => GoesOn(Stream', Len(received'), sending', totalSent'))
    BY <1>2, <1>3, <1>4, <1>5
  <2> QED BY <1>1, <1>3, <1>4, <2>1, <2>2, Kept DEF TypeOK
<1> QED BY <1>2, <1>3, <1>4, <1>5, <1>7

\* A call of recv that returns no message moves bytes into the buffers.
LEMMA MoveStep ==
  ASSUME FInv,
         UNCHANGED <<payloadSize, sending, totalSent, closed, ended, received>>,
         Stream' = Stream, Len(wire') <= Len(wire), Len(headerBuf') <= HeaderSize,
         headerBuf' \in Seq(Byte), payload' \in Seq(Byte), wire' \in Seq(Byte),
         Len(headerBuf') < HeaderSize => payload' = <<>>,
         Len(headerBuf') = HeaderSize => Len(payload') < payloadSize[headerBuf'[1].msg]
  PROVE  FInv'
<1>1. /\ TypeOK /\ InOrder(Stream, Len(received)) /\ WholeReceived
      /\ ~closed => GoesOn(Stream, Len(received), sending, totalSent)
      /\ wire \in Seq(Byte)
  BY DEF FInv, Buffers
<1>2. Len(wire') <= Capacity
  BY <1>1, LenProperties, FramingAssumption DEF TypeOK
<1> QED BY <1>1, <1>2, Kept DEF TypeOK, WholeReceived

\* What a step leaves of the messages under way: a call of recv hands none, or
\* the next one, to the caller.
Gives ==
  /\ received' = Append(received, Message(Len(received) + 1))
  /\ Len(received') = Len(received) + 1 /\ Len(received) + 1 \in 1 .. NumMessages
  /\ \E front \in Seq(Byte) :
       /\ Stream = front \o Stream' /\ Len(front) = MessageSize(Len(received) + 1)
       /\ Stream' \in Seq(Byte)
Keeps == received' = received /\ Stream' = Stream

LEMMA HeaderStep ==
  ASSUME FInv, RecvHeader
  PROVE  FInv' /\ (Gives \/ Keeps)
<1> DEFINE n == Len(received)
<1>1. /\ TypeOK /\ Buffers /\ InOrder(Stream, n) /\ WholeReceived /\ n \in Nat
      /\ HeaderSize \in Nat \ {0} /\ Len(headerBuf) < HeaderSize /\ payload = <<>>
      /\ Len(headerBuf) \in Nat /\ Len(wire) \in Nat
  BY LenProperties, FramingAssumption DEF FInv, WholeReceived, RecvHeader, Buffers
<1>2. PICK k \in 1 .. HeaderSize - Len(headerBuf) :
        /\ k <= Len(wire)
        /\ LET header == headerBuf \o Take(k)
           IN  IF Len(header) = HeaderSize /\ SizeIn(header) = 0
               THEN Return(header)
               ELSE headerBuf' = header /\ UNCHANGED <<payload, received>>
        /\ Drop(k)
  BY DEF RecvHeader
<1>3. UNCHANGED <<payloadSize, sending, totalSent, closed, ended>>
  BY DEF RecvHeader
<1> DEFINE header == headerBuf \o Take(k)
           rest   == SubSeq(wire, k + 1, Len(wire))
<1>4. k \in 0 .. Len(wire) /\ k \in Nat \ {0} /\ k <= HeaderSize - Len(headerBuf)
  BY <1>1, <1>2
<1>5. headerBuf \o payload = headerBuf
  BY <1>1, ConcatEmptySeq DEF Buffers
<1>6. /\ header \in Seq(Byte) /\ Len(header) = Len(headerBuf) + k
      /\ rest \in Seq(Byte) /\ Len(rest) = Len(wire) - k
      /\ Stream = header \o rest
  <2>1. Len(payload) = 0
    BY <1>1
  <2>2. /\ headerBuf \o payload \o Take(k) \in Seq(Byte)
        /\ Len(headerBuf \o payload \o Take(k)) = Len(headerBuf) + Len(payload) + k
        /\ rest \in Seq(Byte) /\ Len(rest) = Len(wire) - k
        /\ Stream = (headerBuf \o payload \o Take(k)) \o rest
    BY <1>1, <1>4, Regroup
  <2>3. headerBuf \o payload \o Take(k) = header
    BY <1>5
  <2> HIDE DEF header, rest
  <2>4. /\ header \in Seq(Byte) /\ Len(header) = Len(headerBuf) + Len(payload) + k
        /\ Stream = header \o rest /\ rest \in Seq(Byte) /\ Len(rest) = Len(wire) - k
    BY <2>2, <2>3
  <2>5. Len(headerBuf) + Len(payload) + k = Len(headerBuf) + k
    BY <1>1, <1>4, <2>1
  <2> QED BY <2>4, <2>5
<1>7. wire' = rest
  BY <1>2 DEF Drop
<1>8. IF Len(header) = HeaderSize /\ SizeIn(header) = 0
      THEN Return(header)
      ELSE headerBuf' = header /\ UNCHANGED <<payload, received>>
  BY <1>2
<1> HIDE DEF header, rest
<1>9. /\ Len(header) \in Nat \ {0} /\ Len(header) <= HeaderSize /\ Len(rest) \in Nat
      /\ Len(rest) <= Len(wire) /\ Stream # <<>> /\ Stream[1] = header[1]
  <2>1. /\ Len(header) \in Nat \ {0} /\ Len(header) <= HeaderSize /\ Len(rest) \in Nat
        /\ Len(rest) <= Len(wire)
    BY <1>1, <1>4, <1>6
  <2>2. /\ Len(Stream) = Len(header) + Len(rest)
        /\ \A i \in 1 .. Len(header) + Len(rest) :
             Stream[i] = IF i <= Len(header) THEN header[i] ELSE rest[i - Len(header)]
    BY <1>6, ConcatProperties
  <2>3. 1 \in 1 .. Len(header) + Len(rest) /\ 1 <= Len(header) /\ Len(Stream) # 0
    BY <2>1, <2>2
  <2>4. Len(<<>>) = 0
    OBVIOUS
  <2> QED BY <2>1, <2>2, <2>3, <2>4
<1>10. /\ header[1].msg = n + 1 /\ n + 1 \in 1 .. NumMessages
       /\ SizeIn(header) = payloadSize[n + 1] /\ payloadSize[n + 1] \in Nat
       /\ MessageSize(n + 1) = HeaderSize + payloadSize[n + 1]
  <2>1. header[1] = At(n + 1, 0)
    BY <1>1, <1>9 DEF InOrder, Starts
  <2>2. n + 1 \in 1 .. NumMessages
    BY <1>1, <1>9, FrontIs
  <2> QED BY <1>1, <2>1, <2>2, AtIs, SizeType DEF SizeIn
<1>11. CASE Len(header) = HeaderSize /\ SizeIn(header) = 0
  <2>1. Return(header) /\ Len(header) = MessageSize(n + 1)
    BY <1>1, <1>8, <1>10, <1>11
  <2>2. /\ FInv'
        /\ received' = Append(received, Message(Len(received) + 1))
        /\ Len(received') = Len(received) + 1
        /\ Len(received) + 1 \in 1 .. NumMessages
        /\ Stream' = rest
    BY <1>3, <1>6, <1>7, <1>9, <2>1, ReturnStep
  <2> QED BY <1>6, <2>1, <2>2 DEF Gives
<1>12. CASE ~(Len(header) = HeaderSize /\ SizeIn(header) = 0)
  <2>1. headerBuf' = header /\ payload' = <<>> /\ received' = received
    BY <1>1, <1>8, <1>12
  <2>2. Stream' = Stream
    <3>1. header \o <<>> = header
      BY <1>6, ConcatEmptySeq
    <3> QED BY <1>6, <1>7, <2>1, <3>1 DEF Stream
  <2>3. /\ payload' \in Seq(Byte) /\ Len(payload') = 0
        /\ headerBuf' \in Seq(Byte) /\ wire' \in Seq(Byte)
        /\ Len(wire') <= Len(wire) /\ Len(headerBuf') <= HeaderSize
    BY <1>6, <1>7, <1>9, <2>1, EmptySeq
  <2>4. Len(headerBuf') = HeaderSize => Len(payload') < payloadSize[headerBuf'[1].msg]
    BY <1>10, <1>12, <2>1, <2>3
  <2>5. FInv'
    BY <1>3, <2>1, <2>2, <2>3, <2>4, MoveStep
  <2> QED BY <2>1, <2>2, <2>5 DEF Keeps
<1> QED BY <1>11, <1>12

LEMMA PayloadStep ==
  ASSUME FInv, RecvPayload
  PROVE  FInv' /\ (Gives \/ Keeps)
<1> DEFINE n == Len(received)
<1>1. /\ TypeOK /\ Buffers /\ InOrder(Stream, n) /\ WholeReceived /\ n \in Nat
      /\ HeaderSize \in Nat \ {0} /\ Len(headerBuf) = HeaderSize
      /\ Len(payload) \in Nat /\ Len(wire) \in Nat
  BY LenProperties, FramingAssumption DEF FInv, WholeReceived, RecvPayload, Buffers
<1>2. PICK k \in 1 .. SizeIn(headerBuf) - Len(payload) :
        /\ k <= Len(wire)
        /\ IF Len(payload) + k = SizeIn(headerBuf)
           THEN Return(headerBuf \o payload \o Take(k))
           ELSE payload' = payload \o Take(k) /\ UNCHANGED <<headerBuf, received>>
        /\ Drop(k)
  BY DEF RecvPayload
<1>3. UNCHANGED <<payloadSize, sending, totalSent, closed, ended>>
  BY DEF RecvPayload
<1>4. Stream # <<>>
  <2>1. Len(Stream) # 0 /\ Len(<<>>) = 0
    BY <1>1, StreamType
  <2> QED BY <2>1
<1>5. /\ n + 1 \in 1 .. NumMessages /\ SizeIn(headerBuf) = payloadSize[n + 1]
      /\ payloadSize[n + 1] \in Nat /\ MessageSize(n + 1) = HeaderSize + payloadSize[n + 1]
  <2>1. headerBuf # <<>> /\ n + 1 \in 1 .. NumMessages
    <3>1. Len(<<>>) = 0
      OBVIOUS
    <3> QED BY <1>1, <1>4, <3>1, InBuffers
  <2> QED BY <1>1, <1>4, <2>1, InBuffers, SizeType
<1>6. k \in 0 .. Len(wire) /\ k \in Nat \ {0} /\ Len(payload) + k <= SizeIn(headerBuf)
  BY <1>1, <1>2, <1>5
<1> DEFINE front == headerBuf \o payload \o Take(k)
           more  == payload \o Take(k)
           rest  == SubSeq(wire, k + 1, Len(wire))
<1>7. /\ front \in Seq(Byte) /\ Len(front) = HeaderSize + Len(payload) + k
      /\ rest \in Seq(Byte) /\ Len(rest) = Len(wire) - k
      /\ Stream = front \o rest /\ front = headerBuf \o more
      /\ more \in Seq(Byte) /\ Len(more) = Len(payload) + k
  BY <1>1, <1>6, Regroup
<1>8. wire' = rest
  BY <1>2 DEF Drop
<1>9. IF Len(payload) + k = SizeIn(headerBuf)
      THEN Return(front)
      ELSE payload' = more /\ UNCHANGED <<headerBuf, received>>
  BY <1>2
<1> HIDE DEF front, more, rest
<1>10. Len(rest) <= Len(wire)
  BY <1>1, <1>6, <1>7
<1>11. CASE Len(payload) + k = SizeIn(headerBuf)
  <2>1. Return(front) /\ Len(front) = MessageSize(n + 1)
    BY <1>1, <1>5, <1>6, <1>7, <1>9, <1>11
  <2>2. /\ FInv'
        /\ received' = Append(received, Message(Len(received) + 1))
        /\ Len(received') = Len(received) + 1
        /\ Len(received) + 1 \in 1 .. NumMessages
        /\ Stream' = rest
    BY <1>3, <1>4, <1>7, <1>8, <1>10, <2>1, ReturnStep
  <2> QED BY <1>7, <2>1, <2>2 DEF Gives
<1>12. CASE Len(payload) + k # SizeIn(headerBuf)
  <2>1. headerBuf' = headerBuf /\ payload' = more /\ received' = received
    BY <1>9, <1>12
  <2>2. Stream' = Stream
    BY <1>7, <1>8, <2>1 DEF Stream
  <2>3. Len(payload') < payloadSize[headerBuf'[1].msg]
    BY <1>1, <1>5, <1>6, <1>7, <1>12, <2>1, SMTT(30) DEF SizeIn
  <2>4. /\ payload' \in Seq(Byte) /\ headerBuf' \in Seq(Byte) /\ wire' \in Seq(Byte)
        /\ Len(wire') <= Len(wire) /\ Len(headerBuf') <= HeaderSize
        /\ ~(Len(headerBuf') < HeaderSize)
    BY <1>1, <1>7, <1>8, <1>10, <2>1 DEF Buffers
  <2>5. FInv'
    BY <1>3, <2>1, <2>2, <2>3, <2>4, MoveStep
  <2> QED BY <2>1, <2>2, <2>5 DEF Keeps
<1> QED BY <1>11, <1>12

LEMMA EndStep ==
  ASSUME FInv, RecvEnd
  PROVE  FInv' /\ Keeps
<1>1. /\ UNCHANGED <<payloadSize, sending, totalSent, wire, closed, headerBuf, payload,
                     received>>
      /\ ended' \in BOOLEAN
  BY DEF RecvEnd
<1>2. Stream' = Stream
  BY <1>1 DEF Stream
<1>3. FInv'
  BY <1>1, <1>2, Kept DEF FInv, TypeOK, Buffers, WholeReceived, SizeIn
<1> QED BY <1>1, <1>2, <1>3 DEF Keeps

LEMMA FInvStep == FInv /\ [Next]_vars => FInv'
<1> SUFFICES ASSUME FInv, [Next]_vars PROVE FInv'
  OBVIOUS
<1>1. CASE SendChunk
  BY <1>1, SendStep
<1>2. CASE CloseSocket
  BY <1>2, CloseStep
<1>3. CASE RecvHeader
  BY <1>3, HeaderStep
<1>4. CASE RecvPayload
  BY <1>4, PayloadStep
<1>5. CASE RecvEnd
  BY <1>5, EndStep
<1>6. CASE UNCHANGED vars
  <2>1. UNCHANGED vars /\ Stream' = Stream
    BY <1>6 DEF vars, Stream
  <2> QED BY <2>1, Kept DEF vars, FInv, TypeOK, Buffers, WholeReceived, SizeIn
<1> QED BY <1>1, <1>2, <1>3, <1>4, <1>5, <1>6 DEF Next, Receiver

LEMMA FInvHolds == Spec => []FInv
<1>1. Init => FInv
  BY InitFInv
<1>2. FInv /\ [Next]_vars => FInv'
  BY FInvStep
<1> QED BY <1>1, <1>2, PTL DEF Spec

-----------------------------------------------------------------------------
(* The results.                                                              *)

\* Every variable has its type and the stream is never over its capacity,
\* whatever the sizes of the messages and of the calls of send and recv.
THEOREM FramingType == Spec => []TypeOK
<1>1. FInv => TypeOK
  BY DEF FInv
<1> QED BY <1>1, FInvHolds, PTL

\* The stream and the receiver's buffers together always continue where the
\* last returned message stopped.
THEOREM BytesInPlace == Spec => []NothingOutOfPlace
<1>1. FInv => NothingOutOfPlace
  <2> SUFFICES ASSUME FInv PROVE NothingOutOfPlace
    OBVIOUS
  <2>1. Starts(Stream, Len(received)) /\ Follows(Stream) /\ Len(Stream) \in Nat
    BY LenProperties DEF FInv, InOrder
  <2> SUFFICES ASSUME NEW i \in 1 .. Len(Stream)
               PROVE  IF i = 1 THEN Stream[i] = At(Len(received) + 1, 0)
                      ELSE Stream[i] = After(Stream[i - 1])
    BY DEF NothingOutOfPlace, Stream, After, At
  <2>2. CASE i = 1
    <3>1. Len(<<>>) = 0
      OBVIOUS
    <3>2. Stream # <<>>
      BY <2>1, <2>2, <3>1
    <3> QED BY <2>1, <2>2, <3>2 DEF Starts
  <2>3. CASE i # 1
    <3>1. i - 1 \in 1 .. Len(Stream) /\ i = (i - 1) + 1
      BY <2>1, <2>3
    <3> QED BY <2>1, <2>3, <3>1 DEF Follows
  <2> QED BY <2>2, <2>3
<1> QED BY <1>1, FInvHolds, PTL

-----------------------------------------------------------------------------
(* The bytes implement the channel.                                          *)

\* The last message of which all bytes are on their way or were received.
Last == IF Stream = <<>> THEN Len(received)
        ELSE LET b == Stream[Len(Stream)] IN IF Completes(b) THEN b.msg ELSE b.msg - 1

Delivered == [i \in 1 .. Len(received) |-> Returned(received[i])]

\* The state of the channel that the bytes stand for.
ChannelState ==
  /\ Len(received) \in Nat /\ Last \in Int /\ Len(received) <= Last
  /\ Whole = Len(received) + 1 .. Last
  /\ OnWay = [i \in 1 .. Last - Len(received) |-> Len(received) + i]
  /\ ~closed => Last = sending - 1
  /\ Delivered = [i \in 1 .. Len(received) |-> i]

LEMMA ChannelStateHolds == FInv => ChannelState
<1> SUFFICES ASSUME FInv PROVE ChannelState
  OBVIOUS
<1> DEFINE n == Len(received)
           L == Len(Stream)
           s == Stream
           q == Len(headerBuf) + Len(payload)
<1>1. /\ TypeOK /\ Buffers /\ InOrder(s, n) /\ n \in Nat /\ WholeReceived
      /\ ~closed => GoesOn(s, n, sending, totalSent)
      /\ sending \in Int
  BY LenProperties, FramingAssumption DEF FInv, WholeReceived, TypeOK
<1>2. /\ s \in Seq(Byte) /\ L = q + Len(wire) /\ q \in Nat /\ Len(wire) \in Nat /\ L \in Nat
      /\ s = (headerBuf \o payload) \o wire /\ Len(headerBuf \o payload) = q
      /\ headerBuf \o payload \in Seq(Byte) /\ wire \in Seq(Byte)
  <2>1. Len(headerBuf \o payload) = q
    BY <1>1, ConcatProperties DEF Buffers
  <2>2. /\ headerBuf \o payload \in Seq(Byte) /\ s \in Seq(Byte)
        /\ Len(headerBuf) \in Nat /\ Len(payload) \in Nat /\ Len(wire) \in Nat
        /\ L = Len(headerBuf) + Len(payload) + Len(wire)
    BY <1>1, StreamType
  <2> QED BY <1>1, <2>1, <2>2 DEF Buffers, Stream
<1>3. \A j \in 1 .. Len(wire) : j + q \in 1 .. L /\ wire[j] = s[j + q]
  <2> SUFFICES ASSUME NEW j \in 1 .. Len(wire)
               PROVE  j + q \in 1 .. L /\ wire[j] = s[j + q]
    OBVIOUS
  <2> HIDE DEF s, q, L
  <2>1. j + q \in 1 .. q + Len(wire) /\ ~(j + q <= q) /\ (j + q) - q = j
    BY <1>2
  <2>2. ((headerBuf \o payload) \o wire)[j + q] = wire[(j + q) - q]
    BY <1>2, <2>1, ConcatProperties
  <2> QED BY <1>2, <2>1, <2>2
<1>4. \A i \in 1 .. L : Completes(s[i]) => i - q \in 1 .. Len(wire) /\ wire[i - q] = s[i]
  <2> SUFFICES ASSUME NEW i \in 1 .. L, Completes(s[i])
               PROVE  i - q \in 1 .. Len(wire) /\ wire[i - q] = s[i]
    OBVIOUS
  <2>1. s # <<>>
    BY <1>2, EmptySeq
  <2>2. ~(i \in 1 .. q)
    BY <2>1, InBuffers
  <2> HIDE DEF s, q, L
  <2>3. i - q \in 1 .. Len(wire) /\ (i - q) + q = i
    BY <1>2, <2>2
  <2> QED BY <1>3, <2>3
<1> HIDE DEF s, q, L
<1>5. \A i \in 1 .. L : /\ s[i] \in Byte /\ s[i].msg \in Int /\ s[i].off \in Int
                        /\ n + 1 <= s[i].msg /\ s[i].msg <= s[L].msg
  <2> SUFFICES ASSUME NEW i \in 1 .. L
               PROVE  /\ s[i] \in Byte /\ s[i].msg \in Int /\ s[i].off \in Int
                      /\ n + 1 <= s[i].msg /\ s[i].msg <= s[L].msg
    OBVIOUS
  <2>1. 1 \in 1 .. L /\ L \in 1 .. L /\ 1 <= i /\ i <= L
    BY <1>2
  <2>2. s[i] \in Byte
    BY <1>2, ElementOfSeq DEF L, s
  <2>3. s # <<>>
    BY <1>2, <2>1, EmptySeq DEF L, s
  <2>4. s[1].msg = n + 1
    BY <1>1, <2>3, AtIs DEF InOrder, Starts
  <2>5. s[1].msg <= s[i].msg /\ s[i].msg <= s[L].msg
    BY <1>1, <2>1 DEF InOrder, Rises, L, s
  <2>6. s[i].msg \in Int /\ s[i].off \in Int
    BY <1>1, <2>2, ByteFacts
  <2> QED BY <2>2, <2>4, <2>5, <2>6
<1>6. Last = IF s = <<>> THEN n
             ELSE IF Completes(s[L]) THEN s[L].msg ELSE s[L].msg - 1
  BY DEF Last, s, L
<1>7. s = <<>> <=> L = 0
  BY <1>2, EmptySeq DEF L, s
<1>8. Last \in Int /\ n <= Last
  <2>1. CASE s = <<>>
    BY <1>1, <1>6, <2>1
  <2>2. CASE s # <<>>
    <3>1. L \in 1 .. L
      BY <1>2, <1>7, <2>2
    <3>2. s[L].msg \in Int /\ n + 1 <= s[L].msg
      BY <1>5, <3>1
    <3> QED BY <1>1, <1>6, <2>2, <3>2
  <2> QED BY <2>1, <2>2
<1>9. ASSUME NEW j \in 1 .. Len(wire), Completes(wire[j])
      PROVE  wire[j].msg \in n + 1 .. Last
  <2> DEFINE i == j + q
  <2>1. i \in 1 .. L /\ Completes(s[i]) /\ wire[j] = s[i]
    BY <1>3, <1>9
  <2> HIDE DEF i
  <2>2. /\ s # <<>> /\ L \in 1 .. L /\ s[i].msg \in Int /\ s[L].msg \in Int
        /\ n + 1 <= s[i].msg /\ s[i].msg <= s[L].msg
    <3>1. s # <<>> /\ L \in 1 .. L
      BY <1>2, <1>7, <2>1
    <3> QED BY <1>5, <2>1, <3>1
  <2>3. CASE Completes(s[L])
    BY <1>1, <1>6, <2>1, <2>2, <2>3
  <2>4. CASE ~Completes(s[L])
    <3>1. i # L /\ i + 1 \in 1 .. L
      BY <1>2, <2>1, <2>4, SMTT(30)
    <3>2. s[i + 1] = At(s[i].msg + 1, 0)
      <4>1. s[i + 1] = After(s[i])
        BY <1>1, <2>1, <3>1 DEF InOrder, Follows, L, s
      <4> QED BY <2>1, <4>1 DEF After
    <3>3. s[i].msg + 1 <= s[L].msg
      BY <1>5, <3>1, <3>2, AtIs
    <3> QED BY <1>1, <1>6, <2>1, <2>2, <2>4, <3>3
  <2> QED BY <2>3, <2>4
<1>10. ASSUME NEW m \in n + 1 .. Last
       PROVE  \E j \in 1 .. Len(wire) : Completes(wire[j]) /\ wire[j].msg = m
  <2>1. s # <<>> /\ L \in 1 .. L /\ s[L].msg \in Int
    <3>1. s # <<>>
      BY <1>1, <1>6
    <3>2. L \in 1 .. L
      BY <1>2, <1>7, <3>1
    <3> QED BY <1>5, <3>1, <3>2
  <2>2. \E i \in 1 .. L : Completes(s[i]) /\ s[i].msg = m
    <3>1. CASE m = s[L].msg /\ Completes(s[L])
      BY <2>1, <3>1
    <3>2. CASE ~(m = s[L].msg /\ Completes(s[L]))
      <4>1. m \in n + 1 .. s[L].msg - 1
        BY <1>1, <1>6, <1>8, <2>1, <3>2
      <4>2. Ended(s, m, L)
        BY <1>1, <2>1, <4>1 DEF InOrder, Passed, L, s
      <4> QED BY <4>2 DEF Ended
    <3> QED BY <3>1, <3>2
  <2> QED BY <1>4, <2>2
<1>11. Whole = n + 1 .. Last
  <2>1. Whole \subseteq n + 1 .. Last
    BY <1>9 DEF Whole
  <2>2. n + 1 .. Last \subseteq Whole
    BY <1>10 DEF Whole
  <2> QED BY <2>1, <2>2
<1>12. Cardinality(Whole) = Last - n
  <2>1. n + 1 \in Int
    BY <1>1
  <2>2. Cardinality(n + 1 .. Last) = IF n + 1 > Last THEN 0 ELSE Last - (n + 1) + 1
    BY <1>8, <2>1, FS_Interval
  <2> HIDE DEF n
  <2> QED BY <1>1, <1>8, <1>11, <2>2
<1>13. ASSUME ~closed PROVE Last = sending - 1
  <2>1. CASE s = <<>>
    <3>1. sending = n + 1
      BY <1>1, <1>13, <2>1 DEF GoesOn
    <3> QED BY <1>1, <1>6, <2>1, <3>1
  <2>2. CASE s # <<>>
    <3>1. L \in 1 .. L /\ s[L].msg \in Int
      <4>1. L \in 1 .. L
        BY <1>2, <1>7, <2>2
      <4> QED BY <1>5, <4>1
    <3>2. At(sending, totalSent) = After(s[L])
      BY <1>1, <1>13, <2>2 DEF GoesOn, L, s
    <3>3. CASE Completes(s[L])
      <4>1. sending = s[L].msg + 1
        BY <3>2, <3>3, AtIs DEF After
      <4> QED BY <1>6, <2>2, <3>1, <3>3, <4>1
    <3>4. CASE ~Completes(s[L])
      <4>1. sending = s[L].msg
        BY <3>2, <3>4, AtIs DEF After
      <4> QED BY <1>6, <2>2, <3>4, <4>1
    <3> QED BY <3>3, <3>4
  <2> QED BY <2>1, <2>2
<1>14. Delivered = [i \in 1 .. n |-> i]
  <2> SUFFICES ASSUME NEW i \in 1 .. n PROVE Returned(received[i]) = i
    BY DEF Delivered
  <2>1. i \in 1 .. NumMessages /\ received[i] = Message(i)
    <3>1. i <= NumMessages /\ received[i] = Message(i)
      BY <1>1 DEF WholeReceived
    <3> QED BY <1>1, <3>1, FramingAssumption
  <2>2. MessageSize(i) \in Nat \ {0} /\ i \in Int
    BY <1>1, <2>1, SizeType
  <2>3. Message(i)[1] = At(i, 0)
    <3>1. /\ 0 \in Nat /\ MessageSize(i) \in Nat /\ 0 <= MessageSize(i)
          /\ 1 \in 1 .. MessageSize(i) - 0 /\ 0 + (1 - 1) = 0
      BY <2>2
    <3>2. \A k \in 1 .. MessageSize(i) - 0 :
            Bytes(i, 0, MessageSize(i))[k] = At(i, 0 + (k - 1))
      BY <2>2, <3>1, BytesAre
    <3>3. Bytes(i, 0, MessageSize(i))[1] = At(i, 0)
      BY <3>1, <3>2
    <3> QED BY <3>3 DEF Message
  <2> QED BY <2>1, <2>3, AtIs DEF Returned
<1>15. OnWay = [i \in 1 .. Last - n |-> n + i]
  BY <1>12 DEF OnWay
<1> QED BY <1>1, <1>8, <1>11, <1>13, <1>14, <1>15 DEF ChannelState

\* A call of recv that returns nothing leaves the channel as it is.
LEMMA KeepsLast ==
  ASSUME Keeps, payloadSize' = payloadSize
  PROVE  Last' = Last /\ Len(received)' = Len(received)
BY DEF Keeps, Last, Completes, MessageSize

\* One that returns a message takes the first of the channel.
LEMMA GivesLast ==
  ASSUME FInv, ChannelState, Gives, payloadSize' = payloadSize
  PROVE  Last' = Last
<1> DEFINE n == Len(received)
<1>1. PICK front \in Seq(Byte) :
        /\ Stream = front \o Stream' /\ Len(front) = MessageSize(n + 1)
        /\ Stream' \in Seq(Byte)
  BY DEF Gives
<1> DEFINE z == Stream'
           s == Stream
           k == Len(front)
<1>2. /\ n \in Nat /\ n + 1 \in 1 .. NumMessages /\ TypeOK /\ InOrder(s, n)
      /\ Len(received)' = n + 1
  BY DEF FInv, ChannelState, Gives
<1>3. k \in Nat \ {0} /\ k = MessageSize(n + 1) /\ Len(z) \in Nat
  BY <1>1, <1>2, SizeType, LenProperties
<1>4. /\ Len(s) = k + Len(z)
      /\ \A i \in 1 .. k + Len(z) : s[i] = IF i <= k THEN front[i] ELSE z[i - k]
  BY <1>1, ConcatProperties
<1>5. Last = LET b == s[Len(s)] IN IF Completes(b) THEN b.msg ELSE b.msg - 1
  <2>1. Len(s) # 0 /\ Len(<<>>) = 0
    BY <1>3, <1>4
  <2>2. s # <<>>
    BY <2>1
  <2> QED BY <2>2 DEF Last
<1>6. Last' = IF z = <<>> THEN n + 1
              ELSE LET b == z[Len(z)] IN IF Completes(b) THEN b.msg ELSE b.msg - 1
  BY <1>2 DEF Last, Completes, MessageSize
<1>7. z = <<>> <=> Len(z) = 0
  BY <1>1, EmptySeq
<1> HIDE DEF z, k
<1>8. CASE z = <<>>
  <2>1. Len(s) = k /\ Len(s) \in 1 .. Len(s) /\ Len(s) <= MessageSize(n + 1)
    BY <1>3, <1>4, <1>7, <1>8
  <2>2. s # <<>>
    <3>1. Len(<<>>) = 0
      OBVIOUS
    <3> QED BY <1>3, <2>1, <3>1
  <2>3. s[Len(s)] = At(n + 1, Len(s) - 1)
    BY <1>2, <2>1, <2>2, FrontIs
  <2>4. Completes(s[Len(s)]) /\ s[Len(s)].msg = n + 1
    BY <1>3, <2>1, <2>3, AtIs DEF Completes
  <2> QED BY <1>5, <1>6, <1>8, <2>4
<1>9. CASE z # <<>>
  <2>1. Len(s) \in 1 .. k + Len(z) /\ ~(Len(s) <= k) /\ Len(s) - k = Len(z)
    BY <1>3, <1>4, <1>7, <1>9
  <2>2. s[Len(s)] = z[Len(z)]
    BY <1>4, <2>1
  <2> QED BY <1>5, <1>6, <1>9, <2>2
<1> QED BY <1>8, <1>9

\* What is left of the stream when the sender's socket is closed has no message
\* that was not there.
LEMMA CloseLast ==
  ASSUME ChannelState, ChannelState', Buffers, CloseSocket
  PROVE  Last' <= Last /\ Len(received)' = Len(received)
<1>1. PICK k \in 0 .. Len(wire) : wire' = SubSeq(wire, 1, k)
  BY DEF CloseSocket
<1>2. payloadSize' = payloadSize /\ received' = received
  BY DEF CloseSocket
<1>3. /\ Len(wire') = k /\ Len(wire) \in Nat
      /\ \A i \in 1 .. k : i \in 1 .. Len(wire) /\ wire'[i] = wire[i]
  <2>1. wire \in Seq(Byte) /\ Len(wire) \in Nat
    BY LenProperties DEF Buffers
  <2>2. /\ Len(SubSeq(wire, 1, k)) = k
        /\ \A i \in 1 .. k : SubSeq(wire, 1, k)[i] = wire[i]
    BY <2>1, TakeDrop
  <2> QED BY <1>1, <2>1, <2>2
<1>4. Whole' \subseteq Whole
  <2>1. Whole' = {wire'[i].msg : i \in {j \in 1 .. Len(wire') : Completes(wire'[j])}}
    BY <1>2 DEF Whole, Completes, MessageSize
  <2>2. ASSUME NEW j \in 1 .. k, Completes(wire'[j])
        PROVE  wire'[j].msg \in Whole
    BY <1>3, <2>2 DEF Whole
  <2> QED BY <1>3, <2>1, <2>2
<1>5. /\ Len(received) \in Nat /\ Last \in Int /\ Last' \in Int /\ Len(received) <= Last
      /\ Whole = Len(received) + 1 .. Last /\ Whole' = Len(received)' + 1 .. Last'
  BY DEF ChannelState
<1> QED BY <1>2, <1>4, <1>5

LEMMA InitChannel == Init => Abstract!Init
<1> SUFFICES ASSUME Init PROVE Abstract!Init
  OBVIOUS
<1>1. /\ wire = <<>> /\ received = <<>> /\ sending = 1 /\ closed = FALSE /\ ended = FALSE
      /\ Len(<<>>) = 0
  BY DEF Init
<1>2. OnWay = <<>>
  <2>1. Whole = {}
    BY <1>1 DEF Whole
  <2>2. Cardinality(Whole) = 0
    BY <2>1, FS_EmptySet
  <2> QED BY <2>2 DEF OnWay
<1>3. [i \in 1 .. Len(received) |-> Returned(received[i])] = <<>>
  BY <1>1
<1> QED BY <1>1, <1>2, <1>3 DEF Abstract!Init

LEMMA ChannelStep ==
  ASSUME FInv, FInv', ChannelState, ChannelState', [Next]_vars
  PROVE  [Abstract!Next]_Abstract!vars
<1> DEFINE n == Len(received)
           W == Last - n
<1>1. /\ n \in Nat /\ Last \in Int /\ n <= Last /\ W \in Nat
      /\ OnWay = [i \in 1 .. W |-> n + i]
      /\ Delivered = [i \in 1 .. n |-> i]
      /\ ~closed => Last = sending - 1
  BY DEF ChannelState
<1>2. /\ n' \in Nat /\ Last' \in Int /\ n' <= Last'
      /\ OnWay' = [i \in 1 .. Last' - n' |-> n' + i]
      /\ Delivered' = [i \in 1 .. n' |-> i]
      /\ ~closed' => Last' = sending' - 1
  BY DEF ChannelState
<1>3. /\ OnWay \in Seq(Nat) /\ Len(OnWay) = W /\ Delivered \in Seq(Nat)
      /\ Len(Delivered) = n
  <2>1. OnWay \in [1 .. W -> Nat] /\ Delivered \in [1 .. n -> Nat]
    BY <1>1
  <2> QED BY <1>1, <2>1, AsSeq
<1> USE DEF Delivered
<1>4. sending \in 1 .. NumMessages + 1 /\ NumMessages \in Nat
  BY FramingAssumption DEF FInv, TypeOK
<1>5. ASSUME n' = n, Last' = Last, UNCHANGED <<sending, closed, ended>>
      PROVE  UNCHANGED Abstract!vars
  BY <1>1, <1>2, <1>5 DEF Abstract!vars
<1>6. CASE SendChunk
  <2>1. /\ ~closed /\ closed' = closed /\ ended' = ended /\ received' = received
        /\ sending <= NumMessages /\ (sending' = sending + 1 \/ sending' = sending)
    BY <1>6 DEF SendChunk
  <2>2. CASE sending' = sending
    <3>1. Last' = Last /\ n' = n
      BY <1>1, <1>2, <2>1, <2>2
    <3> QED BY <1>5, <2>1, <2>2, <3>1
  <2>3. CASE sending' = sending + 1
    <3>1. Last' = Last + 1 /\ n' = n /\ n + (W + 1) = sending /\ Last' - n' = W + 1
      BY <1>1, <1>2, <1>4, <2>1, <2>3
    <3>2. OnWay' = Append(OnWay, sending)
      <4>1. /\ Append(OnWay, sending) \in Seq(Nat)
            /\ Len(Append(OnWay, sending)) = W + 1
            /\ \A i \in 1 .. W : Append(OnWay, sending)[i] = OnWay[i]
            /\ Append(OnWay, sending)[W + 1] = sending
        BY <1>3, <1>4, AppendProperties
      <4>2. OnWay' = [i \in 1 .. W + 1 |-> n + i]
        BY <1>2, <3>1
      <4>3. OnWay' \in Seq(Nat) /\ Len(OnWay') = W + 1
        <5>1. OnWay' \in [1 .. W + 1 -> Nat] /\ W + 1 \in Nat
          BY <1>1, <4>2
        <5> QED BY <5>1, AsSeq
      <4>4. ASSUME NEW i \in 1 .. W + 1 PROVE OnWay'[i] = Append(OnWay, sending)[i]
        <5>1. CASE i = W + 1
          BY <3>1, <4>1, <4>2, <5>1
        <5>2. CASE i # W + 1
          <6>1. i \in 1 .. W
            BY <1>1, <5>2
          <6> QED BY <1>1, <4>1, <4>2, <6>1
        <5> QED BY <5>1, <5>2
      <4> QED BY <4>1, <4>3, <4>4, SeqEqual
    <3>3. Delivered' = Delivered
      BY <1>1, <1>2, <3>1
    <3>4. Abstract!Send
      BY <2>1, <2>3, <3>2, <3>3 DEF Abstract!Send
    <3> QED BY <3>4 DEF Abstract!Next
  <2> QED BY <2>1, <2>2, <2>3
<1>7. CASE CloseSocket
  <2>1. /\ ~closed /\ closed' = TRUE /\ ended' = ended /\ sending' = sending
        /\ received' = received
    BY <1>7 DEF CloseSocket
  <2>2. Last' <= Last /\ n' = n
    BY <1>7, CloseLast DEF FInv
  <2> DEFINE V == Last' - n
  <2>3. V \in 0 .. Len(OnWay) /\ OnWay' = [i \in 1 .. V |-> n + i]
    BY <1>1, <1>2, <1>3, <2>2
  <2>4. OnWay' = SubSeq(OnWay, 1, V)
    <3> HIDE DEF V, W
    <3>1. /\ SubSeq(OnWay, 1, V) \in Seq(Nat) /\ Len(SubSeq(OnWay, 1, V)) = V
          /\ \A i \in 1 .. V : SubSeq(OnWay, 1, V)[i] = OnWay[i]
      BY <1>3, <2>3, TakeDrop
    <3>2. OnWay' \in [1 .. V -> Nat] /\ V \in Nat
      BY <1>1, <1>3, <2>3
    <3>3. OnWay' \in Seq(Nat) /\ Len(OnWay') = V
      BY <3>2, AsSeq
    <3>4. \A i \in 1 .. V : OnWay'[i] = SubSeq(OnWay, 1, V)[i]
      BY <1>1, <1>3, <2>3, <3>1
    <3> QED BY <3>1, <3>3, <3>4, SeqEqual
  <2>5. Delivered' = Delivered
    BY <1>1, <1>2, <2>2
  <2>6. Abstract!Close
    BY <2>1, <2>3, <2>4, <2>5 DEF Abstract!Close
  <2> QED BY <2>6 DEF Abstract!Next
<1>8. ASSUME Gives, UNCHANGED <<payloadSize, sending, closed, ended>>, ~ended
      PROVE  Abstract!Receive
  <2>1. Last' = Last /\ n' = n + 1
    <3>1. Last' = Last
      BY <1>8, GivesLast
    <3> QED BY <1>8, <3>1 DEF Gives
  <2>2. W \in Nat \ {0} /\ Last' - n' = W - 1
    BY <1>1, <1>2, <2>1
  <2>3. OnWay # <<>> /\ Head(OnWay) = n + 1
    <3>1. OnWay # <<>>
      <4>1. Len(<<>>) = 0 /\ W # 0
        BY <2>2
      <4> QED BY <1>3, <4>1
    <3>2. OnWay[1] = n + 1
      <4>1. 1 \in 1 .. W
        BY <2>2
      <4> QED BY <1>1, <4>1
    <3> QED BY <1>3, <3>1, <3>2, HeadTailProperties
  <2>4. OnWay' = Tail(OnWay)
    <3>1. OnWay' = [i \in 1 .. W - 1 |-> (n + 1) + i]
      BY <1>2, <2>1, <2>2
    <3> HIDE DEF W
    <3>2. OnWay' \in Seq(Nat) /\ Len(OnWay') = W - 1
      <4>1. OnWay' \in [1 .. W - 1 -> Nat] /\ W - 1 \in Nat
        BY <1>1, <2>2, <3>1
      <4> QED BY <4>1, AsSeq
    <3>3. /\ Tail(OnWay) \in Seq(Nat) /\ Len(Tail(OnWay)) = W - 1
          /\ \A i \in 1 .. W - 1 : Tail(OnWay)[i] = OnWay[i + 1]
      BY <1>3, <2>2, <2>3, HeadTailProperties
    <3>4. ASSUME NEW i \in 1 .. W - 1 PROVE OnWay'[i] = Tail(OnWay)[i]
      <4>1. i + 1 \in 1 .. W /\ n + (i + 1) = (n + 1) + i
        BY <1>1, <2>2
      <4> QED BY <1>1, <3>1, <3>3, <4>1
    <3> QED BY <3>2, <3>3, <3>4, SeqEqual
  <2>5. Delivered' = Append(Delivered, n + 1)
    <3>1. Delivered' = [i \in 1 .. n + 1 |-> i]
      BY <1>2, <2>1
    <3>2. Delivered' \in Seq(Nat) /\ Len(Delivered') = n + 1
      <4>1. Delivered' \in [1 .. n + 1 -> Nat] /\ n + 1 \in Nat
        BY <1>1, <3>1
      <4> QED BY <4>1, AsSeq
    <3>3. /\ Append(Delivered, n + 1) \in Seq(Nat)
          /\ Len(Append(Delivered, n + 1)) = n + 1
          /\ \A i \in 1 .. n : Append(Delivered, n + 1)[i] = Delivered[i]
          /\ Append(Delivered, n + 1)[n + 1] = n + 1
      <4>1. n + 1 \in Nat
        BY <1>1
      <4> QED BY <1>3, <4>1, AppendProperties
    <3>4. ASSUME NEW i \in 1 .. n + 1 PROVE Delivered'[i] = Append(Delivered, n + 1)[i]
      <4>1. CASE i = n + 1
        BY <3>1, <3>3, <4>1
      <4>2. CASE i # n + 1
        <5>1. i \in 1 .. n
          BY <1>1, <4>2
        <5> QED BY <1>1, <3>1, <3>3, <5>1
      <4> QED BY <4>1, <4>2
    <3> QED BY <3>2, <3>3, <3>4, SeqEqual
  <2> QED BY <1>8, <2>3, <2>4, <2>5 DEF Abstract!Receive
<1>9. CASE RecvHeader
  <2>1. UNCHANGED <<payloadSize, sending, closed, ended>> /\ ~ended
    BY <1>9 DEF RecvHeader
  <2>2. Gives \/ Keeps
    BY <1>9, HeaderStep
  <2> QED BY <1>5, <1>8, <2>1, <2>2, KeepsLast DEF Abstract!Next
<1>10. CASE RecvPayload
  <2>1. UNCHANGED <<payloadSize, sending, closed, ended>> /\ ~ended
    BY <1>10 DEF RecvPayload
  <2>2. Gives \/ Keeps
    BY <1>10, PayloadStep
  <2> QED BY <1>5, <1>8, <2>1, <2>2, KeepsLast DEF Abstract!Next
<1>11. CASE RecvEnd
  <2>1. /\ closed /\ closed' = closed /\ sending' = sending /\ ~ended /\ ended' = TRUE
        /\ wire = <<>> /\ payloadSize' = payloadSize
    BY <1>11 DEF RecvEnd
  <2>2. n' = n /\ Last' = Last
    BY <1>11, <2>1, EndStep, KeepsLast
  <2>3. OnWay = <<>>
    <3>1. Whole = {}
      BY <2>1 DEF Whole
    <3>2. Cardinality(Whole) = 0
      BY <3>1, FS_EmptySet
    <3> QED BY <3>2 DEF OnWay
  <2>4. OnWay' = OnWay /\ Delivered' = Delivered
    BY <1>1, <1>2, <2>2
  <2>5. Abstract!End
    BY <2>1, <2>3, <2>4 DEF Abstract!End
  <2> QED BY <2>5 DEF Abstract!Next
<1>12. CASE UNCHANGED vars
  <2>1. Keeps /\ UNCHANGED <<payloadSize, sending, closed, ended>>
    BY <1>12 DEF vars, Keeps, Stream
  <2> QED BY <1>5, <2>1, KeepsLast
<1> QED BY <1>6, <1>7, <1>9, <1>10, <1>11, <1>12 DEF Next, Receiver

\* The bytes implement Channel: a message is sent with its last byte, received
\* with its last byte, whole, once and in order; when the socket closes a prefix
\* of the messages on their way still arrives.
THEOREM FramingIsChannel == Spec => ImplementsChannel
<1>1. Init => Abstract!Init
  BY InitChannel
<1>2. FInv /\ ChannelState /\ FInv' /\ ChannelState' /\ [Next]_vars
        => [Abstract!Next]_Abstract!vars
  BY ChannelStep
<1>3. FInv => ChannelState
  BY ChannelStateHolds
<1> QED BY <1>1, <1>2, <1>3, FInvHolds, PTL DEF Spec, ImplementsChannel, Abstract!Spec
=============================================================================
