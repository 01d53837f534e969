------------------------------ MODULE NetProofs ------------------------------
(***************************************************************************)
(* A connection delivers the messages of the peer one by one and whole,    *)
(* for headers of any number of parts and data of any length; and a pane   *)
(* is served by one thread, for any set of panes, of silent peers and any  *)
(* timeouts.                                                               *)
(***************************************************************************)
EXTENDS MsgRecv, NetConnect, SequenceTheorems, TLAPS

-----------------------------------------------------------------------------
(* Messages received in parts. *)

\* parts of message m
Size(m) == HdrParts + lens[m]

\* a part further on in the same message
Later(q, d) == [msg |-> q.msg, part |-> q.part + d]

\* parts of messages that were sent, each followed by the next one of its
\* message, and a message by the next message
InOrder(s) ==
  /\ \A i \in 1 .. Len(s) :
       s[i].msg \in 1 .. sent /\ s[i].part \in 1 .. Size(s[i].msg)
  /\ \A i \in 1 .. Len(s), j \in 1 .. Len(s) :
       i <= j /\ s[i].part + (j - i) <= Size(s[i].msg) => s[j] = Later(s[i], j - i)
  /\ \A i \in 1 .. Len(s), j \in 1 .. Len(s) :
       j = i + 1 /\ s[i].part = Size(s[i].msg) => s[j] = [msg |-> s[i].msg + 1, part |-> 1]

\* the part that is received next
Expected ==
  [msg |-> count + 1, part |-> IF pc = "data" THEN HdrParts + 1 ELSE Filled + 1]

StreamFits ==
  /\ stream # <<>> => stream[1] = Expected
  /\ ~closed => IF stream = <<>> THEN pc = "recv" /\ Filled = 0 /\ count = sent
                ELSE stream[Len(stream)] = [msg |-> sent, part |-> Size(sent)]

\* the message that is being received has been sent; what was built in the
\* buffer meanwhile is seen by its first part
BufferFits ==
  /\ Filled > 0 \/ pc = "data" => count < sent
  /\ pc = "data" => xfered = None /\ lens[count + 1] > 0
  /\ \A p \in 1 .. HdrParts :
       pc = "data" \/ (p <= Filled /\ buf[1] # Own)
         => buf[p] = [msg |-> count + 1, part |-> p]

RecvInv ==
  /\ RecvTypeOK /\ count <= sent
  /\ ActedOnAsSent
  /\ pc # "failed" => InOrder(stream) /\ StreamFits /\ BufferFits

\* What is left when k parts have been taken from the stream.
LEMMA Dropped ==
  ASSUME stream \in Seq(Part), NEW k \in 0 .. Len(stream), Drop(k)
  PROVE  /\ stream' \in Seq(Part) /\ Len(stream) \in Nat /\ Len(stream') = Len(stream) - k
         /\ \A i \in 1 .. Len(stream') : stream'[i] = stream[i + k]
         /\ stream' # <<>> <=> k < Len(stream)
<1>1. Len(stream) \in Nat /\ \A i \in 1 .. Len(stream) : stream[i] \in Part
  BY LenProperties, ElementOfSeq
<1>2. k + 1 \in Int /\ \A i \in k + 1 .. Len(stream) : stream[i] \in Part
  BY <1>1
<1>3. /\ SubSeq(stream, k + 1, Len(stream)) \in Seq(Part)
      /\ Len(SubSeq(stream, k + 1, Len(stream)))
           = IF k + 1 <= Len(stream) THEN Len(stream) - (k + 1) + 1 ELSE 0
      /\ \A i \in 1 .. Len(stream) - (k + 1) + 1 :
           SubSeq(stream, k + 1, Len(stream))[i] = stream[k + 1 + i - 1]
  BY <1>1, <1>2, SubSeqProperties
<1>4. stream' \in Seq(Part) /\ Len(stream') = Len(stream) - k
      /\ \A i \in 1 .. Len(stream') : stream'[i] = stream[i + k]
  BY <1>1, <1>3 DEF Drop
<1>5. stream' # <<>> <=> Len(stream') # 0
  BY <1>4, EmptySeq, LenProperties
<1>. QED
  BY <1>1, <1>4, <1>5

\* A stretch of what is in order is in order.
LEMMA StretchInOrder ==
  ASSUME NEW s \in Seq(Part), NEW t \in Seq(Part), NEW k \in Nat, k + Len(t) <= Len(s),
         \A i \in 1 .. Len(t) : t[i] = s[i + k],
         InOrder(s)
  PROVE  InOrder(t)
<1>1. Len(s) \in Nat /\ Len(t) \in Nat
  BY LenProperties
<1>2. ASSUME NEW i \in 1 .. Len(t) PROVE i + k \in 1 .. Len(s)
  BY <1>1
<1>3. ASSUME NEW i \in 1 .. Len(t)
      PROVE  t[i].msg \in 1 .. sent /\ t[i].part \in 1 .. Size(t[i].msg)
  BY <1>2 DEF InOrder
<1>4. ASSUME NEW i \in 1 .. Len(t), NEW j \in 1 .. Len(t)
      PROVE  /\ i <= j /\ t[i].part + (j - i) <= Size(t[i].msg) => t[j] = Later(t[i], j - i)
             /\ j = i + 1 /\ t[i].part = Size(t[i].msg)
                  => t[j] = [msg |-> t[i].msg + 1, part |-> 1]
  <2>1. i + k \in 1 .. Len(s) /\ j + k \in 1 .. Len(s) /\ (j + k) - (i + k) = j - i
        /\ (i <= j <=> i + k <= j + k) /\ (j = i + 1 => j + k = (i + k) + 1)
    BY <1>1
  <2>. QED
    BY <2>1 DEF InOrder
<1>. QED
  BY <1>3, <1>4 DEF InOrder

\* The parts that come first in the stream, up to the end of their message.
LEMMA FirstParts ==
  ASSUME RecvInv, pc # "failed", NEW k \in 1 .. Len(stream),
         Expected.part + (k - 1) <= Size(count + 1)
  PROVE  /\ \A i \in 1 .. k : stream[i] = Later(Expected, i - 1)
         /\ count + 1 \in 1 .. sent
         /\ k < Len(stream) =>
              stream[k + 1] = IF Expected.part + k <= Size(count + 1) THEN Later(Expected, k)
                              ELSE [msg |-> count + 2, part |-> 1]
         /\ ~closed /\ k = Len(stream) =>
              count + 1 = sent /\ Expected.part + (k - 1) = Size(sent)
<1>1. stream \in Seq(Part) /\ Len(stream) \in Nat /\ 1 \in 1 .. Len(stream)
  BY LenProperties DEF RecvInv, RecvTypeOK
<1>2. stream # <<>>
  BY <1>1, EmptySeq
<1>3. stream[1] = Expected /\ InOrder(stream)
  BY <1>2 DEF RecvInv, StreamFits
<1>4. Expected.msg = count + 1 /\ Expected.part \in Nat /\ count \in Nat /\ sent \in Nat
  BY MsgAssumption DEF Expected, RecvInv, RecvTypeOK, Filled, None
<1>5. Expected.msg \in 1 .. sent /\ Expected.part \in 1 .. Size(Expected.msg)
  BY <1>1, <1>3 DEF InOrder
<1>6. Size(count + 1) \in Nat
  BY <1>4, <1>5, MsgAssumption DEF Size, RecvInv, RecvTypeOK
<1>7. ASSUME NEW i \in 1 .. Len(stream), Expected.part + (i - 1) <= Size(count + 1)
      PROVE  stream[i] = Later(Expected, i - 1)
  BY <1>1, <1>3, <1>4, <1>7 DEF InOrder
<1>8. ASSUME NEW i \in 1 .. k PROVE stream[i] = Later(Expected, i - 1)
  BY <1>1, <1>4, <1>6, <1>7
<1>9. ASSUME k < Len(stream)
      PROVE  stream[k + 1] = IF Expected.part + k <= Size(count + 1) THEN Later(Expected, k)
                             ELSE [msg |-> count + 2, part |-> 1]
  <2>1. CASE Expected.part + k <= Size(count + 1)
    <3>1. k + 1 \in 1 .. Len(stream) /\ (k + 1) - 1 = k
      BY <1>1, <1>9
    <3>2. stream[k + 1] = Later(Expected, (k + 1) - 1)
      BY <1>7, <2>1, <3>1
    <3>. QED
      BY <2>1, <3>1, <3>2
  <2>2. CASE Expected.part + k > Size(count + 1)
    <3>1. k \in 1 .. Len(stream) /\ k + 1 \in 1 .. Len(stream) /\ k \in 1 .. k
      BY <1>1, <1>9
    <3>2. stream[k] = [msg |-> count + 1, part |-> Expected.part + (k - 1)]
      BY <1>4, <1>8, <3>1 DEF Later
    <3>3. stream[k].msg = count + 1 /\ stream[k].part = Size(count + 1)
      BY <1>4, <1>6, <2>2, <3>2
    <3>4. stream[k + 1] = [msg |-> count + 1 + 1, part |-> 1]
      BY <1>3, <3>1, <3>3 DEF InOrder
    <3>. QED
      BY <1>4, <1>6, <2>2, <3>4
  <2>. QED
    BY <1>4, <1>6, <2>1, <2>2
<1>10. ASSUME ~closed, k = Len(stream)
       PROVE  count + 1 = sent /\ Expected.part + (k - 1) = Size(sent)
  <2>1. stream[k] = [msg |-> sent, part |-> Size(sent)]
    BY <1>2, <1>10 DEF RecvInv, StreamFits
  <2>2. stream[k] = [msg |-> count + 1, part |-> Expected.part + (k - 1)]
    BY <1>1, <1>4, <1>8 DEF Later
  <2>. QED
    BY <2>1, <2>2
<1>. QED
  BY <1>4, <1>5, <1>8, <1>9, <1>10

\* A step that leaves the stream, or takes k parts of one message from it,
\* keeps the order and the place in it.
LEMMA Took ==
  ASSUME RecvInv, pc # "failed", NEW k \in 1 .. Len(stream), Drop(k),
         Expected.part + (k - 1) <= Size(count + 1), UNCHANGED <<sent, lens, closed>>,
         Expected' = IF Expected.part + k <= Size(count + 1) THEN Later(Expected, k)
                     ELSE [msg |-> count + 2, part |-> 1],
         Expected.part + k > Size(count + 1) => pc' = "recv" /\ Filled' = 0 /\ count' = count + 1
  PROVE  InOrder(stream)' /\ StreamFits'
<1>1. stream \in Seq(Part) /\ k \in 0 .. Len(stream) /\ k \in Nat
  BY DEF RecvInv, RecvTypeOK
<1>2. /\ stream' \in Seq(Part) /\ Len(stream) \in Nat /\ Len(stream') = Len(stream) - k
      /\ \A i \in 1 .. Len(stream') : stream'[i] = stream[i + k]
      /\ stream' # <<>> <=> k < Len(stream)
  BY <1>1, Dropped
<1>3. InOrder(stream)'
  <2>1. InOrder(stream)
    BY DEF RecvInv
  <2>2. k + Len(stream') <= Len(stream)
    BY <1>2
  <2>3. InOrder(stream')
    BY <1>1, <1>2, <2>1, <2>2, StretchInOrder
  <2>. QED
    BY <2>3 DEF InOrder, Size
<1>4. stream' # <<>> => stream'[1] = Expected'
  <2>1. ASSUME k < Len(stream) PROVE stream'[1] = stream[k + 1]
    BY <1>1, <1>2, <2>1
  <2>. QED
    BY <1>2, <2>1, FirstParts
<1>5. ASSUME ~closed, stream' = <<>> PROVE pc' = "recv" /\ Filled' = 0 /\ count' = sent
  <2>1. k = Len(stream)
    BY <1>1, <1>2, <1>5
  <2>2. count + 1 = sent /\ Expected.part + (k - 1) = Size(sent)
    BY <1>5, <2>1, FirstParts
  <2>3. Size(sent) \in Int /\ Expected.part \in Int
    BY MsgAssumption, <2>2
       DEF RecvInv, RecvTypeOK, Size, Expected, Filled, None
  <2>4. Expected.part + k > Size(count + 1)
    BY <1>1, <2>2, <2>3
  <2>. QED
    BY <2>2, <2>4
<1>6. ASSUME ~closed, stream' # <<>>
      PROVE  stream'[Len(stream')] = [msg |-> sent, part |-> Size(sent)]
  <2>1. stream # <<>>
    BY <1>1, <1>2, EmptySeq
  <2>2. stream[Len(stream)] = [msg |-> sent, part |-> Size(sent)]
    BY <1>6, <2>1 DEF RecvInv, StreamFits
  <2>3. Len(stream') \in 1 .. Len(stream') /\ Len(stream') + k = Len(stream)
    BY <1>1, <1>2, <1>6
  <2>. QED
    BY <1>2, <2>2, <2>3
<1>7. Size(sent)' = Size(sent)
  BY DEF Size
<1>. QED
  BY <1>3, <1>4, <1>5, <1>6, <1>7 DEF StreamFits

\* While there is something in the stream its message has been sent.
LEMMA NextSent ==
  ASSUME RecvInv, pc # "failed", NEW k \in 1 .. Len(stream)
  PROVE  /\ count \in Nat /\ count + 1 \in 1 .. sent /\ count + 1 \in 1 .. MaxMsgs
         /\ lens[count + 1] \in 0 .. MaxData /\ Size(count + 1) = HdrParts + lens[count + 1]
<1>1. stream \in Seq(Part) /\ Len(stream) \in Nat /\ 1 \in 1 .. Len(stream)
  BY LenProperties DEF RecvInv, RecvTypeOK
<1>2. stream # <<>>
  BY <1>1, EmptySeq
<1>3. stream[1] = Expected /\ InOrder(stream) /\ Expected.msg = count + 1
  BY <1>2 DEF RecvInv, StreamFits, Expected
<1>4. count + 1 \in 1 .. sent
  BY <1>1, <1>3 DEF InOrder
<1>. QED
  BY <1>4, MsgAssumption DEF RecvInv, RecvTypeOK, Size

\* What a header holds that has received k more parts.
LEMMA Placed ==
  ASSUME RecvInv, pc = "recv", NEW k \in 0 .. Len(stream), Filled + k <= HdrParts
  PROVE  /\ Place(k) \in [1 .. HdrParts -> Part]
         /\ \A p \in 1 .. HdrParts :
              p <= Filled + k /\ Place(k)[1] # Own => Place(k)[p] = [msg |-> count + 1, part |-> p]
         /\ k > 0 => Place(k)[Filled + k] = [msg |-> count + 1, part |-> Filled + k]
<1>1. /\ stream \in Seq(Part) /\ Len(stream) \in Nat /\ buf \in [1 .. HdrParts -> Part]
      /\ \A i \in 1 .. Len(stream) : stream[i] \in Part
  BY LenProperties, ElementOfSeq DEF RecvInv, RecvTypeOK
<1>2. Filled \in Nat /\ HdrParts \in Nat /\ 1 \in 1 .. HdrParts /\ count \in Nat
  BY MsgAssumption DEF RecvInv, RecvTypeOK, Filled, None
<1>3. \A p \in 1 .. HdrParts : p <= Filled /\ buf[1] # Own => buf[p] = [msg |-> count + 1, part |-> p]
  BY DEF RecvInv, BufferFits
<1>4. ASSUME NEW p \in Filled + 1 .. Filled + k
      PROVE  p - Filled \in 1 .. Len(stream)
             /\ stream[p - Filled] = [msg |-> count + 1, part |-> p]
  <2>1. p - Filled \in 1 .. k /\ k \in 1 .. Len(stream) /\ k \in Nat
    BY <1>1, <1>2
  <2>2. Expected = [msg |-> count + 1, part |-> Filled + 1]
    BY DEF Expected
  <2>3. lens[count + 1] \in Nat /\ Size(count + 1) = HdrParts + lens[count + 1]
    BY <2>1, NextSent, MsgAssumption
  <2>4. Expected.part + (k - 1) <= Size(count + 1)
    BY <1>2, <2>1, <2>2, <2>3
  <2>5. stream[p - Filled] = Later(Expected, p - Filled - 1)
    BY <2>1, <2>4, FirstParts
  <2>. QED
    BY <1>1, <1>2, <2>1, <2>2, <2>5 DEF Later
<1>5. ASSUME NEW p \in 1 .. HdrParts
      PROVE  Place(k)[p] = IF p \in Filled + 1 .. Filled + k THEN [msg |-> count + 1, part |-> p]
                           ELSE buf[p]
  BY <1>4 DEF Place
<1>6. Place(k) \in [1 .. HdrParts -> Part]
  BY <1>1, <1>4 DEF Place
<1>7. ASSUME NEW p \in 1 .. HdrParts, p <= Filled + k, Place(k)[1] # Own
      PROVE  Place(k)[p] = [msg |-> count + 1, part |-> p]
  <2>1. CASE p > Filled
    BY <1>2, <1>5, <1>7, <2>1
  <2>2. CASE p <= Filled
    <3>1. 1 \notin Filled + 1 .. Filled + k
      BY <1>2, <2>2
    <3>2. Place(k)[1] = buf[1]
      BY <1>2, <1>5, <3>1
    <3>3. p \notin Filled + 1 .. Filled + k
      BY <1>2, <2>2
    <3>. QED
      BY <1>3, <1>5, <1>7, <2>2, <3>2, <3>3
  <2>. QED
    BY <1>2, <2>1, <2>2
<1>8. ASSUME k > 0 PROVE Place(k)[Filled + k] = [msg |-> count + 1, part |-> Filled + k]
  BY <1>1, <1>2, <1>5, <1>8
<1>. QED
  BY <1>6, <1>7, <1>8

LEMMA MessageSeq ==
  ASSUME NEW m \in 1 .. MaxMsgs, NEW l \in 0 .. MaxData
  PROVE  Message(m, l) \in Seq(Part) /\ Len(Message(m, l)) = HdrParts + l
<1>. DEFINE N == HdrParts + l
<1>1. N \in Nat /\ \A p \in 1 .. N : [msg |-> m, part |-> p] \in Part
  BY MsgAssumption DEF Part
<1>2. Message(m, l) \in [1 .. N -> Part]
  BY <1>1 DEF Message
<1>. HIDE DEF N
<1>3. Message(m, l) \in Seq(Part)
  BY <1>1, <1>2, SeqDef
<1>4. DOMAIN Message(m, l) = 1 .. N /\ DOMAIN Message(m, l) = 1 .. Len(Message(m, l))
      /\ Len(Message(m, l)) \in Nat
  BY <1>2, <1>3, LenProperties
<1>5. Len(Message(m, l)) = N
  BY <1>1, <1>4
<1>. QED
  BY <1>3, <1>5 DEF N

LEMMA PeerSendStep == ASSUME RecvInv, NEW l \in 0 .. MaxData, PeerSend(l) PROVE RecvInv'
<1>1. /\ sent \in Nat /\ sent' = sent + 1 /\ sent' \in 1 .. MaxMsgs
      /\ lens' = [lens EXCEPT ![sent + 1] = l] /\ lens \in [1 .. MaxMsgs -> 0 .. MaxData]
      /\ stream \in Seq(Part) /\ ~closed
      /\ UNCHANGED <<closed, buf, xfered, pc, returned, acted, count>>
  BY MsgAssumption DEF RecvInv, RecvTypeOK, PeerSend, history
<1>. DEFINE t == Message(sent + 1, l)
<1>2. t \in Seq(Part) /\ Len(t) = HdrParts + l /\ Len(t) \in Nat
      /\ \A p \in 1 .. Len(t) : t[p] = [msg |-> sent + 1, part |-> p]
  <2>1. t \in Seq(Part) /\ Len(t) = HdrParts + l
    BY <1>1, MessageSeq
  <2>2. \A p \in 1 .. HdrParts + l : t[p] = [msg |-> sent + 1, part |-> p]
    BY DEF Message
  <2>. HIDE DEF t
  <2>. QED
    BY <2>1, <2>2, LenProperties
<1>3. stream' = stream \o t
  BY DEF PeerSend
<1>. HIDE DEF t
<1>4. /\ stream' \in Seq(Part) /\ Len(stream) \in Nat /\ Len(stream') = Len(stream) + Len(t)
      /\ \A i \in 1 .. Len(stream) + Len(t) :
           stream'[i] = IF i <= Len(stream) THEN stream[i] ELSE t[i - Len(stream)]
  BY <1>1, <1>2, <1>3, ConcatProperties, LenProperties
<1>. DEFINE NewSize(m) == HdrParts + lens'[m]
<1>5. \A m \in 1 .. sent : lens'[m] = lens[m] /\ NewSize(m) = Size(m)
  BY <1>1 DEF Size
<1>6. lens'[sent + 1] = l /\ NewSize(sent + 1) = Len(t)
  BY <1>1, <1>2
<1>7. RecvTypeOK' /\ count' <= sent'
  BY <1>1, <1>4 DEF RecvInv, RecvTypeOK
<1>8. ActedOnAsSent'
  BY <1>1, <1>5 DEF RecvInv, RecvTypeOK, ActedOnAsSent, Message
<1>. HIDE DEF NewSize
<1>. SUFFICES ASSUME pc # "failed" PROVE (InOrder(stream) /\ StreamFits /\ BufferFits)'
  BY <1>1, <1>7, <1>8 DEF RecvInv
<1>9. InOrder(stream) /\ StreamFits /\ BufferFits
  BY DEF RecvInv
<1>10. Len(stream) = 0 <=> stream = <<>>
  BY <1>1, EmptySeq
<1>11. ASSUME NEW i \in 1 .. Len(stream') PROVE
         IF i <= Len(stream)
         THEN i \in 1 .. Len(stream) /\ stream'[i] = stream[i]
         ELSE i - Len(stream) \in 1 .. Len(t)
              /\ stream'[i] = [msg |-> sent + 1, part |-> i - Len(stream)]
  BY <1>2, <1>4
<1>12. ASSUME NEW i \in 1 .. Len(stream)
       PROVE  stream[i].msg \in 1 .. sent /\ stream[i].part \in 1 .. Size(stream[i].msg)
              /\ NewSize(stream[i].msg) = Size(stream[i].msg) /\ Size(stream[i].msg) \in Nat
  <2>1. stream[i].msg \in 1 .. sent /\ stream[i].part \in 1 .. Size(stream[i].msg)
    BY <1>9 DEF InOrder
  <2>2. Size(stream[i].msg) \in Nat
    BY <1>1, <2>1, MsgAssumption DEF Size
  <2>. QED
    BY <1>5, <2>1, <2>2
\* the stream ends with the end of the message before
<1>13. ASSUME NEW i \in 1 .. Len(stream),
              stream[i].part + (Len(stream) - i) <= Size(stream[i].msg)
       PROVE  stream[i].msg = sent /\ stream[i].part + (Len(stream) - i) = Size(stream[i].msg)
  <2>1. Len(stream) \in 1 .. Len(stream) /\ i <= Len(stream)
    BY <1>4
  <2>2. stream[Len(stream)] = Later(stream[i], Len(stream) - i)
    BY <1>9, <1>13, <2>1 DEF InOrder
  <2>3. stream[Len(stream)] = [msg |-> sent, part |-> Size(sent)]
    BY <1>1, <1>9, <1>10, <2>1 DEF StreamFits
  <2>. QED
    BY <2>2, <2>3 DEF Later
<1>14. InOrder(stream)'
  <2>1. ASSUME NEW i \in 1 .. Len(stream')
        PROVE  stream'[i].msg \in 1 .. sent' /\ stream'[i].part \in 1 .. NewSize(stream'[i].msg)
    <3>1. CASE i <= Len(stream)
      <4>1. /\ i \in 1 .. Len(stream) /\ stream'[i] = stream[i]
            /\ NewSize(stream[i].msg) = Size(stream[i].msg)
        BY <1>11, <1>12, <3>1
      <4>. QED
        BY <1>1, <1>12, <4>1
    <3>2. CASE i > Len(stream)
      <4>1. i - Len(stream) \in 1 .. Len(t)
            /\ stream'[i] = [msg |-> sent + 1, part |-> i - Len(stream)]
        BY <1>4, <1>11, <3>2
      <4>. QED
        BY <1>1, <1>6, <4>1
    <3>. QED
      BY <1>4, <3>1, <3>2
  <2>2. ASSUME NEW i \in 1 .. Len(stream'), NEW j \in 1 .. Len(stream'), i <= j,
               stream'[i].part + (j - i) <= NewSize(stream'[i].msg)
        PROVE  stream'[j] = Later(stream'[i], j - i)
    <3>1. CASE j <= Len(stream)
      <4>1. i \in 1 .. Len(stream) /\ j \in 1 .. Len(stream)
        BY <1>4, <2>2, <3>1
      <4>2. stream'[i] = stream[i] /\ stream'[j] = stream[j]
            /\ NewSize(stream[i].msg) = Size(stream[i].msg)
        BY <1>4, <1>11, <1>12, <2>2, <3>1, <4>1
      <4>. QED
        BY <1>9, <2>2, <4>1, <4>2 DEF InOrder
    <3>2. CASE i > Len(stream)
      BY <1>4, <1>11, <2>2, <3>2 DEF Later
    <3>3. CASE i <= Len(stream) /\ j > Len(stream)
      <4>1. i \in 1 .. Len(stream) /\ stream'[i] = stream[i]
        BY <1>11, <3>3
      <4>2. stream[i].part + (j - i) <= Size(stream[i].msg) /\ Size(stream[i].msg) \in Nat
            /\ stream[i].part \in Nat
        BY <1>12, <2>2, <4>1
      <4>3. stream[i].part + (Len(stream) - i) < Size(stream[i].msg)
        BY <1>4, <3>3, <4>2
      <4>4. stream[i].part + (Len(stream) - i) <= Size(stream[i].msg)
        BY <1>4, <4>1, <4>2, <4>3
      <4>5. stream[i].part + (Len(stream) - i) = Size(stream[i].msg)
        BY <1>13, <4>1, <4>4
      <4>. QED
        BY <1>4, <4>1, <4>2, <4>3, <4>5
    <3>. QED
      BY <1>4, <3>1, <3>2, <3>3
  <2>3. ASSUME NEW i \in 1 .. Len(stream'), NEW j \in 1 .. Len(stream'), j = i + 1,
               stream'[i].part = NewSize(stream'[i].msg)
        PROVE  stream'[j] = [msg |-> stream'[i].msg + 1, part |-> 1]
    <3>1. CASE j <= Len(stream)
      <4>1. i \in 1 .. Len(stream) /\ j \in 1 .. Len(stream)
        BY <1>4, <2>3, <3>1
      <4>2. stream'[i] = stream[i] /\ stream'[j] = stream[j]
            /\ NewSize(stream[i].msg) = Size(stream[i].msg)
        BY <1>4, <1>11, <1>12, <2>3, <3>1, <4>1
      <4>. QED
        BY <1>9, <2>3, <4>1, <4>2 DEF InOrder
    <3>2. CASE i > Len(stream)
      BY <1>2, <1>4, <1>6, <1>11, <2>3, <3>2
    <3>3. CASE i = Len(stream)
      <4>1. i \in 1 .. Len(stream) /\ stream'[i] = stream[i]
        BY <1>4, <1>11, <3>3
      <4>2. stream[i].part = Size(stream[i].msg) /\ Size(stream[i].msg) \in Nat
        BY <1>12, <2>3, <4>1
      <4>3. stream[i].msg = sent
        BY <1>4, <1>13, <3>3, <4>1, <4>2
      <4>4. stream'[j] = [msg |-> sent + 1, part |-> 1]
        <5>1. j - Len(stream) = 1 /\ j > Len(stream)
          BY <1>4, <2>3, <3>3
        <5>. QED
          BY <1>4, <1>11, <5>1
      <4>. QED
        BY <4>1, <4>3, <4>4
    <3>. QED
      BY <1>4, <2>3, <3>1, <3>2, <3>3
  <2>. QED
    BY <2>1, <2>2, <2>3 DEF InOrder, Size, NewSize
<1>15. StreamFits'
  <2>1. Len(stream') \in 1 .. Len(stream') /\ 1 \in 1 .. Len(stream') /\ stream' # <<>>
        /\ Len(stream') > Len(stream)
    BY <1>2, <1>4, EmptySeq, MsgAssumption
  <2>2. stream'[Len(stream')] = [msg |-> sent', part |-> NewSize(sent + 1)]
    BY <1>1, <1>2, <1>4, <1>6, <1>11, <2>1
  <2>3. stream'[1] = Expected
    <3>1. CASE stream = <<>>
      BY <1>1, <1>4, <1>9, <1>10, <1>11, <2>1, <3>1 DEF StreamFits, Expected
    <3>2. CASE stream # <<>>
      BY <1>4, <1>9, <1>10, <1>11, <2>1, <3>2 DEF StreamFits
    <3>. QED
      BY <3>1, <3>2
  <2>4. Expected' = Expected /\ NewSize(sent') = NewSize(sent + 1)
    BY <1>1 DEF Expected, Filled
  <2>. QED
    BY <1>1, <2>1, <2>2, <2>3, <2>4 DEF StreamFits, Size, NewSize
<1>16. BufferFits'
  BY <1>1, <1>5, <1>9, <1>12 DEF BufferFits, Filled, RecvInv, RecvTypeOK
<1>. QED
  BY <1>14, <1>15, <1>16

\* A step after which the connection is given up, or what is received is as
\* before.
LEMMA OtherSteps ==
  ASSUME RecvInv,
         PeerClose \/ RecvDataFails \/ RecvTimeout \/ SendOwn \/ SendOwnFails \/ UNCHANGED recvVars
  PROVE  RecvInv'
<1>1. CASE Fail
  BY <1>1 DEF Fail, history, RecvInv, RecvTypeOK, ActedOnAsSent
<1>2. CASE UNCHANGED recvVars
  BY <1>2 DEF recvVars, RecvInv, RecvTypeOK, ActedOnAsSent, InOrder, Size, StreamFits, BufferFits,
              Expected, Filled
<1>3. CASE SendOwn
  <2>1. /\ buf' = [p \in 1 .. HdrParts |-> IF p \in Overwritten THEN Own ELSE buf[p]]
        /\ pc = "recv" /\ UNCHANGED <<sent, lens, stream, closed, xfered, pc, returned, acted, count>>
    BY <1>3 DEF SendOwn, history
  <2>2. 1 \in Overwritten /\ 1 \in 1 .. HdrParts /\ Own \in Part
    BY MsgAssumption DEF Own, Part
  <2>3. RecvTypeOK' /\ buf'[1] = Own
    BY <2>1, <2>2 DEF RecvInv, RecvTypeOK
  <2>4. BufferFits'
    BY <2>1, <2>3 DEF RecvInv, BufferFits, Filled
  <2>5. (InOrder(stream) /\ StreamFits)' /\ ActedOnAsSent' /\ count' <= sent'
    BY <2>1 DEF RecvInv, InOrder, Size, StreamFits, Expected, Filled, ActedOnAsSent
  <2>. QED
    BY <2>3, <2>4, <2>5 DEF RecvInv
<1>4. CASE PeerClose
  <2>1. /\ closed' /\ closed' \in BOOLEAN
        /\ UNCHANGED <<sent, lens, buf, xfered, pc, returned, acted, count>>
    BY <1>4 DEF PeerClose, history
  <2>2. PICK k \in 0 .. Len(stream) : stream' = SubSeq(stream, 1, k)
    BY <1>4 DEF PeerClose
  <2>3. stream \in Seq(Part) /\ Len(stream) \in Nat
        /\ \A i \in 1 .. Len(stream) : stream[i] \in Part
    BY LenProperties, ElementOfSeq DEF RecvInv, RecvTypeOK
  <2>4. /\ stream' \in Seq(Part) /\ Len(stream') = k
        /\ \A i \in 1 .. k : stream'[i] = stream[i]
    <3>1. k \in Int /\ 1 \in Int /\ (\A i \in 1 .. k : stream[i] \in Part)
      BY <2>3
    <3>2. /\ SubSeq(stream, 1, k) \in Seq(Part)
          /\ Len(SubSeq(stream, 1, k)) = IF 1 <= k THEN k - 1 + 1 ELSE 0
          /\ \A i \in 1 .. k - 1 + 1 : SubSeq(stream, 1, k)[i] = stream[1 + i - 1]
      BY <3>1, SubSeqProperties
    <3>. QED
      BY <2>2, <2>3, <3>2
  <2>5. pc # "failed" => InOrder(stream)'
    <3>1. 0 + Len(stream') <= Len(stream) /\ \A i \in 1 .. Len(stream') : stream'[i] = stream[i + 0]
      BY <2>3, <2>4
    <3>2. InOrder(stream) => InOrder(stream')
      BY <2>3, <2>4, <3>1, StretchInOrder
    <3>. QED
      BY <2>1, <3>2 DEF RecvInv, InOrder, Size
  <2>6. pc # "failed" => StreamFits'
    <3>1. stream' # <<>> => k > 0 /\ stream # <<>> /\ stream'[1] = stream[1]
      BY <2>3, <2>4, EmptySeq
    <3>. QED
      BY <2>1, <3>1 DEF RecvInv, StreamFits, Expected, Filled
  <2>7. RecvTypeOK' /\ ActedOnAsSent' /\ count' <= sent' /\ (pc # "failed" => BufferFits')
    BY <2>1, <2>4 DEF RecvInv, RecvTypeOK, ActedOnAsSent, BufferFits, Filled
  <2>. QED
    BY <2>1, <2>5, <2>6, <2>7 DEF RecvInv
<1>. QED
  BY <1>1, <1>2, <1>3, <1>4 DEF RecvDataFails, RecvTimeout, SendOwnFails

\* A header that is still incomplete.
LEMMA RecvPartStep == ASSUME RecvInv, NEW k \in 0 .. HdrParts - 1, RecvPart(k) PROVE RecvInv'
<1>1. /\ pc = "recv" /\ k <= Len(stream) /\ Filled + k < HdrParts
      /\ buf' = Place(k) /\ xfered' = Filled + k /\ Drop(k)
      /\ UNCHANGED <<sent, lens, closed, pc, returned, acted, count>>
  BY DEF RecvPart, More, history
<1>2. /\ stream \in Seq(Part) /\ Len(stream) \in Nat /\ k \in 0 .. Len(stream)
      /\ Filled \in Nat /\ HdrParts \in Nat /\ Filled + k <= HdrParts /\ Filled + k \in 0 .. HdrParts - 1
  BY <1>1, LenProperties, MsgAssumption DEF RecvInv, RecvTypeOK, Filled, None
<1>3. stream' \in Seq(Part) /\ Place(k) \in [1 .. HdrParts -> Part]
  BY <1>1, <1>2, Dropped, Placed
<1>4. RecvTypeOK' /\ ActedOnAsSent' /\ count' <= sent'
  BY <1>1, <1>2, <1>3 DEF RecvInv, RecvTypeOK, ActedOnAsSent, None
<1>5. Filled' = Filled + k
  BY <1>1, <1>2 DEF Filled, None
<1>6. CASE k = 0
  <2>1. stream' = stream
    BY <1>1, <1>2, <1>6, SubSeqFull DEF Drop
  <2>2. Expected' = Expected /\ Filled' = Filled
    BY <1>1, <1>2, <1>5, <1>6 DEF Expected
  <2>3. buf' = buf
    BY <1>1, <1>2, <1>6 DEF Place, RecvInv, RecvTypeOK
  <2>. QED
    BY <1>1, <1>4, <2>1, <2>2, <2>3 DEF RecvInv, InOrder, Size, StreamFits, BufferFits
<1>7. CASE k > 0
  <2>1. k \in 1 .. Len(stream)
    BY <1>2, <1>7
  <2>2. /\ count \in Nat /\ count + 1 \in 1 .. sent /\ lens[count + 1] \in Nat
        /\ Size(count + 1) = HdrParts + lens[count + 1]
    BY <1>1, <2>1, NextSent, MsgAssumption
  <2>3. Expected = [msg |-> count + 1, part |-> Filled + 1]
        /\ Expected' = [msg |-> count + 1, part |-> Filled + k + 1]
    BY <1>1, <1>5 DEF Expected
  <2>4. Expected.part + k <= Size(count + 1) /\ Expected.part + (k - 1) <= Size(count + 1)
        /\ Expected' = Later(Expected, k)
    BY <1>2, <2>2, <2>3 DEF Later
  <2>5. ~(Expected.part + k > Size(count + 1))
    BY <1>2, <2>2, <2>3
  <2>6. InOrder(stream)' /\ StreamFits'
    BY <1>1, <2>1, <2>4, <2>5, Took
  <2>7. BufferFits'
    <3>1. \A p \in 1 .. HdrParts :
            p <= Filled + k /\ Place(k)[1] # Own => Place(k)[p] = [msg |-> count + 1, part |-> p]
      BY <1>1, <1>2, Placed
    <3>2. count < sent
      BY <2>2 DEF RecvInv, RecvTypeOK
    <3>. QED
      BY <1>1, <1>5, <3>1, <3>2 DEF BufferFits
  <2>. QED
    BY <1>1, <1>4, <2>6, <2>7 DEF RecvInv
<1>. QED
  BY <1>2, <1>6, <1>7

\* A header is complete: it is no header at all, or that of the next message.
LEMMA RecvHdrStep == ASSUME RecvInv, RecvHdr PROVE RecvInv'
<1>. DEFINE k == HdrParts - Filled
            h == Place(k)
<1>1. /\ pc = "recv" /\ k <= Len(stream) /\ buf' = h /\ xfered' = None /\ Drop(k) /\ returned' = h
      /\ UNCHANGED <<sent, lens, closed>>
  BY DEF RecvHdr
<1>2. /\ stream \in Seq(Part) /\ Len(stream) \in Nat /\ Filled \in 0 .. HdrParts - 1
      /\ HdrParts \in Nat /\ k \in 1 .. Len(stream) /\ Filled + k = HdrParts /\ 1 \in 1 .. HdrParts
      /\ HdrParts \in 1 .. HdrParts
  BY <1>1, LenProperties, MsgAssumption DEF RecvInv, RecvTypeOK, Filled, None
<1>3. /\ count \in Nat /\ count + 1 \in 1 .. sent /\ count + 1 \in 1 .. MaxMsgs /\ sent \in Nat
      /\ lens[count + 1] \in 0 .. MaxData /\ Size(count + 1) = HdrParts + lens[count + 1]
  BY <1>1, <1>2, NextSent DEF RecvInv, RecvTypeOK
<1>4. /\ h \in [1 .. HdrParts -> Part] /\ h[HdrParts] = [msg |-> count + 1, part |-> HdrParts]
      /\ h[1] # Own => \A p \in 1 .. HdrParts : h[p] = [msg |-> count + 1, part |-> p]
  <2>1. k \in 0 .. Len(stream) /\ Filled + k <= HdrParts /\ k > 0
    BY <1>2
  <2>. HIDE DEF k
  <2>2. /\ Place(k) \in [1 .. HdrParts -> Part]
        /\ \A p \in 1 .. HdrParts :
             p <= Filled + k /\ Place(k)[1] # Own => Place(k)[p] = [msg |-> count + 1, part |-> p]
        /\ k > 0 => Place(k)[Filled + k] = [msg |-> count + 1, part |-> Filled + k]
    BY <1>1, <2>1, Placed
  <2>. QED
    BY <1>2, <2>1, <2>2
<1>5. Expected = [msg |-> count + 1, part |-> Filled + 1]
  BY <1>1 DEF Expected
<1>6. Filled' = 0 /\ xfered' \in None .. HdrParts - 1
  BY <1>1, <1>2 DEF Filled, None
<1>7. stream' \in Seq(Part)
  BY <1>1, <1>2, Dropped
<1>8. h \in Seq(Part)
  BY <1>2, <1>4, SeqDef
<1>. HIDE DEF k, h
<1>9. CASE pc' = "failed" /\ UNCHANGED <<acted, count>>
  BY <1>1, <1>4, <1>6, <1>7, <1>8, <1>9 DEF RecvInv, RecvTypeOK, ActedOnAsSent
<1>10. CASE h[1] # Own /\ lens[count + 1] > 0 /\ pc' = "data" /\ UNCHANGED <<acted, count>>
  <2>1. RecvTypeOK' /\ ActedOnAsSent' /\ count' <= sent'
    BY <1>1, <1>4, <1>6, <1>7, <1>8, <1>10 DEF RecvInv, RecvTypeOK, ActedOnAsSent
  <2>2. Expected' = [msg |-> count + 1, part |-> HdrParts + 1]
    BY <1>10 DEF Expected
  <2>3. Expected.part + k <= Size(count + 1) /\ Expected' = Later(Expected, k)
        /\ Expected.part + (k - 1) <= Size(count + 1)
    BY <1>2, <1>3, <1>5, <1>10, <2>2 DEF Later
  <2>4. ~(Expected.part + k > Size(count + 1))
    BY <1>2, <1>3, <1>5, <1>10
  <2>5. InOrder(stream)' /\ StreamFits'
    BY <1>1, <1>2, <2>3, <2>4, Took
  <2>6. BufferFits'
    BY <1>1, <1>3, <1>4, <1>10 DEF BufferFits
  <2>. QED
    BY <2>1, <2>5, <2>6 DEF RecvInv
<1>11. CASE h[1] # Own /\ lens[count + 1] = 0 /\ Act(h) /\ UNCHANGED pc
  <2>1. count' = count + 1 /\ acted' = h /\ pc' = "recv"
    BY <1>1, <1>11 DEF Act
  <2>2. h = Message(count + 1, lens[count + 1])
    BY <1>2, <1>4, <1>11 DEF Message
  <2>3. ActedOnAsSent'
    BY <1>1, <2>1, <2>2 DEF ActedOnAsSent, Message
  <2>4. RecvTypeOK' /\ count' <= sent'
    BY <1>1, <1>3, <1>4, <1>6, <1>7, <1>8, <2>1 DEF RecvInv, RecvTypeOK
  <2>5. Expected' = [msg |-> count + 2, part |-> 1]
    BY <1>3, <1>6, <2>1 DEF Expected
  <2>6. Expected.part + k > Size(count + 1) /\ Expected.part + (k - 1) <= Size(count + 1)
        /\ ~(Expected.part + k <= Size(count + 1))
    BY <1>2, <1>3, <1>5, <1>11
  <2>7. InOrder(stream)' /\ StreamFits'
    BY <1>1, <1>2, <1>6, <2>1, <2>5, <2>6, Took
  <2>8. BufferFits'
    BY <1>2, <1>6, <2>1 DEF BufferFits
  <2>. QED
    BY <2>3, <2>4, <2>7, <2>8 DEF RecvInv
<1>. QED
  <2>1. h[HdrParts].msg = count + 1
    BY <1>4
  <2>. QED
    BY <1>9, <1>10, <1>11, <2>1 DEF RecvHdr, k, h

\* The data of a message is complete.
LEMMA RecvDataStep == ASSUME RecvInv, RecvData PROVE RecvInv'
<1>. DEFINE k == DataLen
            d == SubSeq(stream, 1, k)
<1>1. /\ pc = "data" /\ k <= Len(stream) /\ Drop(k) /\ pc' = "recv"
      /\ acted' = buf \o d /\ count' = count + 1
      /\ UNCHANGED <<sent, lens, closed, buf, xfered, returned>>
  BY DEF RecvData, DataRead, Act
<1>2. /\ stream \in Seq(Part) /\ Len(stream) \in Nat /\ HdrParts \in Nat /\ HdrParts \in 1 .. HdrParts
      /\ buf \in [1 .. HdrParts -> Part] /\ count \in Nat /\ sent \in Nat /\ sent <= MaxMsgs
      /\ \A i \in 1 .. Len(stream) : stream[i] \in Part
  BY LenProperties, ElementOfSeq, MsgAssumption DEF RecvInv, RecvTypeOK
<1>3. /\ count < sent /\ xfered = None /\ lens[count + 1] > 0
      /\ \A p \in 1 .. HdrParts : buf[p] = [msg |-> count + 1, part |-> p]
  BY <1>1 DEF RecvInv, BufferFits
<1>4. k = lens[count + 1] /\ k \in Nat /\ k > 0 /\ k \in 0 .. MaxData /\ count + 1 \in 1 .. MaxMsgs
  BY <1>2, <1>3, MsgAssumption DEF DataLen, RecvInv, RecvTypeOK
<1>. HIDE DEF k
<1>5. k \in 1 .. Len(stream) /\ Size(count + 1) = HdrParts + k
      /\ Expected = [msg |-> count + 1, part |-> HdrParts + 1]
  BY <1>1, <1>2, <1>4 DEF Size, Expected
<1>6. Expected.part + k > Size(count + 1) /\ Expected.part + (k - 1) <= Size(count + 1)
      /\ ~(Expected.part + k <= Size(count + 1))
  BY <1>2, <1>4, <1>5
<1>7. Filled' = 0
  BY <1>1, <1>3 DEF Filled
<1>8. Expected' = [msg |-> count + 2, part |-> 1]
  BY <1>1, <1>2, <1>7 DEF Expected
<1>9. InOrder(stream)' /\ StreamFits'
  BY <1>1, <1>5, <1>6, <1>7, <1>8, Took
<1>10. BufferFits'
  BY <1>1, <1>2, <1>7 DEF BufferFits
<1>11. d \in Seq(Part) /\ Len(d) = k /\ \A i \in 1 .. k : d[i] = stream[i]
  <2>1. 1 \in Int /\ k \in Int /\ \A i \in 1 .. k : stream[i] \in Part
    BY <1>1, <1>2, <1>4
  <2>2. /\ SubSeq(stream, 1, k) \in Seq(Part)
        /\ Len(SubSeq(stream, 1, k)) = IF 1 <= k THEN k - 1 + 1 ELSE 0
        /\ \A i \in 1 .. k - 1 + 1 : SubSeq(stream, 1, k)[i] = stream[1 + i - 1]
    BY <2>1, SubSeqProperties
  <2>. QED
    BY <1>4, <2>2
<1>. HIDE DEF d
<1>12. buf \in Seq(Part) /\ Len(buf) = HdrParts
  <2>1. buf \in Seq(Part)
    BY <1>2, SeqDef
  <2>. QED
    BY <1>2, <2>1, LenProperties
<1>13. acted' = Message(count + 1, k)
  <2>. DEFINE M == Message(count + 1, k)
  <2>1. /\ buf \o d \in Seq(Part) /\ Len(buf \o d) = HdrParts + k
        /\ \A i \in 1 .. HdrParts + k :
             (buf \o d)[i] = IF i <= HdrParts THEN buf[i] ELSE d[i - HdrParts]
    BY <1>11, <1>12, ConcatProperties
  <2>2. M \in Seq(Part) /\ Len(M) = HdrParts + k
    BY <1>4, MessageSeq
  <2>3. ASSUME NEW i \in 1 .. HdrParts + k PROVE (buf \o d)[i] = M[i]
    <3>1. M[i] = [msg |-> count + 1, part |-> i]
      BY DEF Message
    <3>. HIDE DEF M
    <3>2. CASE i <= HdrParts
      BY <1>2, <1>3, <2>1, <3>1, <3>2
    <3>3. CASE i > HdrParts
      <4>1. i - HdrParts \in 1 .. k
        BY <1>2, <1>4, <3>3
      <4>2. stream[i - HdrParts] = Later(Expected, i - HdrParts - 1)
        BY <1>1, <1>5, <1>6, <4>1, FirstParts
      <4>3. stream[i - HdrParts] = [msg |-> count + 1, part |-> i]
        BY <1>2, <1>4, <1>5, <3>3, <4>2 DEF Later
      <4>. QED
        BY <1>2, <1>4, <1>11, <2>1, <3>1, <3>3, <4>1, <4>3
    <3>4. i <= HdrParts \/ i > HdrParts
      BY <1>2, <1>4
    <3>. QED
      BY <3>2, <3>3, <3>4
  <2>. HIDE DEF M
  <2>4. buf \o d = M
    BY <2>1, <2>2, <2>3, SeqEqual
  <2>. QED
    BY <1>1, <2>4 DEF M
<1>14. ActedOnAsSent'
  BY <1>1, <1>4, <1>13 DEF ActedOnAsSent, Message
<1>15. RecvTypeOK' /\ count' <= sent'
  <2>1. stream' \in Seq(Part)
    BY <1>1, <1>2, <1>5, Dropped
  <2>2. acted' \in Seq(Part)
    BY <1>1, <1>11, <1>12, ConcatProperties
  <2>3. count' \in 0 .. MaxMsgs /\ count' <= sent
    BY <1>1, <1>2, <1>3, MsgAssumption
  <2>4. xfered' \in None .. HdrParts - 1 /\ buf' \in [1 .. HdrParts -> Part]
    BY <1>1 DEF RecvInv, RecvTypeOK
  <2>5. /\ sent' \in 0 .. MaxMsgs /\ lens' \in [1 .. MaxMsgs -> 0 .. MaxData]
        /\ closed' \in BOOLEAN /\ returned' \in Seq(Part) /\ pc' \in {"recv", "data", "failed"}
    BY <1>1 DEF RecvInv, RecvTypeOK
  <2>. QED
    BY <1>1, <2>1, <2>2, <2>3, <2>4, <2>5 DEF RecvTypeOK
<1>. QED
  BY <1>9, <1>10, <1>14, <1>15 DEF RecvInv

\* Messages are acted on in the order they were sent, none lost and none put
\* together from two, for headers of any number of parts, messages of any
\* length, and any part of the buffer overwritten meanwhile that holds the
\* msg_type.
THEOREM ActsInOrder == RecvSpec => []ActedOnAsSent
<1>1. RecvInit => RecvInv
  <2>. SUFFICES ASSUME RecvInit PROVE RecvInv
    OBVIOUS
  <2>1. stream = <<>> /\ Len(stream) = 0 /\ <<>> \in Seq(Part) /\ Own \in Part
    BY EmptySeq, MsgAssumption DEF RecvInit, Own, Part
  <2>2. RecvTypeOK /\ count <= sent /\ ActedOnAsSent
    <3>1. None \in None .. HdrParts - 1
      BY MsgAssumption DEF None
    <3>2. lens \in [1 .. MaxMsgs -> 0 .. MaxData] /\ buf \in [1 .. HdrParts -> Part]
      BY <2>1, MsgAssumption DEF RecvInit
    <3>3. sent \in 0 .. MaxMsgs /\ count \in 0 .. MaxMsgs /\ count <= sent /\ ~(count > 0)
      BY MsgAssumption DEF RecvInit
    <3>. QED
      BY <2>1, <3>1, <3>2, <3>3 DEF RecvInit, RecvTypeOK, ActedOnAsSent
  <2>3. Filled = 0 /\ pc = "recv" /\ count = sent
    BY DEF RecvInit, Filled
  <2>4. InOrder(stream) /\ StreamFits
    BY <2>1, <2>3 DEF InOrder, StreamFits
  <2>5. BufferFits
    BY <2>3, MsgAssumption DEF BufferFits
  <2>. QED
    BY <2>2, <2>4, <2>5 DEF RecvInv
<1>2. RecvInv /\ [RecvNext]_recvVars => RecvInv'
  <2>. SUFFICES ASSUME RecvInv, [RecvNext]_recvVars PROVE RecvInv'
    OBVIOUS
  <2>. QED
    BY PeerSendStep, OtherSteps, RecvPartStep, RecvHdrStep, RecvDataStep DEF RecvNext
<1>3. RecvInv => ActedOnAsSent
  BY DEF RecvInv
<1>. QED
  BY <1>1, <1>2, <1>3, PTL DEF RecvSpec

-----------------------------------------------------------------------------
(* How a pane comes to be served. *)

\* the place of pane p's connection while it is open: with main, or in the
\* backlog, or with a service thread
InMain(p) == main.conn.peer = p /\ main.conn.open
Held(i, p) == backlog[i].peer = p /\ backlog[i].open
Places == 1 .. Len(backlog)

\* a pane has one connection at most, and none while it waits to come again
OneConnection(p) ==
  /\ \A i, j \in Places : Held(i, p) /\ Held(j, p) => i = j
  /\ \A i \in Places :
       Held(i, p) => ~InMain(p) /\ served[p] = 0 /\ pane[p].state = "wait" /\ answer[p] = "none"
  /\ InMain(p) =>
       /\ served[p] = 0 /\ main.pc \in {"password", "create"}
       /\ main.pc = "password" => pane[p].state = "wait" /\ answer[p] = "none"
       /\ main.pc = "create" => pane[p].state \in {"wait", "connected"}
  /\ served[p] <= 1 /\ (served[p] = 1 => pane[p].state \in {"wait", "connected"})

\* what a pane has been told is so
Told(p) ==
  /\ pane[p].state = "wait" /\ answer[p] = "none" =>
       (InMain(p) /\ main.pc = "password") \/ \E i \in Places : Held(i, p)
  /\ pane[p].state = "connected" \/ (pane[p].state = "wait" /\ answer[p] = "okay") =>
       served[p] = 1 \/ (InMain(p) /\ main.pc = "create") \/ lost[p]

\* what main may still wait before it accepts the connection at place i of the
\* backlog: that no stranger is before it is said below
Ahead(i) ==
  (IF main.pc = "sleep" THEN main.left ELSE IF main.pc = "password" THEN Pause ELSE 0)
    + (i - 1) * Pause

\* a pane that neither a stranger nor a crowd is in front of is accepted before
\* it gives up
InTime(p) ==
  pane[p].state = "wait" /\ ~behind[p] =>
    /\ pane[p].left > 0
    /\ \A i \in Places : Held(i, p) =>
         /\ pane[p].left > Ahead(i)
         /\ main.pc = "password" => ~Mute(main.conn)
         /\ \A j \in 1 .. i - 1 : ~Mute(backlog[j])

Accounted(p) == OneConnection(p) /\ Told(p) /\ InTime(p)

ConnectInv ==
  /\ TypeOK /\ (main.pc = "sleep" => main.left <= Pause)
  /\ \A p \in Panes : Accounted(p)

\* the waits, a few at a time
LEMMA Waits ==
  /\ Pause \in Nat /\ Timeout \in Nat /\ Backlog \in Nat /\ Pause > 0 /\ Pause <= Timeout
  /\ \A i \in Nat : i * Pause \in Nat /\ (i + 1) * Pause = i * Pause + Pause
BY NetAssumption

LEMMA NoConnectionFacts == NoConnection \in Connection /\ ~NoConnection.open
BY NetAssumption DEF NoConnection, Connection, Peers

\* Nothing that is said of pane p changes.
LEMMA KeptFor ==
  ASSUME NEW p \in Panes, Accounted(p), Len(backlog') = Len(backlog),
         \A i \in Places : (Held(i, p)' <=> Held(i, p)) /\ (Mute(backlog'[i]) => Mute(backlog[i])),
         InMain(p)' <=> InMain(p), main'.pc = main.pc, main'.left = main.left,
         Mute(main'.conn) => Mute(main.conn),
         pane'[p] = pane[p], answer'[p] = answer[p], behind'[p] = behind[p],
         lost'[p] = lost[p], served'[p] = served[p], backlog \in Seq(Connection)
  PROVE  Accounted(p)'
<1>1. Places' = Places /\ Len(backlog) \in Nat
  BY LenProperties DEF Places
<1>2. OneConnection(p)'
  BY <1>1 DEF Accounted, OneConnection
<1>3. Told(p)'
  BY <1>1 DEF Accounted, Told
<1>4. InTime(p)'
  <2>1. \A i \in Places : Ahead(i)' = Ahead(i)
    BY DEF Ahead
  <2>2. \A i \in Places : \A j \in 1 .. i - 1 : j \in Places
    BY <1>1 DEF Places
  <2>. QED
    BY <1>1, <2>1, <2>2 DEF Accounted, InTime
<1>. QED
  BY <1>2, <1>3, <1>4 DEF Accounted

LEMMA AllKept ==
  ASSUME ConnectInv, NEW S, S \subseteq Panes, UNCHANGED <<backlog, main>>,
         \A p \in S : pane'[p] = pane[p] /\ answer'[p] = answer[p] /\ behind'[p] = behind[p]
                      /\ lost'[p] = lost[p] /\ served'[p] = served[p]
  PROVE  \A p \in S : Accounted(p)'
<1>. TAKE p \in S
<1>1. p \in Panes /\ Accounted(p) /\ backlog \in Seq(Connection)
  BY DEF ConnectInv, TypeOK
<1>. QED
  BY <1>1, KeptFor DEF Held, InMain

\* Once peer q has closed, nothing is left of its connection, and the others
\* are as before.
LEMMA Closed ==
  ASSUME TypeOK, NEW q \in Peers, Close(q)
  PROVE  /\ backlog' \in Seq(Connection) /\ Len(backlog') = Len(backlog)
         /\ main'.pc = main.pc /\ main'.left = main.left /\ (Mute(main'.conn) => Mute(main.conn))
         /\ main' \in [pc : {"accept", "password", "create", "sleep"}, conn : Connection,
                       left : 0 .. Timeout]
         /\ served' \in [Panes -> Nat] /\ stale' \in Nat
         /\ \A p \in Panes : served'[p] = IF p = q THEN 0 ELSE served[p]
         /\ \A p \in Panes :
              /\ p = q => ~InMain(p)' /\ \A i \in Places : ~Held(i, p)'
              /\ p # q => (InMain(p)' <=> InMain(p)) /\ \A i \in Places : Held(i, p)' <=> Held(i, p)
         /\ \A i \in Places : Mute(backlog'[i]) => Mute(backlog[i])
<1>1. backlog \in Seq(Connection) /\ Len(backlog) \in Nat
      /\ \A i \in Places : backlog[i] \in Connection
  BY LenProperties, ElementOfSeq DEF TypeOK, Places
<1>2. \A c \in Connection : Without(c, q) \in Connection /\ Without(c, q).peer = c.peer
        /\ (Without(c, q).open <=> c.open /\ c.peer # q)
  <2>. TAKE c \in Connection
  <2>1. CASE c.peer # q
    BY <2>1 DEF Without
  <2>2. CASE c.peer = q
    <3>1. Without(c, q) = [c EXCEPT !.open = FALSE] /\ FALSE \in BOOLEAN
      BY <2>2 DEF Without
    <3>2. /\ [c EXCEPT !.open = FALSE] \in Connection
          /\ [c EXCEPT !.open = FALSE].peer = c.peer /\ [c EXCEPT !.open = FALSE].open = FALSE
      BY <3>1 DEF Connection
    <3>. QED
      BY <2>2, <3>1, <3>2
  <2>. QED
    BY <2>1, <2>2
<1>3. backlog' = [i \in Places |-> Without(backlog[i], q)]
  BY DEF Close, Places
<1>4. backlog' \in [Places -> Connection]
  BY <1>1, <1>2, <1>3
<1>5. backlog' \in Seq(Connection)
  BY <1>1, <1>4, SeqDef DEF Places
<1>6. Len(backlog') = Len(backlog)
  <2>1. Len(backlog') \in Nat /\ DOMAIN backlog' = 1 .. Len(backlog')
    BY <1>5, LenProperties
  <2>2. 1 .. Len(backlog') = 1 .. Len(backlog)
    BY <1>4, <2>1 DEF Places
  <2>. QED
    BY <1>1, <2>1, <2>2
<1>7. \A i \in Places : backlog'[i] = Without(backlog[i], q)
  BY <1>3
<1>8. main' = [main EXCEPT !.conn = Without(main.conn, q)] /\ main.conn \in Connection
  BY DEF Close, TypeOK
<1>9. main' \in [pc : {"accept", "password", "create", "sleep"}, conn : Connection,
                 left : 0 .. Timeout]
      /\ main'.conn = Without(main.conn, q) /\ main'.pc = main.pc /\ main'.left = main.left
      /\ (Mute(main'.conn) => Mute(main.conn))
  BY <1>2, <1>8 DEF TypeOK, Mute
<1>10. /\ served' \in [Panes -> Nat] /\ stale' \in Nat
       /\ \A p \in Panes : served'[p] = IF p = q THEN 0 ELSE served[p]
  BY DEF Close, TypeOK
<1>11. ASSUME NEW p \in Panes
       PROVE  /\ InMain(p)' <=> p # q /\ InMain(p)
              /\ \A i \in Places : Held(i, p)' <=> p # q /\ Held(i, p)
  BY <1>1, <1>2, <1>7, <1>8, <1>9 DEF InMain, Held
<1>12. \A i \in Places : Mute(backlog'[i]) => Mute(backlog[i])
  BY <1>1, <1>2, <1>7 DEF Mute
<1>. QED
  BY <1>5, <1>6, <1>8, <1>9, <1>10, <1>11, <1>12

\* A pane that waits to come again, whatever it was doing before.
LEMMA PaneRests ==
  ASSUME NEW p \in Panes, pane'[p].state \in {"connecting", "error"},
         ~InMain(p)', served'[p] = 0, \A i \in Places' : ~Held(i, p)'
  PROVE  Accounted(p)'
BY DEF Accounted, OneConnection, Told, InTime

\* A pane that does so has nothing open.
LEMMA PaneAtRest ==
  ASSUME NEW p \in Panes, TypeOK, Accounted(p), pane[p].state \in {"connecting", "error"}
  PROVE  ~InMain(p) /\ served[p] = 0 /\ \A i \in Places : ~Held(i, p)
<1>1. served[p] \in Nat
  BY DEF TypeOK
<1>. QED
  BY <1>1 DEF Accounted, OneConnection

LEMMA LeaveStep == ASSUME ConnectInv, NEW q \in Panes, Leave(q) PROVE ConnectInv'
<1>1. /\ pane' = [pane EXCEPT ![q] = [state |-> "error", left |-> Timeout]] /\ Close(q)
      /\ UNCHANGED <<answer, behind, lost, fresh, readable>> /\ TypeOK /\ q \in Peers
  BY DEF Leave, Becomes, ConnectInv, Peers
<1>2. /\ backlog' \in Seq(Connection) /\ Len(backlog') = Len(backlog)
      /\ main'.pc = main.pc /\ main'.left = main.left /\ (Mute(main'.conn) => Mute(main.conn))
      /\ \A p \in Panes : served'[p] = IF p = q THEN 0 ELSE served[p]
      /\ \A p \in Panes :
           /\ p = q => ~InMain(p)' /\ \A i \in Places : ~Held(i, p)'
           /\ p # q => (InMain(p)' <=> InMain(p)) /\ \A i \in Places : Held(i, p)' <=> Held(i, p)
      /\ \A i \in Places : Mute(backlog'[i]) => Mute(backlog[i])
  BY <1>1, Closed
<1>3. TypeOK'
  BY <1>1, Closed, Waits DEF TypeOK
<1>4. ASSUME NEW p \in Panes PROVE Accounted(p)'
  <2>1. CASE p = q
    BY <1>1, <1>2, <2>1, PaneRests DEF TypeOK, Places
  <2>2. CASE p # q
    BY <1>1, <1>2, <2>2, KeptFor DEF ConnectInv, TypeOK
  <2>. QED
    BY <2>1, <2>2
<1>. QED
  BY <1>2, <1>3, <1>4 DEF ConnectInv

\* Steps of a pane that leave its connection as it is, of strangers, of service
\* threads and of the password file.
LEMMA PaneStep ==
  ASSUME ConnectInv, NEW q \in Panes, ConnectFails(q) \/ ConnectDone(q) \/ Reconnect(q)
  PROVE  ConnectInv'
<1>1. /\ UNCHANGED <<answer, behind, lost, fresh, readable, backlog, main, served, stale>>
      /\ TypeOK /\ backlog \in Seq(Connection)
  BY DEF ConnectFails, ConnectDone, Reconnect, webcam, ConnectInv, TypeOK
<1>2. PICK st \in {"connecting", "connected", "error"}, l \in 0 .. Timeout :
        pane' = [pane EXCEPT ![q] = [state |-> st, left |-> l]]
  BY Waits DEF ConnectFails, ConnectDone, Reconnect, Becomes
<1>3. TypeOK'
  BY <1>1, <1>2 DEF TypeOK
<1>4. \A p \in Panes \ {q} : Accounted(p)'
  BY <1>1, <1>2, AllKept DEF TypeOK
<1>5. UNCHANGED <<Places, InMain(q)>> /\ \A i \in Places : Held(i, q)' <=> Held(i, q)
  BY <1>1 DEF Places, InMain, Held
<1>6. Accounted(q)'
  <2>1. CASE ConnectFails(q) \/ Reconnect(q)
    <3>1. pane[q].state \in {"connecting", "error"} /\ pane'[q].state \in {"connecting", "error"}
      BY <1>1, <2>1 DEF ConnectFails, Reconnect, Becomes, TypeOK
    <3>. QED
      BY <1>1, <1>5, <3>1, PaneAtRest, PaneRests DEF ConnectInv
  <2>2. CASE ConnectDone(q)
    <3>1. /\ pane[q].state = "wait" /\ answer[q] = "okay" /\ pane'[q].state = "connected"
      BY <1>1, <2>2 DEF ConnectDone, Becomes, TypeOK
    <3>2. Accounted(q)
      BY DEF ConnectInv
    <3>3. OneConnection(q)'
      BY <1>1, <1>5, <3>1, <3>2 DEF Accounted, OneConnection
    <3>. QED
      BY <1>1, <1>5, <3>1, <3>2, <3>3 DEF Accounted, Told, InTime
  <2>. QED
    BY <2>1, <2>2
<1>. QED
  BY <1>1, <1>3, <1>4, <1>6 DEF ConnectInv

LEMMA OutsideStep ==
  ASSUME ConnectInv, (\E s \in Strangers : StrangerLeaves(s)) \/ SvcEnds \/ FileChanges
                     \/ UNCHANGED vars
  PROVE  ConnectInv'
<1>1. ASSUME NEW s \in Strangers, StrangerLeaves(s) PROVE ConnectInv'
  <2>1. Close(s) /\ UNCHANGED <<pane, answer, behind, lost, fresh, readable>> /\ TypeOK
        /\ s \in Peers /\ s \notin Panes
    BY <1>1, NetAssumption DEF StrangerLeaves, ConnectInv, Peers
  <2>2. /\ backlog' \in Seq(Connection) /\ Len(backlog') = Len(backlog)
        /\ main'.pc = main.pc /\ main'.left = main.left /\ (Mute(main'.conn) => Mute(main.conn))
        /\ \A p \in Panes :
             served'[p] = served[p] /\ (InMain(p)' <=> InMain(p))
             /\ \A i \in Places : Held(i, p)' <=> Held(i, p)
        /\ \A i \in Places : Mute(backlog'[i]) => Mute(backlog[i])
    BY <2>1, Closed
  <2>3. TypeOK'
    BY <2>1, Closed DEF TypeOK
  <2>4. \A p \in Panes : Accounted(p)'
    BY <2>1, <2>2, KeptFor DEF ConnectInv, TypeOK
  <2>. QED
    BY <2>2, <2>3, <2>4 DEF ConnectInv
<1>2. CASE SvcEnds \/ FileChanges \/ UNCHANGED vars
  <2>1. UNCHANGED <<pane, answer, behind, lost, fresh, backlog, main, served>> /\ stale' \in Nat
    BY <1>2 DEF SvcEnds, FileChanges, vars, webcam, ConnectInv, TypeOK
  <2>2. readable' = readable \/ readable' = ~readable
    BY <1>2 DEF SvcEnds, FileChanges, vars
  <2>3. readable' \in BOOLEAN
    BY <2>2 DEF ConnectInv, TypeOK
  <2>4. TypeOK'
    BY <2>1, <2>3 DEF ConnectInv, TypeOK
  <2>5. \A p \in Panes : Accounted(p)'
    BY <2>1, AllKept
  <2>. QED
    BY <2>1, <2>4, <2>5 DEF ConnectInv
<1>. QED
  BY <1>1, <1>2

\* A connection more in the backlog.
LEMMA Arrived ==
  ASSUME TypeOK, NEW q \in Peers, Arrives(q)
  PROVE  /\ backlog' \in Seq(Connection) /\ Len(backlog) \in Nat
         /\ Len(backlog') = Len(backlog) + 1 /\ Len(backlog') <= Backlog
         /\ \A i \in Places : backlog'[i] = backlog[i] /\ i \in Places'
         /\ \A i \in Places' :
              /\ i \in Places <=> i # Len(backlog')
              /\ i \notin Places => backlog'[i].peer = q /\ backlog'[i].open
         /\ Len(backlog') \in Places' /\ Len(backlog') \in 1 .. Backlog
         /\ \A i \in Places', j \in Nat : j \in 1 .. i - 1 => j \in Places
<1>1. backlog \in Seq(Connection) /\ Len(backlog) \in Nat /\ Len(backlog) < Backlog
      /\ [peer |-> q, open |-> TRUE] \in Connection
      /\ backlog' = Append(backlog, [peer |-> q, open |-> TRUE]) /\ Backlog \in Nat
  BY LenProperties, NetAssumption DEF TypeOK, Arrives, Connection
<1>2. /\ backlog' \in Seq(Connection) /\ Len(backlog') = Len(backlog) + 1
      /\ \A i \in 1 .. Len(backlog) : backlog'[i] = backlog[i]
      /\ backlog'[Len(backlog) + 1] = [peer |-> q, open |-> TRUE]
  BY <1>1, AppendProperties
<1>3. [peer |-> q, open |-> TRUE].peer = q /\ [peer |-> q, open |-> TRUE].open
  OBVIOUS
<1>4. \A i \in Places' : i \in Places <=> i # Len(backlog')
  BY <1>1, <1>2 DEF Places
<1>5. \A i \in Places' : i \notin Places => backlog'[i].peer = q /\ backlog'[i].open
  BY <1>1, <1>2, <1>3, <1>4 DEF Places
<1>. QED
  BY <1>1, <1>2, <1>4, <1>5 DEF Places

\* It is nothing to the other panes.
LEMMA ArrivedOther ==
  ASSUME TypeOK, NEW q \in Peers, Arrives(q), UNCHANGED main,
         NEW p \in Panes, p # q, Accounted(p), pane'[p] = pane[p], answer'[p] = answer[p],
         behind'[p] = behind[p], lost'[p] = lost[p], served'[p] = served[p]
  PROVE  Accounted(p)'
<1>1. \A i \in Places' : Held(i, p)' <=> i \in Places /\ Held(i, p)
  BY Arrived DEF Held
<1>2. \A i \in Places : i \in Places' /\ backlog'[i] = backlog[i] /\ Ahead(i)' = Ahead(i)
      /\ \A j \in 1 .. i - 1 : j \in Places
  <2>1. \A i \in Places : i \in Nat /\ i \in Places' /\ backlog'[i] = backlog[i]
    BY Arrived DEF Places
  <2>. QED
    BY <2>1, Arrived DEF Ahead
<1>3. InMain(p)' <=> InMain(p)
  BY DEF InMain
<1>4. OneConnection(p)'
  BY <1>1, <1>3 DEF Accounted, OneConnection
<1>5. Told(p)'
  BY <1>1, <1>2, <1>3 DEF Accounted, Told
<1>6. InTime(p)'
  BY <1>1, <1>2, <1>3 DEF Accounted, InTime
<1>. QED
  BY <1>4, <1>5, <1>6 DEF Accounted

LEMMA StrangerArrivesStep ==
  ASSUME ConnectInv, NEW s \in Strangers, StrangerArrives(s)
  PROVE  ConnectInv'
<1>1. /\ TypeOK /\ s \in Peers /\ s \notin Panes /\ Arrives(s)
      /\ UNCHANGED <<pane, answer, behind, lost, main, readable, served, stale>> /\ fresh' \subseteq fresh
  BY NetAssumption DEF ConnectInv, StrangerArrives, Peers
<1>2. TypeOK'
  BY <1>1, Arrived DEF TypeOK
<1>3. \A p \in Panes : Accounted(p)'
  BY <1>1, ArrivedOther DEF ConnectInv
<1>. QED
  BY <1>1, <1>2, <1>3 DEF ConnectInv

LEMMA ConnectStep == ASSUME ConnectInv, NEW q \in Panes, Connect(q) PROVE ConnectInv'
<1>1. /\ TypeOK /\ q \in Peers /\ Arrives(q) /\ pane[q].state = "connecting"
      /\ pane' = [pane EXCEPT ![q] = [state |-> "wait", left |-> Timeout]]
      /\ answer' = [answer EXCEPT ![q] = "none"]
      /\ behind' = [behind EXCEPT ![q] = StrangerAhead \/ Crowded]
      /\ lost' = [lost EXCEPT ![q] = FALSE]
      /\ UNCHANGED <<fresh, main, readable, served, stale>>
  BY DEF ConnectInv, Connect, Becomes, Peers
<1>2. /\ pane'[q].state = "wait" /\ pane'[q].left = Timeout /\ answer'[q] = "none"
      /\ \A p \in Panes \ {q} : pane'[p] = pane[p] /\ answer'[p] = answer[p]
                                /\ behind'[p] = behind[p] /\ lost'[p] = lost[p]
  BY <1>1 DEF TypeOK
<1>3. behind'[q] = (StrangerAhead \/ Crowded)
  BY <1>1 DEF TypeOK
<1>4. TypeOK'
  <2>1. pane' \in [Panes -> [state : {"connecting", "wait", "connected", "error"},
                             left : 0 .. Timeout]]
    BY <1>1, Waits DEF TypeOK
  <2>2. behind' \in [Panes -> BOOLEAN]
    <3>1. (StrangerAhead \/ Crowded) \in BOOLEAN
      OBVIOUS
    <3>. QED
      BY <1>1, <3>1 DEF TypeOK
  <2>3. answer' \in [Panes -> {"none", "okay", "notokay", "closed"}]
    BY <1>1 DEF TypeOK
  <2>4. lost' \in [Panes -> BOOLEAN]
    BY <1>1 DEF TypeOK
  <2>. QED
    BY <1>1, <2>1, <2>2, <2>3, <2>4, Arrived DEF TypeOK
<1>5. \A p \in Panes \ {q} : Accounted(p)'
  BY <1>1, <1>2, ArrivedOther DEF ConnectInv
<1>6. ~InMain(q) /\ ~InMain(q)' /\ served[q] = 0 /\ served'[q] = 0
      /\ \A i \in Places : ~Held(i, q)
  BY <1>1, PaneAtRest DEF ConnectInv, InMain
<1>. PICK m \in 1 .. Backlog : m = Len(backlog')
  BY <1>1, Arrived
<1>7. m \in Places' /\ \A i \in Places' : Held(i, q)' <=> i = m
  BY <1>1, <1>6, Arrived DEF Held
<1>8. OneConnection(q)' /\ Told(q)'
  BY <1>2, <1>6, <1>7 DEF OneConnection, Told
<1>9. ASSUME ~StrangerAhead, ~Crowded
      PROVE  /\ Timeout > Ahead(m)'
             /\ main'.pc = "password" => ~Mute(main'.conn)
             /\ \A j \in 1 .. m - 1 : ~Mute(backlog'[j])
  <2>1. m \in Nat
    BY Waits
  <2>2. \A j \in 1 .. m - 1 : j \in Places /\ backlog'[j] = backlog[j]
    BY <1>1, <1>7, <2>1, Arrived
  <2>3. (m - 1) * Pause \in Int /\ (m - 1) * Pause + Pause < Timeout
    <3>1. m = Len(backlog) + 1 /\ m - 1 \in Nat /\ (m - 1) + 1 = m
      BY <1>1, Arrived
    <3>2. (m - 1) * Pause \in Nat /\ m * Pause = (m - 1) * Pause + Pause /\ m * Pause \in Nat
      BY <2>1, <3>1, Waits
    <3>3. ~(m * Pause >= Timeout)
      BY <1>9, <3>1 DEF Crowded
    <3>. QED
      BY <3>2, <3>3, Waits
  <2>4. /\ Pause \in Nat /\ Timeout \in Nat /\ main.left \in Nat
        /\ main.pc = "sleep" => main.left <= Pause
    BY Waits DEF ConnectInv, TypeOK
  <2>5. Timeout > Ahead(m)'
    BY <1>1, <2>3, <2>4 DEF Ahead
  <2>. QED
    BY <1>1, <1>9, <2>2, <2>5 DEF StrangerAhead, Places
<1>10. InTime(q)'
  <2>1. Timeout > 0
    BY Waits
  <2>2. ASSUME ~behind'[q] PROVE ~StrangerAhead /\ ~Crowded
    BY <1>3, <2>2
  <2>3. ~behind'[q] =>
          \A i \in Places' : Held(i, q)' =>
            /\ pane'[q].left > Ahead(i)'
            /\ main'.pc = "password" => ~Mute(main'.conn)
            /\ \A j \in 1 .. i - 1 : ~Mute(backlog'[j])
    BY <1>2, <1>7, <1>9, <2>2
  <2>. QED
    BY <1>2, <2>1, <2>3 DEF InTime
<1>11. Accounted(q)'
  BY <1>8, <1>10 DEF Accounted
<1>. QED
  BY <1>1, <1>4, <1>5, <1>11 DEF ConnectInv

\* A pane that main is not dealing with, before the step nor after it.
LEMMA NotDealtWith ==
  ASSUME NEW p \in Panes, Accounted(p), ~InMain(p), ~InMain(p)', UNCHANGED backlog,
         pane'[p] = pane[p], answer'[p] = answer[p], behind'[p] = behind[p],
         lost'[p] = lost[p], served'[p] = served[p], main'.pc # "password",
         pane[p].state = "wait" /\ ~behind[p] =>
           \A i \in Places : Held(i, p) => pane[p].left > Ahead(i)'
  PROVE  Accounted(p)'
<1>1. Places' = Places /\ \A i \in Places : Held(i, p)' <=> Held(i, p)
  BY DEF Places, Held
<1>2. OneConnection(p)' /\ Told(p)'
  BY <1>1 DEF Accounted, OneConnection, Told
<1>3. InTime(p)'
  BY <1>1 DEF Accounted, InTime
<1>. QED
  BY <1>2, <1>3 DEF Accounted

\* the answer that the panes hear
LEMMA Heard ==
  ASSUME TypeOK, NEW c \in Connection, NEW v \in {"none", "okay", "notokay", "closed"}, Tell(c, v)
  PROVE  /\ answer' \in [Panes -> {"none", "okay", "notokay", "closed"}]
         /\ \A p \in Panes : IF c.peer = p /\ c.open THEN answer'[p] = v
                             ELSE answer'[p] = answer[p]
<1>1. CASE c.open /\ c.peer \in Panes
  BY <1>1 DEF Tell, TypeOK
<1>2. CASE ~(c.open /\ c.peer \in Panes)
  BY <1>2 DEF Tell, TypeOK
<1>. QED
  BY <1>1, <1>2

\* Main sleeps after a failure.
LEMMA Failed ==
  ASSUME TypeOK, NEW c \in Connection, Fails(c)
  PROVE  /\ main' = [pc |-> "sleep", conn |-> NoConnection, left |-> Pause]
         /\ main' \in [pc : {"accept", "password", "create", "sleep"}, conn : Connection,
                       left : 0 .. Timeout]
         /\ \A p \in Panes : ~InMain(p)'
         /\ \A i \in Places : Ahead(i)' = Pause + (i - 1) * Pause
         /\ answer' \in [Panes -> {"none", "okay", "notokay", "closed"}]
         /\ \A p \in Panes : IF c.peer = p /\ c.open THEN answer'[p] = "closed"
                             ELSE answer'[p] = answer[p]
<1>1. main' = [pc |-> "sleep", conn |-> NoConnection, left |-> Pause] /\ Tell(c, "closed")
  BY DEF Fails, Goto
<1>2. main'.pc = "sleep" /\ main'.conn = NoConnection /\ main'.left = Pause
  BY <1>1
<1>3. Pause \in 0 .. Timeout /\ NoConnection \in Connection /\ ~NoConnection.open
  BY Waits, NoConnectionFacts
<1>4. main' \in [pc : {"accept", "password", "create", "sleep"}, conn : Connection,
                 left : 0 .. Timeout]
  BY <1>1, <1>3
<1>5. \A p \in Panes : ~InMain(p)'
  BY <1>2, <1>3 DEF InMain
<1>6. \A i \in Places : Ahead(i)' = Pause + (i - 1) * Pause
  BY <1>2 DEF Ahead
<1>7. /\ answer' \in [Panes -> {"none", "okay", "notokay", "closed"}]
      /\ \A p \in Panes : IF c.peer = p /\ c.open THEN answer'[p] = "closed"
                          ELSE answer'[p] = answer[p]
  BY <1>1, Heard
<1>. QED
  BY <1>1, <1>4, <1>5, <1>6, <1>7

\* the state of main, of which a pane that is held in the backlog is not a part
LEMMA MainFacts ==
  ASSUME ConnectInv
  PROVE  /\ TypeOK /\ main.conn \in Connection /\ main.left \in Nat /\ Len(backlog) \in Nat
         /\ backlog \in Seq(Connection)
         /\ \A i \in Places : backlog[i] \in Connection /\ i \in Nat /\ i > 0
                              /\ (i - 1) * Pause \in Nat
         /\ \A p \in Panes : Accounted(p) /\ served[p] \in Nat
                             /\ (InMain(p) => main.pc \in {"password", "create"})
<1>1. /\ TypeOK /\ main.conn \in Connection /\ main.left \in Nat /\ Len(backlog) \in Nat
      /\ backlog \in Seq(Connection)
      /\ \A i \in Places : backlog[i] \in Connection /\ i \in Nat /\ i > 0 /\ i - 1 \in Nat
  BY LenProperties, ElementOfSeq, Waits DEF ConnectInv, TypeOK, Places
<1>2. \A p \in Panes : Accounted(p) /\ served[p] \in Nat
                       /\ (InMain(p) => main.pc \in {"password", "create"})
  BY DEF ConnectInv, TypeOK, Accounted, OneConnection
<1>. QED
  BY <1>1, <1>2, Waits

LEMMA AcceptStep == ASSUME ConnectInv, Accept PROVE ConnectInv'
<1>. DEFINE h == Head(backlog)
<1>1. /\ main.pc = "accept" /\ backlog # <<>> /\ backlog' = Tail(backlog)
      /\ UNCHANGED <<pane, behind, lost, fresh, readable, served, stale>>
  BY DEF Accept
<1>2. /\ h \in Connection /\ h = backlog[1] /\ backlog' \in Seq(Connection) /\ 1 \in Places
      /\ Len(backlog') = Len(backlog) - 1
      /\ \A i \in Places' : i + 1 \in Places /\ i \in Nat /\ i > 0 /\ backlog'[i] = backlog[i + 1]
      /\ \A i \in Places : i # 1 => i - 1 \in Places' /\ i = (i - 1) + 1
  <2>1. /\ h \in Connection /\ backlog' \in Seq(Connection) /\ Len(backlog') = Len(backlog) - 1
        /\ \A i \in 1 .. Len(backlog') : backlog'[i] = backlog[i + 1]
    BY <1>1, MainFacts, HeadTailProperties
  <2>2. Len(backlog) \in Nat /\ Len(backlog) # 0
    BY <1>1, MainFacts, EmptySeq
  <2>. QED
    BY <2>1, <2>2, MainFacts DEF Places
<1>. HIDE DEF h
<1>3. \/ /\ main' = [pc |-> "password", conn |-> h, left |-> Timeout] /\ UNCHANGED answer
      \/ Fails(h)
  BY DEF Accept, Goto, h
<1>4. /\ main' \in [pc : {"accept", "password", "create", "sleep"}, conn : Connection,
                    left : 0 .. Timeout]
      /\ answer' \in [Panes -> {"none", "okay", "notokay", "closed"}]
      /\ main'.pc = "sleep" => main'.left <= Pause
  <2>1. CASE main' = [pc |-> "password", conn |-> h, left |-> Timeout] /\ UNCHANGED answer
    BY <1>2, <2>1, MainFacts, Waits DEF TypeOK
  <2>2. CASE Fails(h)
    <3>1. /\ main' = [pc |-> "sleep", conn |-> NoConnection, left |-> Pause]
          /\ main' \in [pc : {"accept", "password", "create", "sleep"}, conn : Connection,
                        left : 0 .. Timeout]
          /\ answer' \in [Panes -> {"none", "okay", "notokay", "closed"}]
      BY <1>2, <2>2, Failed, MainFacts
    <3>2. main'.left = Pause /\ Pause <= Pause
      BY <3>1, Waits
    <3>. QED
      BY <3>1, <3>2
  <2>. QED
    BY <1>3, <2>1, <2>2
<1>5. TypeOK'
  <2>1. Len(backlog') <= Backlog
    BY <1>2, MainFacts, Waits DEF TypeOK
  <2>. QED
    BY <1>1, <1>2, <1>4, <2>1, MainFacts DEF TypeOK
<1>6. ASSUME NEW p \in Panes
      PROVE  /\ \A i \in Places' : i + 1 \in Places /\ (Held(i, p)' <=> Held(i + 1, p))
             /\ \A i \in Places : i # 1 => i - 1 \in Places' /\ (Held(i - 1, p)' <=> Held(i, p))
             /\ Held(1, p) <=> h.peer = p /\ h.open
             /\ ~InMain(p)
  BY <1>1, <1>2, MainFacts DEF Held
<1>7. ASSUME NEW p \in Panes PROVE Accounted(p)'
  <2>1. ASSUME NEW i \in Places', NEW j \in Places', Held(i, p)', Held(j, p)' PROVE i = j
    <3>1. i + 1 = j + 1
      BY <1>6, <2>1, MainFacts DEF Accounted, OneConnection
    <3>. QED
      BY <1>2, <3>1
  \* what is ahead of a connection does not grow
  <2>2. ASSUME NEW i \in Places', Held(i, p)', pane'[p].state = "wait", ~behind'[p]
        PROVE  /\ pane'[p].left > Pause + (i - 1) * Pause
               /\ ~Mute(h)
               /\ \A j \in 1 .. i - 1 : ~Mute(backlog'[j])
    <3>1. /\ pane[p].left > Ahead(i + 1) /\ pane[p].left > 0
          /\ \A j \in 1 .. (i + 1) - 1 : ~Mute(backlog[j])
      BY <1>1, <1>6, <2>2, MainFacts DEF Accounted, InTime
    <3>2. i \in Nat /\ i > 0 /\ (i + 1) - 1 = i /\ i - 1 \in Nat /\ i = (i - 1) + 1
      BY <1>2
    <3>3. i * Pause = (i - 1) * Pause + Pause /\ i * Pause \in Nat /\ (i - 1) * Pause \in Nat
          /\ Pause \in Nat
      BY <3>2, Waits
    <3>4. Ahead(i + 1) = i * Pause
      BY <1>1, <3>2, <3>3 DEF Ahead
    <3>5. \A j \in 1 .. i - 1 : j \in Places' /\ j + 1 \in 1 .. i /\ backlog'[j] = backlog[j + 1]
      <4>1. Len(backlog') \in Nat
        BY <1>2, LenProperties
      <4>2. \A j \in 1 .. i - 1 : j \in Places' /\ j + 1 \in 1 .. i
        BY <3>2, <4>1 DEF Places
      <4>. QED
        BY <1>2, <4>2
    <3>6. 1 \in 1 .. i /\ \A j \in 1 .. i : ~Mute(backlog[j])
      BY <3>1, <3>2
    <3>7. pane[p].left \in Nat /\ pane[p].left > i * Pause /\ pane'[p].left = pane[p].left
      BY <1>1, <3>1, <3>4, MainFacts DEF TypeOK
    <3>8. pane'[p].left > Pause + (i - 1) * Pause
      BY <3>3, <3>7
    <3>. QED
      BY <1>2, <3>5, <3>6, <3>8
  <2>3. CASE h.peer = p /\ h.open
    <3>1. /\ served[p] = 0 /\ pane[p].state = "wait" /\ answer[p] = "none"
          /\ \A i \in Places' : ~Held(i, p)'
      <4>1. served[p] = 0 /\ pane[p].state = "wait" /\ answer[p] = "none"
        BY <1>2, <1>6, <2>3, MainFacts DEF Accounted, OneConnection
      <4>2. \A i \in Places' : i + 1 \in Places /\ i + 1 # 1
        BY <1>2
      <4>3. \A i \in Places : Held(i, p) => i = 1
        BY <1>2, <1>6, <2>3, MainFacts DEF Accounted, OneConnection
      <4>. QED
        BY <1>6, <4>1, <4>2, <4>3
    <3>2. ~behind[p] => pane[p].left > 0
      BY <3>1, MainFacts DEF Accounted, InTime
    <3>3. InTime(p)'
      BY <1>1, <3>1, <3>2 DEF InTime
    <3>4. CASE main' = [pc |-> "password", conn |-> h, left |-> Timeout] /\ UNCHANGED answer
      <4>1. InMain(p)' /\ main'.pc = "password"
        BY <2>3, <3>4 DEF InMain
      <4>. QED
        BY <1>1, <3>1, <3>3, <3>4, <4>1 DEF Accounted, OneConnection, Told
    <3>5. CASE Fails(h)
      <4>1. ~InMain(p)' /\ answer'[p] = "closed"
        BY <1>2, <2>3, <3>5, Failed, MainFacts
      <4>. QED
        BY <1>1, <3>1, <3>3, <4>1 DEF Accounted, OneConnection, Told
    <3>. QED
      BY <1>3, <3>4, <3>5
  <2>4. CASE ~(h.peer = p /\ h.open)
    <3>1. answer'[p] = answer[p] /\ ~InMain(p)'
      BY <1>2, <1>3, <2>4, Failed, MainFacts DEF InMain
    <3>2. main'.pc \in {"password", "sleep"}
          /\ \A i \in Places' : Ahead(i)' = Pause + (i - 1) * Pause
      <4>1. CASE main' = [pc |-> "password", conn |-> h, left |-> Timeout] /\ UNCHANGED answer
        BY <4>1 DEF Ahead
      <4>2. CASE Fails(h)
        <5>1. main' = [pc |-> "sleep", conn |-> NoConnection, left |-> Pause]
          BY <1>2, <4>2, Failed, MainFacts
        <5>. QED
          BY <5>1 DEF Ahead
      <4>. QED
        BY <1>3, <4>1, <4>2
    <3>3. main'.pc = "password" => main'.conn = h
      BY <1>2, <1>3, Failed, MainFacts
    <3>4. OneConnection(p)'
      BY <1>1, <1>6, <2>1, <3>1, MainFacts DEF Accounted, OneConnection
    <3>5. Told(p)'
      <4>1. ASSUME pane[p].state = "wait", answer[p] = "none" PROVE \E i \in Places' : Held(i, p)'
        <5>1. PICK i \in Places : Held(i, p)
          BY <1>6, <4>1, MainFacts DEF Accounted, Told
        <5>2. i # 1
          BY <1>6, <2>4, <5>1
        <5>. QED
          BY <1>6, <5>1, <5>2
      <4>. QED
        BY <1>1, <1>6, <3>1, <4>1, MainFacts DEF Accounted, Told
    <3>6. InTime(p)'
      <4>1. pane[p].state = "wait" /\ ~behind[p] => pane[p].left > 0
        BY MainFacts DEF Accounted, InTime
      <4>. QED
        BY <1>1, <2>2, <3>2, <3>3, <4>1 DEF InTime
    <3>. QED
      BY <3>4, <3>5, <3>6 DEF Accounted
  <2>. QED
    BY <2>3, <2>4
<1>. QED
  BY <1>4, <1>5, <1>7 DEF ConnectInv

\* Main gives up a connection that no pane holds.
LEMMA FailStep ==
  ASSUME ConnectInv, main.pc = "password", Fails(main.conn), \A p \in Panes : ~InMain(p),
         UNCHANGED <<pane, behind, lost, fresh, backlog, readable, served, stale>>
  PROVE  ConnectInv'
<1>1. /\ main' = [pc |-> "sleep", conn |-> NoConnection, left |-> Pause]
      /\ main' \in [pc : {"accept", "password", "create", "sleep"}, conn : Connection,
                    left : 0 .. Timeout]
      /\ \A p \in Panes : ~InMain(p)'
      /\ \A i \in Places : Ahead(i)' = Pause + (i - 1) * Pause
      /\ answer' \in [Panes -> {"none", "okay", "notokay", "closed"}]
      /\ \A p \in Panes : answer'[p] = answer[p]
  <2>1. TypeOK /\ main.conn \in Connection
    BY MainFacts
  <2>2. \A p \in Panes : IF main.conn.peer = p /\ main.conn.open THEN answer'[p] = "closed"
                         ELSE answer'[p] = answer[p]
    BY <2>1, Failed
  <2>. QED
    BY <2>1, <2>2, Failed DEF InMain
<1>2. TypeOK'
  BY <1>1, MainFacts DEF TypeOK
<1>3. main'.pc = "sleep" /\ main'.left <= Pause
  BY <1>1, Waits
<1>4. \A i \in Places : Ahead(i)' = Ahead(i)
  BY <1>1 DEF Ahead
<1>5. ASSUME NEW p \in Panes PROVE Accounted(p)'
  <2>1. pane[p].state = "wait" /\ ~behind[p] =>
          \A i \in Places : Held(i, p) => pane[p].left > Ahead(i)'
    BY <1>4, MainFacts DEF Accounted, InTime
  <2>. QED
    BY <1>1, <1>3, <2>1, NotDealtWith, MainFacts
<1>. QED
  BY <1>2, <1>3, <1>5 DEF ConnectInv

LEMMA NoPasswordStep == ASSUME ConnectInv, NoPassword PROVE ConnectInv'
<1>1. main.pc = "password" /\ main.conn.peer \in Strangers /\ Fails(main.conn)
      /\ UNCHANGED <<pane, behind, lost, fresh, backlog, readable, served, stale>>
  BY DEF NoPassword
<1>2. \A p \in Panes : ~InMain(p)
  BY <1>1, NetAssumption DEF InMain
<1>. QED
  BY <1>1, <1>2, FailStep

LEMMA AnswerStep == ASSUME ConnectInv, Answer PROVE ConnectInv'
<1>. DEFINE v == IF main.conn.peer \in Knowing THEN "okay" ELSE "notokay"
<1>1. /\ main.pc = "password" /\ UNCHANGED <<pane, behind, lost, fresh, backlog, readable, served, stale>>
      /\ \/ main' = [pc |-> "create", conn |-> main.conn, left |-> 0] /\ Tell(main.conn, v)
         \/ ~main.conn.open /\ Fails(main.conn)
  BY DEF Answer, Goto
<1>2. CASE ~main.conn.open /\ Fails(main.conn)
  BY <1>1, <1>2, FailStep DEF InMain
<1>3. CASE main' = [pc |-> "create", conn |-> main.conn, left |-> 0] /\ Tell(main.conn, v)
  <2>1. v \in {"okay", "notokay"}
    OBVIOUS
  <2>. HIDE DEF v
  <2>2. /\ answer' \in [Panes -> {"none", "okay", "notokay", "closed"}]
        /\ \A p \in Panes : IF InMain(p) THEN answer'[p] = v ELSE answer'[p] = answer[p]
    BY <1>3, <2>1, Heard, MainFacts DEF InMain
  <2>3. main'.pc = "create" /\ main'.conn = main.conn /\ 0 \in 0 .. Timeout
    BY <1>3, Waits
  <2>4. TypeOK'
    BY <1>1, <1>3, <2>2, <2>3, MainFacts DEF TypeOK
  <2>5. \A i \in Places : Ahead(i)' = (i - 1) * Pause /\ Ahead(i) = Pause + (i - 1) * Pause
    BY <1>1, <2>3, MainFacts, Waits DEF Ahead
  <2>6. Places' = Places
    BY <1>1 DEF Places
  <2>7. ASSUME NEW p \in Panes PROVE Accounted(p)'
    <3>1. /\ Accounted(p) /\ (InMain(p)' <=> InMain(p))
          /\ \A i \in Places : Held(i, p)' <=> Held(i, p)
      BY <1>1, <2>3, MainFacts DEF InMain, Held
    <3>2. CASE InMain(p)
      <4>1. /\ served[p] = 0 /\ pane[p].state = "wait" /\ answer'[p] = v
            /\ \A i \in Places : ~Held(i, p)
        BY <1>1, <2>2, <3>1, <3>2 DEF Accounted, OneConnection
      <4>2. OneConnection(p)' /\ Told(p)'
        BY <1>1, <2>1, <2>3, <2>6, <3>1, <3>2, <4>1 DEF OneConnection, Told
      <4>3. InTime(p)'
        BY <1>1, <2>6, <3>1, <4>1 DEF Accounted, InTime
      <4>. QED
        BY <4>2, <4>3 DEF Accounted
    <3>3. CASE ~InMain(p)
      <4>1. ASSUME pane[p].state = "wait", ~behind[p], NEW i \in Places, Held(i, p)
            PROVE  pane[p].left > Ahead(i)'
        <5>1. pane[p].left > Ahead(i) /\ pane[p].left \in Nat
          BY <3>1, <4>1, MainFacts DEF Accounted, InTime, TypeOK
        <5>2. (i - 1) * Pause \in Nat /\ Pause \in Nat
          BY Waits, MainFacts
        <5>. QED
          BY <2>5, <5>1, <5>2
      <4>. QED
        BY <1>1, <2>2, <2>3, <3>1, <3>3, <4>1, NotDealtWith
    <3>. QED
      BY <3>2, <3>3
  <2>. QED
    BY <2>3, <2>4, <2>7 DEF ConnectInv
<1>. QED
  BY <1>1, <1>2, <1>3

LEMMA CreateThreadStep == ASSUME ConnectInv, CreateThread PROVE ConnectInv'
<1>1. /\ main.pc = "create" /\ UNCHANGED <<pane, answer, behind, lost, fresh, backlog, readable>>
      /\ main' = [pc |-> "accept", conn |-> NoConnection, left |-> 0]
  BY DEF CreateThread, Goto
<1>2. main'.pc = "accept" /\ main'.conn = NoConnection /\ 0 \in 0 .. Timeout
  BY <1>1, Waits
<1>3. /\ served' \in [Panes -> Nat] /\ stale' \in Nat
      /\ \A p \in Panes : served'[p] = IF InMain(p) THEN served[p] + 1 ELSE served[p]
  <2>1. CASE main.conn.open
    <3>1. served' = [served EXCEPT ![main.conn.peer] = @ + 1] /\ stale' = stale
      BY <2>1 DEF CreateThread
    <3>2. served \in [Panes -> Nat] /\ stale \in Nat /\ \A p \in Panes : served[p] + 1 \in Nat
      BY MainFacts DEF TypeOK
    <3>3. served' \in [Panes -> Nat]
      BY <3>1, <3>2
    <3>4. \A p \in Panes : served'[p] = IF main.conn.peer = p THEN served[p] + 1 ELSE served[p]
      BY <3>1, <3>2
    <3>. QED
      BY <2>1, <3>1, <3>2, <3>3, <3>4 DEF InMain
  <2>2. CASE ~main.conn.open
    BY <2>2, MainFacts DEF CreateThread, TypeOK, InMain
  <2>. QED
    BY <2>1, <2>2
<1>4. TypeOK'
  BY <1>1, <1>2, <1>3, MainFacts, NoConnectionFacts DEF TypeOK
<1>5. \A i \in Places : Ahead(i)' = Ahead(i)
  BY <1>1, <1>2 DEF Ahead
<1>6. Places' = Places
  BY <1>1 DEF Places
<1>7. ASSUME NEW p \in Panes PROVE Accounted(p)'
  <2>1. /\ Accounted(p) /\ ~InMain(p)' /\ \A i \in Places : Held(i, p)' <=> Held(i, p)
    BY <1>1, <1>2, MainFacts, NoConnectionFacts DEF InMain, Held
  <2>2. CASE InMain(p)
    <3>1. /\ served'[p] = 1 /\ pane[p].state \in {"wait", "connected"}
          /\ \A i \in Places : ~Held(i, p)
      BY <1>1, <1>3, <2>1, <2>2 DEF Accounted, OneConnection
    <3>2. ~(pane[p].state = "wait" /\ answer[p] = "none")
      BY <1>1, <2>1, <3>1 DEF Accounted, Told
    <3>3. OneConnection(p)' /\ Told(p)'
      BY <1>1, <1>6, <2>1, <3>1, <3>2 DEF OneConnection, Told
    <3>4. InTime(p)'
      BY <1>1, <1>6, <2>1, <3>1 DEF Accounted, InTime
    <3>. QED
      BY <3>3, <3>4 DEF Accounted
  <2>3. CASE ~InMain(p)
    <3>1. pane[p].state = "wait" /\ ~behind[p] =>
            \A i \in Places : Held(i, p) => pane[p].left > Ahead(i)'
      BY <1>5, <2>1 DEF Accounted, InTime
    <3>. QED
      BY <1>1, <1>2, <1>3, <2>1, <2>3, <3>1, NotDealtWith
  <2>. QED
    BY <2>2, <2>3
<1>. QED
  BY <1>2, <1>4, <1>7 DEF ConnectInv

LEMMA CreateFailsStep == ASSUME ConnectInv, CreateFails PROVE ConnectInv'
<1>1. /\ main.pc = "create" /\ UNCHANGED <<pane, answer, behind, fresh, backlog, readable, served, stale>>
      /\ main' = [pc |-> "accept", conn |-> NoConnection, left |-> 0]
  BY DEF CreateFails, Goto
<1>2. main'.pc = "accept" /\ main'.conn = NoConnection /\ 0 \in 0 .. Timeout
  BY <1>1, Waits
<1>3. /\ lost' \in [Panes -> BOOLEAN]
      /\ \A p \in Panes : IF InMain(p) THEN lost'[p] ELSE lost'[p] = lost[p]
  <2>1. CASE main.conn.open
    BY <2>1, MainFacts DEF CreateFails, TypeOK, InMain
  <2>2. CASE ~main.conn.open
    BY <2>2, MainFacts DEF CreateFails, TypeOK, InMain
  <2>. QED
    BY <2>1, <2>2
<1>4. TypeOK'
  BY <1>1, <1>2, <1>3, MainFacts, NoConnectionFacts DEF TypeOK
<1>5. \A i \in Places : Ahead(i)' = Ahead(i)
  BY <1>1, <1>2 DEF Ahead
<1>6. Places' = Places
  BY <1>1 DEF Places
<1>7. ASSUME NEW p \in Panes PROVE Accounted(p)'
  <2>1. /\ Accounted(p) /\ ~InMain(p)' /\ \A i \in Places : Held(i, p)' <=> Held(i, p)
    BY <1>1, <1>2, MainFacts, NoConnectionFacts DEF InMain, Held
  <2>2. CASE InMain(p)
    <3>1. /\ served'[p] = 0 /\ lost'[p] /\ pane[p].state \in {"wait", "connected"}
          /\ \A i \in Places : ~Held(i, p)
      BY <1>1, <1>3, <2>1, <2>2 DEF Accounted, OneConnection
    <3>2. ~(pane[p].state = "wait" /\ answer[p] = "none")
      BY <1>1, <2>1, <3>1 DEF Accounted, Told
    <3>3. OneConnection(p)' /\ Told(p)'
      BY <1>1, <1>6, <2>1, <3>1, <3>2 DEF OneConnection, Told
    <3>4. InTime(p)'
      BY <1>1, <1>6, <2>1, <3>1 DEF Accounted, InTime
    <3>. QED
      BY <3>3, <3>4 DEF Accounted
  <2>3. CASE ~InMain(p)
    <3>1. pane[p].state = "wait" /\ ~behind[p] =>
            \A i \in Places : Held(i, p) => pane[p].left > Ahead(i)'
      BY <1>5, <2>1 DEF Accounted, InTime
    <3>. QED
      BY <1>1, <1>2, <1>3, <2>1, <2>3, <3>1, NotDealtWith
  <2>. QED
    BY <2>2, <2>3
<1>. QED
  BY <1>2, <1>4, <1>7 DEF ConnectInv

\* A service thread that ends leaves its pane with a connection of its own that
\* nobody serves.
LEMMA ThreadEndsStep ==
  ASSUME ConnectInv, NEW q \in Panes, ThreadEnds(q)
  PROVE  ConnectInv'
<1>1. /\ served[q] > 0 /\ served' = [served EXCEPT ![q] = 0] /\ lost' = [lost EXCEPT ![q] = TRUE]
      /\ UNCHANGED <<pane, answer, behind, fresh, backlog, main, readable, stale>> /\ TypeOK
  BY DEF ThreadEnds, ConnectInv
<1>2. /\ served'[q] = 0 /\ lost'[q]
      /\ \A p \in Panes \ {q} : served'[p] = served[p] /\ lost'[p] = lost[p]
  BY <1>1 DEF TypeOK
<1>3. TypeOK'
  BY <1>1 DEF TypeOK
<1>4. \A p \in Panes \ {q} : Accounted(p)'
  BY <1>1, <1>2, AllKept
<1>5. Places' = Places /\ (InMain(q)' <=> InMain(q)) /\ \A i \in Places : Held(i, q)' <=> Held(i, q)
  BY <1>1 DEF Places, InMain, Held
<1>6. served[q] # 0 /\ Accounted(q)
  BY <1>1 DEF ConnectInv, TypeOK
<1>7. ~InMain(q) /\ \A i \in Places : ~Held(i, q)
  BY <1>6 DEF Accounted, OneConnection
<1>8. OneConnection(q)' /\ Told(q)'
  BY <1>1, <1>2, <1>5, <1>6, <1>7 DEF Accounted, OneConnection, Told
<1>9. InTime(q)'
  BY <1>1, <1>5, <1>6, <1>7 DEF Accounted, InTime
<1>10. Accounted(q)'
  BY <1>8, <1>9 DEF Accounted
<1>. QED
  BY <1>1, <1>3, <1>4, <1>10 DEF ConnectInv

LEMMA SleptStep == ASSUME ConnectInv, Slept PROVE ConnectInv'
<1>1. /\ main.pc = "sleep" /\ main.left = 0 /\ main' = [pc |-> "accept", conn |-> main.conn, left |-> 0]
      /\ UNCHANGED <<pane, answer, behind, lost, fresh, backlog, readable, served, stale>>
  BY DEF Slept, Goto
<1>2. main'.pc = "accept" /\ main'.conn = main.conn /\ 0 \in 0 .. Timeout
  BY <1>1, Waits
<1>3. TypeOK'
  BY <1>1, <1>2, MainFacts DEF TypeOK
<1>4. \A i \in Places : Ahead(i)' = Ahead(i)
  BY <1>1, <1>2 DEF Ahead
<1>5. ASSUME NEW p \in Panes PROVE Accounted(p)'
  <2>1. Accounted(p) /\ ~InMain(p) /\ ~InMain(p)'
    BY <1>1, <1>2, MainFacts DEF InMain
  <2>2. pane[p].state = "wait" /\ ~behind[p] =>
          \A i \in Places : Held(i, p) => pane[p].left > Ahead(i)'
    BY <1>4, <2>1 DEF Accounted, InTime
  <2>. QED
    BY <1>1, <1>2, <2>1, <2>2, NotDealtWith
<1>. QED
  BY <1>2, <1>3, <1>5 DEF ConnectInv

\* Time passes only while main sleeps or waits for a stranger: a pane that no
\* stranger is in front of comes as much closer as it has waited.
LEMMA TickStep == ASSUME ConnectInv, Tick PROVE ConnectInv'
<1>1. /\ ~Working /\ pane' = [p \in Panes |-> [pane[p] EXCEPT !.left = Waited(p)]]
      /\ main' = [main EXCEPT !.left = Sooner(main.left)]
      /\ UNCHANGED <<answer, behind, lost, fresh, backlog, readable, served, stale>>
  BY DEF Tick
<1>2. ASSUME NEW t \in 0 .. Timeout
      PROVE  Sooner(t) \in 0 .. Timeout /\ Sooner(t) <= t /\ (t > 0 => Sooner(t) = t - 1)
  BY Waits DEF Sooner
<1>3. /\ main' \in [pc : {"accept", "password", "create", "sleep"}, conn : Connection,
                    left : 0 .. Timeout]
      /\ main'.pc = main.pc /\ main'.conn = main.conn /\ main'.left = Sooner(main.left)
  BY <1>1, <1>2, MainFacts DEF TypeOK
<1>4. ASSUME NEW p \in Panes
      PROVE  /\ pane'[p] \in [state : {"connecting", "wait", "connected", "error"}, left : 0 .. Timeout]
             /\ pane'[p].state = pane[p].state
             /\ pane[p].state # "connected" => pane'[p].left = Sooner(pane[p].left)
             /\ pane[p].left \in 0 .. Timeout
  <2>1. pane'[p] = [pane[p] EXCEPT !.left = Waited(p)]
        /\ pane[p] \in [state : {"connecting", "wait", "connected", "error"}, left : 0 .. Timeout]
    BY <1>1, MainFacts DEF TypeOK
  <2>2. Waited(p) \in 0 .. Timeout /\ (pane[p].state # "connected" => Waited(p) = Sooner(pane[p].left))
    BY <1>2, <2>1, Waits DEF Waited
  <2>. QED
    BY <2>1, <2>2
<1>5. pane' \in [Panes -> [state : {"connecting", "wait", "connected", "error"},
                           left : 0 .. Timeout]]
  BY <1>1, <1>4
<1>6. TypeOK'
  BY <1>1, <1>3, <1>5, MainFacts DEF TypeOK
<1>7. main'.pc = "sleep" => main'.left <= Pause
  <2>1. main.left \in 0 .. Timeout /\ (main.pc = "sleep" => main.left <= Pause)
    BY MainFacts DEF ConnectInv, TypeOK
  <2>. QED
    BY <1>2, <1>3, <2>1, Waits
<1>8. Places' = Places
  BY <1>1 DEF Places
<1>9. ASSUME NEW p \in Panes PROVE Accounted(p)'
  <2>1. /\ Accounted(p) /\ (InMain(p)' <=> InMain(p))
        /\ \A i \in Places : Held(i, p)' <=> Held(i, p)
    BY <1>1, <1>3, MainFacts DEF InMain, Held
  <2>2. OneConnection(p)' /\ Told(p)'
    BY <1>1, <1>3, <1>4, <1>8, <2>1 DEF Accounted, OneConnection, Told
  <2>3. ASSUME pane[p].state = "wait", ~behind[p]
        PROVE  /\ pane'[p].left > 0
               /\ \A i \in Places : Held(i, p) =>
                    /\ pane'[p].left > Ahead(i)'
                    /\ main.pc # "password"
                    /\ \A j \in 1 .. i - 1 : ~Mute(backlog[j])
    <3>1. answer[p] = "none" /\ pane[p].left # 0
      BY <1>1, <2>3 DEF Working
    <3>2. ASSUME main.pc = "password" PROVE Mute(main.conn) /\ main.conn.peer \in Strangers
      <4>1. main.conn.peer \notin Panes /\ main.conn.open
        BY <1>1, <3>2 DEF Working, SentPassword
      <4>. QED
        BY <4>1, MainFacts DEF Connection, Peers, Mute
    <3>3. PICK i \in Places : Held(i, p)
      BY <2>1, <2>3, <3>1, <3>2, NetAssumption DEF Accounted, Told, InMain
    <3>4. main.pc # "password" /\ main.pc # "create" /\ pane[p].left > Ahead(i)
      BY <1>1, <2>1, <2>3, <3>2, <3>3 DEF Working, Accounted, InTime
    <3>5. main.pc # "accept"
      <4>1. backlog # <<>>
        BY <3>3, EmptySeq DEF Places
      <4>. QED
        BY <1>1, <4>1 DEF Working
    <3>6. main.pc = "sleep" /\ main.left # 0 /\ main.left \in 0 .. Timeout
      <4>1. main.pc = "sleep" /\ main.left \in 0 .. Timeout
        BY <3>4, <3>5, MainFacts DEF TypeOK
      <4>. QED
        BY <1>1, <4>1 DEF Working
    <3>7. main'.left = main.left - 1 /\ pane'[p].left = pane[p].left - 1
      BY <1>2, <1>3, <1>4, <2>3, <3>1, <3>6
    <3>8. \A k \in Places : Ahead(k)' = Ahead(k) - 1 /\ Ahead(k)' \in Nat
      <4>1. \A k \in Places : Ahead(k) = main.left + (k - 1) * Pause
                             /\ Ahead(k)' = main'.left + (k - 1) * Pause
        BY <1>3, <3>6 DEF Ahead
      <4>2. \A k \in Places : (k - 1) * Pause \in Nat
        BY MainFacts
      <4>3. main.left \in Nat /\ main'.left \in Nat
        BY <3>6, <3>7, Waits
      <4>. QED
        BY <3>7, <4>1, <4>2, <4>3
    <3>9. \A k \in Places : Held(k, p) =>
            pane[p].left > Ahead(k) /\ \A j \in 1 .. k - 1 : ~Mute(backlog[j])
      BY <2>1, <2>3 DEF Accounted, InTime
    <3>10. \A k \in Places : Held(k, p) => pane'[p].left > Ahead(k)'
      <4>1. pane[p].left \in Int /\ \A k \in Places : Ahead(k) \in Int
        BY <1>4, <3>6, MainFacts DEF Ahead
      <4>. QED
        BY <3>7, <3>8, <3>9, <4>1
    <3>11. pane'[p].left > 0
      BY <1>4, <3>3, <3>7, <3>8, <3>10
    <3>. QED
      BY <3>4, <3>9, <3>10, <3>11
  <2>4. InTime(p)'
    BY <1>1, <1>3, <1>4, <1>8, <2>1, <2>3 DEF InTime
  <2>. QED
    BY <2>2, <2>4 DEF Accounted
<1>. QED
  BY <1>6, <1>7, <1>9 DEF ConnectInv

LEMMA ConnectInvInit == Init => ConnectInv
<1>. SUFFICES ASSUME Init PROVE ConnectInv
  OBVIOUS
<1>1. /\ pane = [p \in Panes |-> [state |-> "connecting", left |-> 0]]
      /\ answer = [p \in Panes |-> "none"] /\ behind = [p \in Panes |-> FALSE]
      /\ lost = [p \in Panes |-> FALSE]
      /\ fresh = Strangers /\ backlog = <<>> /\ readable \in BOOLEAN
      /\ main = [pc |-> "accept", conn |-> NoConnection, left |-> 0]
      /\ served = [p \in Panes |-> 0] /\ stale = 0 /\ 0 \in 0 .. Timeout
  BY Waits DEF Init
<1>2. backlog \in Seq(Connection) /\ Len(backlog) = 0
  BY <1>1, EmptySeq
<1>3. TypeOK
  BY <1>1, <1>2, Waits, NoConnectionFacts DEF TypeOK
<1>4. main.pc = "accept" /\ \A p \in Panes : ~InMain(p)
  BY <1>1, NoConnectionFacts DEF InMain
<1>5. Places = {}
  BY <1>2 DEF Places
<1>6. \A p \in Panes : Accounted(p)
  BY <1>1, <1>4, <1>5 DEF Accounted, OneConnection, Told, InTime
<1>. QED
  BY <1>3, <1>4, <1>6 DEF ConnectInv

LEMMA ConnectInvStep == ConnectInv /\ [Next]_vars => ConnectInv'
<1>. SUFFICES ASSUME ConnectInv, [Next]_vars PROVE ConnectInv'
  OBVIOUS
<1>1. CASE \E p \in Panes : Connect(p)
  BY <1>1, ConnectStep
<1>2. CASE \E p \in Panes : ConnectFails(p) \/ ConnectDone(p) \/ Reconnect(p)
  BY <1>2, PaneStep
<1>3. CASE \E p \in Panes : ConnectRefused(p) \/ ConnectTimesOut(p) \/ RecvTimesOut(p)
                            \/ LinkBreaks(p)
  BY <1>3, LeaveStep DEF ConnectRefused, ConnectTimesOut, RecvTimesOut, LinkBreaks
<1>4. CASE \E s \in Strangers : StrangerArrives(s)
  BY <1>4, StrangerArrivesStep
<1>5. CASE (\E s \in Strangers : StrangerLeaves(s)) \/ SvcEnds \/ FileChanges \/ UNCHANGED vars
  BY <1>5, OutsideStep
<1>6. CASE Accept \/ Answer \/ NoPassword \/ CreateThread \/ CreateFails \/ Slept
  BY <1>6, AcceptStep, AnswerStep, NoPasswordStep, CreateThreadStep, CreateFailsStep, SleptStep
<1>7. CASE Tick
  BY <1>7, TickStep
<1>8. CASE \E p \in Panes : ThreadEnds(p)
  BY <1>8, ThreadEndsStep
<1>. QED
  BY <1>1, <1>2, <1>3, <1>4, <1>5, <1>6, <1>7, <1>8 DEF Next, PaneSteps, MainSteps

LEMMA ConnectInvHolds == Spec => []ConnectInv
BY ConnectInvInit, ConnectInvStep, PTL DEF Spec

\* A pane is served by one thread at most; and once it was told that its password
\* is right by one exactly, or main is about to create it, unless that thread ended
\* or was not created: however many panes, strangers and places there are.
THEOREM ServedByOne == Spec => []ServedOnce
<1>1. ASSUME ConnectInv PROVE ServedOnce
  <2>. SUFFICES ASSUME NEW p \in Panes
                PROVE  /\ served[p] + Created(p) <= 1
                       /\ pane[p].state = "connected" /\ ~lost[p] => served[p] + Created(p) = 1
    BY DEF ServedOnce
  <2>1. Accounted(p) /\ served[p] \in Nat /\ main.conn \in Connection
    BY <1>1, MainFacts
  <2>2. main.conn = [peer |-> p, open |-> TRUE] <=> InMain(p)
    <3>1. main.conn = [peer |-> main.conn.peer, open |-> main.conn.open]
          /\ main.conn.open \in BOOLEAN
      BY <2>1 DEF Connection
    <3>2. CASE main.conn.open
      <4>1. main.conn = [peer |-> main.conn.peer, open |-> TRUE]
        BY <3>1, <3>2
      <4>2. main.conn = [peer |-> p, open |-> TRUE] => main.conn.peer = p
        OBVIOUS
      <4>3. main.conn.peer = p => main.conn = [peer |-> p, open |-> TRUE]
        BY <4>1
      <4>. QED
        BY <3>2, <4>2, <4>3 DEF InMain
    <3>3. CASE ~main.conn.open
      <4>1. main.conn # [peer |-> p, open |-> TRUE]
        BY <3>3
      <4>. QED
        BY <3>3, <4>1 DEF InMain
    <3>. QED
      BY <3>2, <3>3
  <2>3. Created(p) = IF InMain(p) /\ main.pc = "create" THEN 1 ELSE 0
    BY <2>2 DEF Created
  <2>4. InMain(p) => served[p] = 0
    BY <2>1 DEF Accounted, OneConnection
  <2>5. served[p] <= 1
    BY <2>1 DEF Accounted, OneConnection
  <2>6. pane[p].state = "connected" /\ ~lost[p] => served[p] = 1 \/ (InMain(p) /\ main.pc = "create")
    BY <2>1 DEF Accounted, Told
  <2>. QED
    BY <2>1, <2>3, <2>4, <2>5, <2>6
<1>. QED
  BY <1>1, ConnectInvHolds, PTL

\* The wait of a pane ends without an answer only if a stranger, or a crowd whose
\* failures take a timeout, was in front of it when it connected, whatever the
\* other panes do and however the waits and the backlog are chosen.
THEOREM NotDelayed == Spec => []DelayedOnlyBehind
<1>1. ConnectInv => DelayedOnlyBehind
  BY DEF ConnectInv, Accounted, InTime, DelayedOnlyBehind
<1>. QED
  BY <1>1, ConnectInvHolds, PTL

=============================================================================
