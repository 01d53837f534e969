------------------------------ MODULE MsgRecv ------------------------------
(***************************************************************************)
(* One end of a connection receiving messages with net_recv of net.c: the  *)
(* header non-blocking, which may take several calls, then the data of a   *)
(* frame blocking.                                                         *)
(*                                                                         *)
(* Between two calls for the same header the caller builds its own message *)
(* in the buffer that net_recv is filling: a command in webcam_thread of   *)
(* viewer.c, the status message in wc_svc_webcam of wc_webcam.c.           *)
(*                                                                         *)
(* A message is split into parts, the pieces in which TCP may deliver it.  *)
(* Parts 1 .. HdrParts are the header; the first holds msg_type, the last  *)
(* data_len.                                                               *)
(***************************************************************************)
EXTENDS Integers, Sequences

CONSTANTS
  HdrParts,      \* parts of a header
  Overwritten,   \* parts of the buffer that building a message overwrites
  Timed,         \* NON_BLOCKING_WITH_TIMEOUT, or _NO_TIMEOUT
  MaxMsgs,       \* bound: messages the peer sends
  MaxData        \* parts of data after a header, at most

ASSUME MsgAssumption ==
  /\ HdrParts \in Nat /\ HdrParts > 1
  /\ Overwritten \subseteq 1 .. HdrParts /\ 1 \in Overwritten
  /\ Timed \in BOOLEAN /\ MaxMsgs \in Nat /\ MaxData \in Nat

Part == [msg : 0 .. MaxMsgs, part : 0 .. HdrParts + MaxData]
Own == [msg |-> 0, part |-> 0]
None == -1

VARIABLES
  sent,      \* messages the peer has sent
  lens,      \* data_len of each
  stream,    \* parts on their way
  closed,    \* the peer has closed
  buf,       \* nb_recv_buff, the msg of the caller
  xfered,    \* nb_recv_xfered, None while nb_recv_buff is NULL
  pc,        \* "recv", "data" or "failed"
  returned,  \* history: what net_recv last returned as a header
  acted,     \* history: the message last acted on
  count      \* history: messages acted on

recvVars == <<sent, lens, stream, closed, buf, xfered, pc, returned, acted, count>>
history == <<returned, acted, count>>

\* Types; a header that is still being received is not full.
RecvTypeOK ==
  /\ sent \in 0 .. MaxMsgs /\ lens \in [1 .. MaxMsgs -> 0 .. MaxData]
  /\ stream \in Seq(Part) /\ closed \in BOOLEAN
  /\ buf \in [1 .. HdrParts -> Part]
  /\ xfered \in None .. HdrParts - 1
  /\ pc \in {"recv", "data", "failed"}
  /\ returned \in Seq(Part) /\ acted \in Seq(Part)
  /\ count \in 0 .. MaxMsgs

RecvInit ==
  /\ sent = 0 /\ lens = [m \in 1 .. MaxMsgs |-> 0]
  /\ stream = <<>> /\ closed = FALSE
  /\ buf = [p \in 1 .. HdrParts |-> Own]
  /\ xfered = None /\ pc = "recv"
  /\ returned = <<>> /\ acted = <<>> /\ count = 0

Message(m, l) == [p \in 1 .. HdrParts + l |-> [msg |-> m, part |-> p]]

-----------------------------------------------------------------------------
(* The peer. *)

PeerSend(l) ==
  /\ ~closed /\ sent < MaxMsgs
  /\ sent' = sent + 1
  /\ lens' = [lens EXCEPT ![sent + 1] = l]
  /\ stream' = stream \o Message(sent + 1, l)
  /\ UNCHANGED <<closed, buf, xfered, pc, history>>

\* it closes, having sent at least a part of what is in the stream
PeerClose ==
  /\ ~closed /\ closed' = TRUE
  /\ \E k \in 0 .. Len(stream) : stream' = SubSeq(stream, 1, k)
  /\ UNCHANGED <<sent, lens, buf, xfered, pc, history>>

-----------------------------------------------------------------------------
(* The caller. *)

Filled == IF xfered = None THEN 0 ELSE xfered

\* the buffer once the first k parts of the stream are placed in it
Place(k) ==
  [p \in 1 .. HdrParts |-> IF p \in Filled + 1 .. Filled + k THEN stream[p - Filled] ELSE buf[p]]

Drop(k) == stream' = SubSeq(stream, k + 1, Len(stream))

Act(message) == acted' = message /\ count' = count + 1

\* the header is still incomplete with k more parts
More(k) == Filled + k < HdrParts

\* recv returns k parts that leave the header incomplete; at the end of a
\* closed stream k is 0 too
RecvPart(k) ==
  /\ pc = "recv" /\ k <= Len(stream) /\ More(k)
  /\ buf' = Place(k) /\ xfered' = Filled + k
  /\ Drop(k)
  /\ UNCHANGED <<sent, lens, closed, pc, history>>

\* the header is complete: its msg_type is looked at
RecvHdr ==
  LET k == HdrParts - Filled
  IN  /\ pc = "recv" /\ k <= Len(stream)
      /\ buf' = Place(k) /\ xfered' = None
      /\ Drop(k)
      /\ returned' = Place(k)
      /\ \/ /\ Place(k)[1] = Own              \* invalid msg_type
            /\ pc' = "failed" /\ UNCHANGED <<acted, count>>
         \/ /\ Place(k)[1] # Own /\ lens[Place(k)[HdrParts].msg] > 0
            /\ pc' = "data" /\ UNCHANGED <<acted, count>>
         \/ /\ Place(k)[1] # Own /\ lens[Place(k)[HdrParts].msg] = 0
            /\ Act(Place(k)) /\ UNCHANGED pc
      /\ UNCHANGED <<sent, lens, closed>>

DataLen == lens[buf[HdrParts].msg]

\* mutant: the data of a frame that is not wanted is left in the stream
BugDataRead == 0

\* parts read from the stream as data
DataRead == DataLen

RecvData ==
  /\ pc = "data" /\ DataLen <= Len(stream)
  /\ Act(buf \o SubSeq(stream, 1, DataLen))
  /\ Drop(DataRead)
  /\ pc' = "recv"
  /\ UNCHANGED <<sent, lens, closed, buf, xfered, returned>>

Fail ==
  /\ pc' = "failed"
  /\ UNCHANGED <<sent, lens, stream, closed, buf, xfered, history>>

\* the peer has closed, or the time is up
RecvDataFails == pc = "data" /\ DataLen > Len(stream) /\ Fail

\* mutant: the timeout ends with the first part received
BugTimesOut == Timed /\ xfered = 0

\* a header was asked for and 10 seconds have passed since
TimesOut == Timed /\ xfered # None

RecvTimeout == pc = "recv" /\ TimesOut /\ Fail

\* net_send fails
SendOwnFails == pc = "recv" /\ closed /\ Fail

\* a message is built in the buffer, and sent
SendOwn ==
  /\ pc = "recv"
  /\ buf' = [p \in 1 .. HdrParts |-> IF p \in Overwritten THEN Own ELSE buf[p]]
  /\ UNCHANGED <<sent, lens, stream, closed, xfered, pc, history>>

-----------------------------------------------------------------------------
RecvNext ==
  \/ \E l \in 0 .. MaxData : PeerSend(l)
  \/ PeerClose
  \/ \E k \in 0 .. HdrParts - 1 : RecvPart(k)
  \/ RecvHdr \/ RecvData \/ RecvDataFails \/ RecvTimeout \/ SendOwn \/ SendOwnFails

RecvSpec == RecvInit /\ [][RecvNext]_recvVars

(* The caller asks again every millisecond and the timers run.             *)
RecvFairness ==
  /\ WF_recvVars(\E k \in 0 .. HdrParts - 1 : RecvPart(k))
  /\ WF_recvVars(RecvHdr) /\ WF_recvVars(RecvData)
  /\ WF_recvVars(RecvDataFails) /\ WF_recvVars(RecvTimeout)

RecvFairSpec == RecvSpec /\ RecvFairness

-----------------------------------------------------------------------------
(* Properties. *)

\* Messages are acted on in the order they were sent, none lost and none put
\* together from two, however TCP splits them and whatever the caller built
\* in the buffer meanwhile: that only ends the connection.
ActedOnAsSent == count > 0 => acted = Message(count, lens[count])

\* A connection the peer has closed is given up, though recv says nothing but
\* "no data": the timeout of a header that never comes ends it.
CloseNoticed == closed ~> pc = "failed"

\* What net_recv returns as a header is a header the peer sent.
ReceivedAsSent ==
  returned # <<>> =>
    \E m \in 1 .. sent : returned = Message(m, 0)

=============================================================================
