---------------------------- MODULE DataChannel ----------------------------
(***************************************************************************)
(* One webrtc::DataChannel object (talk/app/webrtc/datachannel.cc) and the *)
(* part of its provider it talks to: WebRtcSession, MediaStreamSignaling,  *)
(* cricket::DataChannel and the stream of the SCTP engine.                 *)
(*                                                                         *)
(* Every member function is an operator from the object's record to the    *)
(* object's next record, under the name it has in the code; what the       *)
(* transport answers to a send is a parameter of it.  An action is one     *)
(* whole handler that the signaling thread runs.                           *)
(*                                                                         *)
(* Data is abstract: a message is its number and its size.  ASSERT is the  *)
(* one of a release build, which does nothing; the record keeps the names  *)
(* of the functions whose ASSERT would have failed.                        *)
(***************************************************************************)
EXTENDS Integers, Sequences, FiniteSets

CONSTANTS DataChannelType,              \* "DCT_SCTP" or "DCT_RTP"
          Roles,                        \* the open_handshake_role of a run
          Sizes,                        \* message sizes
          kMaxQueuedReceivedDataBytes,
          kMaxQueuedSendDataBytes,
          AllocResults,                 \* what AllocateSctpSid may return
          MaxSends, MaxArrivals         \* bounds of the environment

VARIABLES
    dc,            \* the DataChannel and its provider's view of it
    posted,        \* MSG_CHANNELREADY is in the signaling thread's queue
    roleKnown,     \* GetSslRole succeeds
    ready,         \* cricket::DataChannel::ready_to_send_data_
    closedPosted,  \* MSG_STREAMCLOSEDREMOTELY is in the queue
    desc,          \* RTP: the description created and not yet set
    sends,         \* messages the application has given to Send
    arrived,       \* messages of the peer that have reached the channel
    heard          \* the channel has processed a message of the peer

vars == <<dc, posted, roleKnown, ready, closedPosted, desc, sends, arrived, heard>>

SCTP == DataChannelType = "DCT_SCTP"
RTP == DataChannelType = "DCT_RTP"

ASSUME ConstantsOK ==
    /\ DataChannelType \in {"DCT_SCTP", "DCT_RTP"}
    /\ Roles \subseteq {"kOpener", "kAcker", "kNone"}
    /\ Sizes \subseteq Nat \ {0}
    /\ kMaxQueuedReceivedDataBytes \in Nat
    /\ kMaxQueuedSendDataBytes \in Nat
    /\ AllocResults \subseteq BOOLEAN
    /\ MaxSends \in Nat
    /\ MaxArrivals \in Nat

SendDataResult == {"SDR_SUCCESS", "SDR_BLOCK", "SDR_ERROR"}
DataState == {"kConnecting", "kOpen", "kClosing", "kClosed"}
StreamState == {"none", "open", "closing"}

Packet == [n : Nat, size : Sizes]
WireMessage == [type : {"CONTROL", "DATA"}, n : Nat, ordered : BOOLEAN]

-----------------------------------------------------------------------------
(* PacketQueue: packets and the running count of their bytes.              *)

\* The bytes of a sequence of packets, each named by packet and offset.
Bytes(packets) == UNION {{i} \X (1 .. packets[i].size) : i \in DOMAIN packets}
TotalSize(packets) == Cardinality(Bytes(packets))

EmptyQueue == [packets |-> <<>>, byte_count |-> 0]
Empty(q) == q.packets = <<>>
Push(q, p) == [packets |-> Append(q.packets, p), byte_count |-> q.byte_count + p.size]

\* Mutant: the byte count is not decremented.
Pop_KeepsCount(q, k) ==
    [packets |-> SubSeq(q.packets, k + 1, Len(q.packets)), byte_count |-> q.byte_count]

\* Pop, k times.
Pop(q, k) ==
    [packets    |-> SubSeq(q.packets, k + 1, Len(q.packets)),
     byte_count |-> q.byte_count - TotalSize(SubSeq(q.packets, 1, k))]

-----------------------------------------------------------------------------
(* The provider: WebRtcSession, MediaStreamSignaling and the engine.       *)

ConnectDataChannel(s) == [s EXCEPT !.connected = s.transport]

\* The engine refuses a stream that is open or still being reset.
AddSctpDataStream(s) ==
    [s EXCEPT !.stream = IF s.transport /\ @ = "none" THEN "open" ELSE @]

RemoveSctpDataStream(s) ==
    [s EXCEPT !.listed = FALSE, !.stream = IF @ = "open" THEN "closing" ELSE @]

\* Mutant: the engine sends data on a stream it does not know.
DataResult_AnyStream(s, r) == IF s.transport THEN r ELSE "SDR_ERROR"

\* Without a data_channel_ SendData returns false with the result untouched,
\* which the callers treat as an error; the SCTP engine refuses data, not
\* control messages, on a stream that is not open.
ControlResult(s, r) == IF s.transport THEN r ELSE "SDR_ERROR"
DataResult(s, r) ==
    IF s.transport /\ (SCTP => s.stream = "open") THEN r ELSE "SDR_ERROR"

-----------------------------------------------------------------------------
(* The member functions of DataChannel.                                    *)

\* ASSERT(cond) in function f.
Asserted(s, f, cond) == IF cond THEN s ELSE [s EXCEPT !.asserts = @ \cup {f}]

SetState(s, st) == [s EXCEPT !.state = st, !.was_closed = @ \/ st = "kClosed"]

DisconnectFromTransport(s) ==
    IF ~s.connected THEN s
    ELSE LET d == [s EXCEPT !.connected = FALSE]
         IN IF SCTP /\ s.id >= 0 THEN RemoveSctpDataStream(d) ELSE d

\* The kClosing case of UpdateState, the only one Close and DoClose reach.
ClosingUpdate(s) ==
    LET d == DisconnectFromTransport(s)
    IN IF ~d.send_ssrc_set /\ ~d.receive_ssrc_set THEN SetState(d, "kClosed") ELSE d

Close(s) ==
    IF s.state = "kClosed" THEN s
    ELSE ClosingUpdate(SetState([s EXCEPT !.send_ssrc = 0, !.send_ssrc_set = FALSE],
                                "kClosing"))

DoClose(s) ==
    IF s.state = "kClosed" THEN s
    ELSE ClosingUpdate(SetState([s EXCEPT !.receive_ssrc_set = FALSE,
                                          !.send_ssrc_set = FALSE], "kClosing"))

DeliverQueuedReceivedData(s) ==
    IF s.was_ever_writable /\ s.observer
    THEN [s EXCEPT !.delivered = @ \o s.queued_received.packets,
                   !.queued_received = EmptyQueue]
    ELSE s

IsOpener(s) == s.role = "kOpener"

\* The channel's one control message: OPEN from the opener, OPEN_ACK from the
\* acker.  It is queued by its presence.  The last conjunct of the ASSERT, that an
\* opener is not negotiated, is how a role is given: InternalDataChannelInit makes
\* kNone of negotiated.
SendControlMessage(s, r) ==
    LET a == Asserted(s, "SendControlMessage", SCTP /\ s.was_ever_writable /\ s.id >= 0)
        res == ControlResult(s, r)
    IN CASE res = "SDR_SUCCESS" ->
              [a EXCEPT !.wire = Append(@, [type |-> "CONTROL", n |-> 0,
                                            ordered |-> s.ordered \/ IsOpener(s)]),
                        !.waiting_for_open_ack = @ \/ IsOpener(s)]
         [] res = "SDR_BLOCK" -> [a EXCEPT !.queued_control = @ + 1]
         [] OTHER -> Close(a)

\* Mutant: an empty queue is not recognised.
SendQueuedControlMessages_NoEmptyTest(s, r) ==
    SendControlMessage([s EXCEPT !.queued_control = @ - 1], r)

\* Mutant: the queue is read but not swapped out.
SendQueuedControlMessages_NoSwap(s, r) ==
    IF s.queued_control = 0 THEN s ELSE SendControlMessage(s, r)

\* The queue never holds more than one message (ControlSentOnce below), so
\* one answer of the transport is enough.
SendQueuedControlMessages(s, r) ==
    IF s.queued_control = 0 THEN s
    ELSE SendControlMessage([s EXCEPT !.queued_control = 0], r)

\* Mutant: matching SSRC flags suffice, whatever the state.
MayOpen_AnyState(s) == s.state # "kClosing" /\ s.send_ssrc_set = s.receive_ssrc_set

MayOpen(s) == s.state = "kConnecting" /\ s.send_ssrc_set = s.receive_ssrc_set

Opened(s, r) ==
    DeliverQueuedReceivedData(SetState(SendQueuedControlMessages(s, r), "kOpen"))

\* r: the answer to the queued control message.
UpdateState(s, r) ==
    IF MayOpen(s)
    THEN LET c == IF RTP /\ ~s.connected THEN ConnectDataChannel(s) ELSE s
         IN IF s.was_ever_writable THEN Opened(c, r) ELSE c
    ELSE IF s.state = "kClosing" THEN ClosingUpdate(s) ELSE s

\* Mutant: the wait for the OPEN_ACK is ignored.
DataOnWire_NoWait(s, p) == [type |-> "DATA", n |-> p.n, ordered |-> s.ordered]

\* Data is sent as ordered while the opener waits for the OPEN_ACK.
DataOnWire(s, p) ==
    [type |-> "DATA", n |-> p.n, ordered |-> s.ordered \/ s.waiting_for_open_ack]

\* The first k queued messages are sent and the next one, if any, gets r.
SendQueuedDataMessages(s, k, r) ==
    LET a == Asserted(s, "SendQueuedDataMessages", s.was_ever_writable /\ s.state = "kOpen")
        q == s.queued_send.packets
        m == IF DataResult(s, "SDR_SUCCESS") = "SDR_SUCCESS" THEN k ELSE 0
        b == [a EXCEPT !.wire = @ \o [i \in 1 .. m |-> DataOnWire(s, q[i])],
                       !.queued_send = Pop(@, m)]
    IN IF m < Len(q) /\ DataResult(s, r) = "SDR_ERROR" THEN Close(b) ELSE b

QueueSendDataMessage(s, p) ==
    IF s.queued_send.byte_count >= kMaxQueuedSendDataBytes THEN Close(s)
    ELSE [s EXCEPT !.queued_send = Push(@, p)]

\* SendDataMessage(buffer, true).
SendDataMessage(s, p, r) ==
    LET res == DataResult(s, r)
    IN CASE res = "SDR_SUCCESS" -> [s EXCEPT !.wire = Append(@, DataOnWire(s, p))]
         [] res # "SDR_SUCCESS" /\ ~SCTP -> s
         [] res = "SDR_BLOCK" /\ SCTP -> QueueSendDataMessage(s, p)
         [] OTHER -> Close(s)

FirstWritable(s, r1, r2) ==
    LET w == [s EXCEPT !.was_ever_writable = TRUE]
        c == IF SCTP /\ s.role # "kNone" THEN SendControlMessage(w, r1) ELSE w
    IN Asserted(UpdateState(c, r2), "OnChannelReady", Empty(s.queued_send))

\* Mutant: only the control queue is flushed.
Unblock_ControlOnly(s, r1, r2, k) == SendQueuedControlMessages(s, r1)

Unblock(s, r1, r2, k) == SendQueuedDataMessages(SendQueuedControlMessages(s, r1), k, r2)

\* r1: the answer to the control message, r2: to what follows it; k: how many
\* queued data messages are sent.
OnChannelReady(s, r1, r2, k) ==
    CASE ~s.was_ever_writable -> FirstWritable(s, r1, r2)
      [] s.was_ever_writable /\ s.state = "kOpen" -> Unblock(s, r1, r2, k)
      [] OTHER -> s

\* A message of the peer: OPEN_ACK, or data p.
OnOpenAck(s) == [s EXCEPT !.waiting_for_open_ack = FALSE]

\* Mutant: an overflow empties the queue and leaves the channel open.
ReceiveOverflow_NoClose(s) == [s EXCEPT !.queued_received = EmptyQueue]

ReceiveOverflow(s) ==
    LET c == [s EXCEPT !.queued_received = EmptyQueue] IN IF RTP THEN c ELSE Close(c)

OnDataReceived(s, p) ==
    LET d == [s EXCEPT !.waiting_for_open_ack = FALSE]
    IN IF s.was_ever_writable /\ s.observer
       THEN [d EXCEPT !.delivered = Append(@, p)]
       ELSE IF s.queued_received.byte_count + p.size > kMaxQueuedReceivedDataBytes
            THEN ReceiveOverflow(d)
            ELSE [d EXCEPT !.queued_received = Push(@, p)]

OnTransportChannelCreated(s) ==
    LET c == IF s.connected THEN s ELSE ConnectDataChannel(s)
    IN IF s.id >= 0 THEN AddSctpDataStream(c) ELSE c

SetSctpSid(s) == AddSctpDataStream([Asserted(s, "SetSctpSid", s.id < 0) EXCEPT !.id = 0])

SetSendSsrc(s, ssrc) ==
    IF s.send_ssrc_set THEN s
    ELSE UpdateState([s EXCEPT !.send_ssrc = ssrc, !.send_ssrc_set = TRUE], "SDR_SUCCESS")

SetReceiveSsrc(s, ssrc) ==
    IF s.receive_ssrc_set THEN s
    ELSE UpdateState([s EXCEPT !.receive_ssrc = ssrc, !.receive_ssrc_set = TRUE],
                     "SDR_SUCCESS")

-----------------------------------------------------------------------------
(* The object as its constructor and Init leave it.                        *)

Constructed(role, ordered, id, transport, stream) ==
    [role |-> role, ordered |-> ordered, id |-> id, state |-> "kConnecting",
     observer |-> FALSE, waiting_for_open_ack |-> FALSE, was_ever_writable |-> FALSE,
     connected |-> FALSE, send_ssrc_set |-> FALSE, receive_ssrc_set |-> FALSE,
     send_ssrc |-> 0, receive_ssrc |-> 0,
     queued_control |-> 0, queued_received |-> EmptyQueue, queued_send |-> EmptyQueue,
     transport |-> transport, listed |-> TRUE, stream |-> stream,
     wire |-> <<>>, delivered |-> <<>>, was_closed |-> FALSE, asserts |-> {}]

\* stale: the sid is one whose stream the engine is still resetting.
CreateDataChannel(role, ordered, id, transport, stale) ==
    LET s == Constructed(role, ordered, id, transport, IF stale THEN "closing" ELSE "none")
    IN IF SCTP THEN OnTransportChannelCreated(s) ELSE s

\* Mutant: no MSG_CHANNELREADY is posted.
PostsChannelReady_Never(isReady) == FALSE

\* A channel created after the transport got ready has missed its signal.
PostsChannelReady(isReady) == SCTP /\ isReady

Init ==
    /\ \E role \in Roles, ordered, transport, stale, known \in BOOLEAN, id \in {-1, 0} :
         /\ dc = CreateDataChannel(role, ordered, id, transport, stale)
         /\ roleKnown = known
         /\ known => transport /\ id = 0
         /\ role = "kAcker" => known
         /\ stale => transport /\ id = 0
         /\ RTP => id = -1 /\ ~known
    /\ ready \in BOOLEAN
    /\ ready => dc.transport /\ (SCTP => roleKnown)
    /\ posted = PostsChannelReady(ready)
    /\ closedPosted = FALSE
    /\ desc = IF RTP THEN "without" ELSE "none"
    /\ sends = 0 /\ arrived = 0 /\ heard = FALSE

env == <<posted, roleKnown, ready, closedPosted, desc, sends, arrived, heard>>

-----------------------------------------------------------------------------
(* What the application calls.                                             *)

RegisterObserver ==
    /\ dc' = DeliverQueuedReceivedData([dc EXCEPT !.observer = TRUE])
    /\ UNCHANGED env

UnregisterObserver ==
    /\ dc' = [dc EXCEPT !.observer = FALSE]
    /\ UNCHANGED env

AppClose ==
    /\ dc' = Close(dc)
    /\ UNCHANGED env

SendAllowed(s) == s.state = "kOpen"

\* Mutant: a new message does not wait behind the queued ones.
SendOrQueue_Overtakes(s, p, r) == SendDataMessage(s, p, r)

SendOrQueue(s, p, r) ==
    IF Empty(s.queued_send) THEN SendDataMessage(s, p, r)
    ELSE QueueSendDataMessage(Asserted(s, "Send", SCTP), p)

\* A message of size 0 is accepted and dropped, a step that changes nothing.
Send(size, r) ==
    /\ SendAllowed(dc)
    /\ sends < MaxSends
    /\ sends' = sends + 1
    /\ dc' = SendOrQueue(dc, [n |-> sends', size |-> size], r)
    /\ UNCHANGED <<posted, roleKnown, ready, closedPosted, desc, arrived, heard>>

-----------------------------------------------------------------------------
(* What the signaling thread's queue and the transport call.               *)

OnMessage(r1, r2, k) ==
    /\ posted
    /\ posted' = FALSE
    /\ dc' = OnChannelReady(dc, r1, r2, k)
    /\ UNCHANGED <<roleKnown, ready, closedPosted, desc, sends, arrived, heard>>

ReadyToSendData(r1, r2, k) ==
    /\ dc.connected /\ dc.transport
    /\ SCTP => roleKnown
    /\ ready' = TRUE
    /\ dc' = OnChannelReady(dc, r1, r2, k)
    /\ UNCHANGED <<posted, roleKnown, closedPosted, desc, sends, arrived, heard>>

\* The peer of an opener knows of the channel from the OPEN message.
PeerMaySend ==
    /\ dc.connected /\ dc.transport
    /\ SCTP => dc.id >= 0 /\ (IsOpener(dc) => dc.wire # <<>>)
    /\ RTP => dc.receive_ssrc # 0

ReceiveOpenAck ==
    /\ SCTP /\ IsOpener(dc) /\ PeerMaySend
    /\ dc' = OnOpenAck(dc)
    /\ heard' = TRUE
    /\ UNCHANGED <<posted, roleKnown, ready, closedPosted, desc, sends, arrived>>

ReceiveData(size) ==
    /\ PeerMaySend
    /\ arrived < MaxArrivals
    /\ arrived' = arrived + 1
    /\ heard' = TRUE
    /\ dc' = OnDataReceived(dc, [n |-> arrived', size |-> size])
    /\ UNCHANGED <<posted, roleKnown, ready, closedPosted, desc, sends>>

\* The worker thread erases the stream the peer reset and posts the closure.
OnStreamClosedRemotely ==
    /\ SCTP /\ dc.id >= 0 /\ dc.stream = "open"
    /\ dc' = [dc EXCEPT !.stream = "none"]
    /\ closedPosted' = TRUE
    /\ UNCHANGED <<posted, roleKnown, ready, desc, sends, arrived, heard>>

\* Mutant: only an open channel is closed.
CloseListed_OpenOnly(s) ==
    IF s.listed /\ s.id >= 0 /\ s.state = "kOpen" THEN Close(s) ELSE s

CloseListed(s) == IF s.listed /\ s.id >= 0 THEN Close(s) ELSE s

OnRemoteSctpDataChannelClosed ==
    /\ closedPosted
    /\ closedPosted' = FALSE
    /\ dc' = CloseListed(dc)
    /\ UNCHANGED <<posted, roleKnown, ready, desc, sends, arrived, heard>>

\* The engine has the acknowledgment of the reset.
ResetAcknowledged ==
    /\ dc.stream = "closing"
    /\ dc' = [dc EXCEPT !.stream = "none"]
    /\ UNCHANGED env

-----------------------------------------------------------------------------
(* What session negotiation calls.                                         *)

\* SetLocal/RemoteDescription of an SCTP session: CreateChannels, and
\* OnDtlsRoleReadyForSctp once the DTLS role is negotiated.
SetSctpDescription(known, allocated) ==
    /\ SCTP
    /\ roleKnown => known
    /\ known => dc.transport
    /\ roleKnown' = known
    /\ LET c == [dc EXCEPT !.transport = TRUE]
           t == IF dc.transport \/ ~dc.listed THEN c ELSE OnTransportChannelCreated(c)
       IN dc' = IF known /\ dc.listed /\ dc.id < 0 /\ allocated THEN SetSctpSid(t) ELSE t
    /\ UNCHANGED <<posted, ready, closedPosted, desc, sends, arrived, heard>>

\* CreateOffer/CreateAnswer of an RTP session: SetStreams.
CreateDescription ==
    /\ RTP
    /\ desc' = IF dc.listed /\ dc.state \in {"kConnecting", "kOpen"}
               THEN "with" ELSE "without"
    /\ UNCHANGED <<dc, posted, roleKnown, ready, closedPosted, sends, arrived, heard>>

DropClosed(s) == [s EXCEPT !.listed = @ /\ s.state # "kClosed"]

\* UpdateLocalRtpDataChannels and UpdateClosingDataChannels(true).
SetLocalRtpDescription ==
    /\ RTP /\ desc # "none"
    /\ desc' = "none"
    /\ LET t == [dc EXCEPT !.transport = TRUE]
       IN dc' = CASE ~dc.listed -> t
                  [] dc.listed /\ desc = "with" -> SetSendSsrc(t, 1)
                  [] OTHER -> DropClosed(SetSendSsrc(t, 0))
    /\ UNCHANGED <<posted, roleKnown, ready, closedPosted, sends, arrived, heard>>

\* UpdateRemoteRtpDataChannels and UpdateClosingDataChannels(false).
SetRemoteRtpDescription(has) ==
    /\ RTP
    /\ LET t == [dc EXCEPT !.transport = TRUE]
       IN dc' = CASE ~dc.listed -> t
                  [] dc.listed /\ has -> SetReceiveSsrc(t, 2)
                  [] OTHER -> DropClosed(DoClose(t))
    /\ UNCHANGED env

\* Mutant: the list is emptied and the channels are not told.
OnDataChannelClose_Silent(s) == [s EXCEPT !.listed = FALSE]

\* OnDataEngineClose for every listed channel.
OnDataChannelClose(s) ==
    IF s.listed THEN DoClose([s EXCEPT !.listed = FALSE]) ELSE s

\* RemoveUnusedChannelsAndTransports: the transport and its queued messages go.
DestroyTransport ==
    /\ dc.transport
    /\ dc' = [OnDataChannelClose(dc) EXCEPT !.transport = FALSE, !.stream = "none"]
    /\ roleKnown' = FALSE
    /\ ready' = FALSE
    /\ closedPosted' = FALSE
    /\ UNCHANGED <<posted, desc, sends, arrived, heard>>

-----------------------------------------------------------------------------
Next ==
    \/ RegisterObserver
    \/ UnregisterObserver
    \/ AppClose
    \/ \E size \in Sizes, r \in SendDataResult : Send(size, r)
    \/ \E r1, r2 \in SendDataResult, k \in 0 .. Len(dc.queued_send.packets) :
         OnMessage(r1, r2, k)
    \/ \E r1, r2 \in SendDataResult, k \in 0 .. Len(dc.queued_send.packets) :
         ReadyToSendData(r1, r2, k)
    \/ ReceiveOpenAck
    \/ \E size \in Sizes : ReceiveData(size)
    \/ OnStreamClosedRemotely
    \/ OnRemoteSctpDataChannelClosed
    \/ ResetAcknowledged
    \/ \E known \in BOOLEAN, allocated \in AllocResults :
         SetSctpDescription(known, allocated)
    \/ CreateDescription
    \/ SetLocalRtpDescription
    \/ \E has \in BOOLEAN : SetRemoteRtpDescription(has)
    \/ DestroyTransport

Spec == Init /\ [][Next]_vars

=============================================================================
