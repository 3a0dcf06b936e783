----------------------- MODULE DataChannelProperties -----------------------
(***************************************************************************)
(* What a DataChannel must keep to, whatever the application, the          *)
(* transport, the peer and the negotiation do to it, and what the          *)
(* repository says of it that the code does not keep to.                   *)
(***************************************************************************)
EXTENDS DataChannel

PacketQueue == [packets : Seq(Packet), byte_count : Int]

DataChannelRecord ==
    [role : {"kOpener", "kAcker", "kNone"}, ordered : BOOLEAN, id : {-1, 0},
     state : DataState,
     observer : BOOLEAN, waiting_for_open_ack : BOOLEAN, was_ever_writable : BOOLEAN,
     connected : BOOLEAN, send_ssrc_set : BOOLEAN, receive_ssrc_set : BOOLEAN,
     send_ssrc : {0, 1}, receive_ssrc : {0, 2},
     queued_control : Nat, queued_received : PacketQueue, queued_send : PacketQueue,
     transport : BOOLEAN, listed : BOOLEAN, stream : StreamState,
     wire : Seq(WireMessage), delivered : Seq(Packet), was_closed : BOOLEAN,
     asserts : SUBSET {"SendControlMessage", "SendQueuedDataMessages",
                       "OnChannelReady", "SetSctpSid", "Send"}]

\* The members of the DataChannel, its queues and the environment's counters
\* keep their types.
TypeOK ==
    /\ dc \in DataChannelRecord
    /\ posted \in BOOLEAN
    /\ roleKnown \in BOOLEAN
    /\ ready \in BOOLEAN
    /\ closedPosted \in BOOLEAN
    /\ desc \in {"none", "with", "without"}
    /\ sends \in Nat
    /\ arrived \in Nat
    /\ heard \in BOOLEAN

\* The data messages among what went on the wire, each at its place.
DataPlaces(w) == {i \in DOMAIN w : w[i].type = "DATA"}
WireData(s) == [i \in DataPlaces(s.wire) |-> s.wire[i]]
ControlOnWire(s) == \E i \in DOMAIN s.wire : s.wire[i].type = "CONTROL"

\* PacketQueue::byte_count_, a size_t that Pop decrements and buffered_amount()
\* reports, is the size of what is queued, and neither queue outgrows its limit:
\* received data never exceeds it, sent data by less than one message
\* (OnDataReceived, QueueSendDataMessage).
QueuesAreBounded ==
    /\ dc.queued_received.byte_count = TotalSize(dc.queued_received.packets)
    /\ dc.queued_send.byte_count = TotalSize(dc.queued_send.packets)
    /\ dc.queued_received.byte_count <= kMaxQueuedReceivedDataBytes
    /\ \A i \in DOMAIN dc.queued_send.packets :
         i = Len(dc.queued_send.packets) =>
           dc.queued_send.byte_count - dc.queued_send.packets[i].size
             < kMaxQueuedSendDataBytes

\* Over SCTP, what is on the wire followed by what SendDataMessage queued is what
\* the application sent, in order and without a gap, however blocking, retries
\* from OnChannelReady and new calls of Send interleave; only a channel that was
\* closed has dropped a message.
SentInOrder ==
    SCTP =>
      LET out == WireData(dc)
          count == Cardinality(DOMAIN out)
          queue == dc.queued_send.packets
      IN /\ \A i \in DOMAIN out : out[i].n = Cardinality({j \in DOMAIN out : j <= i})
         /\ \A i \in DOMAIN queue : queue[i].n = count + i
         /\ dc.was_closed \/ count + Len(queue) = sends

\* A channel closed before it was ever connected stays listed, and a transport
\* created later connects it although it is closed.
Revived(s) == s.was_closed /\ s.connected

\* What the observer got, followed by what waits for an observer or for the first
\* OnChannelReady, is what arrived: nothing overtakes a queued message, and over
\* SCTP nothing is lost unless the channel was closed.
DeliveredInOrder ==
    LET in == dc.delivered \o dc.queued_received.packets
    IN ~Revived(dc) =>
         /\ \A i, j \in DOMAIN in : i < j => in[i].n < in[j].n
         /\ SCTP => dc.was_closed \/ Len(in) = arrived

\* An open channel with an observer holds no received data back: every path that
\* registers the observer or opens the channel delivers the queue.
NothingHeldBack ==
    dc.state = "kOpen" /\ dc.observer => Empty(dc.queued_received)

\* The OPEN or OPEN_ACK message is sent at most once, and is never both queued and
\* sent, however often it blocks and is retried; a negotiated channel sends none.
ControlSentOnce ==
    /\ dc.queued_control <= 1
    /\ \A i, j \in DOMAIN dc.wire :
         dc.wire[i].type = "CONTROL" /\ dc.wire[j].type = "CONTROL" => i = j
    /\ dc.queued_control > 0 \/ ControlOnWire(dc) =>
         /\ dc.role # "kNone"
         /\ ~(dc.queued_control > 0 /\ ControlOnWire(dc))

\* After the opener's OPEN message and until something comes back from the peer,
\* all data goes out ordered, so that it cannot overtake the OPEN message.
OrderedUntilReply ==
    IsOpener(dc) /\ ~heard =>
      \A i, j \in DOMAIN dc.wire :
        i < j /\ dc.wire[i].type = "CONTROL" => dc.wire[j].ordered

\* A channel that has been closed never puts another data message on the wire,
\* even where a late SetState(kOpen) follows the close.
ClosedSendsNoData == [][dc.was_closed => WireData(dc)' = WireData(dc)]_vars

\* A channel that is wired to the transport and not closed is in the list from
\* which OnDataChannelClose reaches it, and its transport exists: the engine
\* cannot be destroyed under a live channel.
LiveIsReachable ==
    dc.connected /\ dc.state # "kClosed" => dc.transport /\ dc.listed

\* ASSERT(queued_send_data_.Empty()) in OnChannelReady and the ASSERT in Send that
\* only SCTP queues: no data waits before the channel is writable the first time.
NoDataBeforeReady == dc.asserts \cap {"OnChannelReady", "Send"} = {}

-----------------------------------------------------------------------------
(* Liveness.                                                               *)

Flush == ReadyToSendData("SDR_SUCCESS", "SDR_SUCCESS", Len(dc.queued_send.packets))

\* The transport's first ready signal, and the one of a SENDER_DRY notification
\* when something the transport blocked is waiting and it takes all of it.
FirstReady == ~ready /\ Flush
Unblocked == (dc.queued_control > 0 \/ ~Empty(dc.queued_send)) /\ Flush

Posted == \E r1, r2 \in SendDataResult, k \in 0 .. Len(dc.queued_send.packets) :
            OnMessage(r1, r2, k)

\* The signaling thread serves its queue, the transport becomes ready once, and
\* usrsctp reports SENDER_DRY once its send buffer has emptied.  Nothing else
\* makes a transport that is ready signal it again.
FairSpec ==
    /\ Spec
    /\ WF_vars(Posted)
    /\ WF_vars(OnRemoteSctpDataChannelClosed)
    /\ WF_vars(FirstReady)
    /\ WF_vars(Unblocked)

\* A connected channel of a ready transport does not stay in kConnecting: if the
\* ready signal was sent before the channel existed, MSG_CHANNELREADY replaces it.
EventuallyOpens ==
    dc.state = "kConnecting" /\ dc.connected /\ roleKnown ~> dc.state # "kConnecting"

\* Data queued because the transport blocked is sent, unless the channel is closed:
\* no queued message is forgotten once the transport is ready again.
QueuedDataDrains ==
    ~Empty(dc.queued_send) ~> Empty(dc.queued_send) \/ dc.was_closed

\* A stream the peer has reset closes the channel, whatever the signaling thread
\* was doing when the worker thread posted the closure.
RemoteCloseArrives == closedPosted ~> dc.was_closed

-----------------------------------------------------------------------------
(* What a test of the repository says; it holds of RTP channels only.      *)

\* A closed channel stays closed: a test checks that "a already closed DataChannel
\* does not fire onStateChange again".  UpdateState sets kOpen after
\* SendQueuedControlMessages even when sending the OPEN message closed the channel.
ClosedIsFinal == dc.was_closed => dc.state = "kClosed"
=============================================================================
