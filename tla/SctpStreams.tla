---------------------------- MODULE SctpStreams ----------------------------
(***************************************************************************)
(* The streams of an SCTP association as the two SctpDataMediaChannels at  *)
(* its ends keep them (talk/media/sctp/sctpdataengine.cc): opening a       *)
(* stream, and the reset that closes it at both ends.                      *)
(*                                                                         *)
(* usrsctp (third_party/usrsctp) exchanges RE-CONFIG chunks with the other *)
(* end: a request, the RE-CONFIG the peer sends back, and the answers.     *)
(* Both its packets and its notifications are posted to the worker thread, *)
(* so that the channel handles an event after usrsctp has moved on; calls  *)
(* of the channel's owner are invoked on that thread ahead of what is      *)
(* posted.  Payload data is left out, but for what it does to a reset: one *)
(* that overtakes data sent before it waits.                               *)
(***************************************************************************)
EXTENDS Integers, Sequences, FiniteSets

CONSTANTS Endpoints, Sids,
          InitiallyConnected,   \* both ends have a socket in the initial state
          SetupMayFail,         \* an option of a new socket may be refused
          MaxOutEntries,        \* streams in an OUT or an IN request that fits into
          MaxInEntries,         \* SCTP_CHUNK_BUFFER_SIZE: 248 and 252
          MaxAdds,              \* bound on the streams opened
          MaxDisconnects,       \* bound on SetSend(false)
          MaxKept,              \* bound on the resets one end keeps
          MaxCollisions         \* crossing retries that may collide again

VARIABLES
    chan,          \* chan[e]: the SctpDataMediaChannel and its socket
    queue,         \* queue[e]: what usrsctp has posted to e's worker thread
    wire,          \* wire[e]: the chunks on their way to e
    resetHead,     \* resetHead[e]: the resets usrsctp at e keeps until missing data is there
    adds,
    association,   \* number of the association, the packets' verification tag
    collisions

vars == <<chan, queue, wire, resetHead, adds, association, collisions>>

ASSUME EndpointsOK ==
    /\ \E a, b \in Endpoints : a # b /\ Endpoints = {a, b}
    /\ InitiallyConnected \in BOOLEAN /\ SetupMayFail \in BOOLEAN
    /\ MaxOutEntries \in Nat /\ MaxInEntries \in Nat /\ MaxOutEntries <= MaxInEntries
    /\ MaxAdds \in Nat /\ MaxDisconnects \in Nat /\ MaxKept \in Nat /\ MaxCollisions \in Nat

Peer(e) == CHOOSE p \in Endpoints : p # e

\* A REQUEST is an OUT and an IN request in one chunk, an ECHO the OUT request that
\* answers the latter; DONE, FAILED and DENIED are the results PERFORMED,
\* ERR_IN_PROGRESS and DENIED.  A posted notification is named after the chunk that
\* caused it: REQUEST and ECHO are SCTP_STREAM_RESET_INCOMING events, FAILED has the
\* flag SCTP_STREAM_RESET_FAILED, DENIED the flags SCTP_STREAM_RESET_INCOMING and
\* SCTP_STREAM_RESET_DENIED, DONE only SCTP_STREAM_RESET_OUTGOING_SSN.
ChunkKind == {"REQUEST", "ECHO", "DONE", "FAILED", "DENIED"}
Chunk == [kind : ChunkKind, sids : SUBSET Sids]
Message == [message_id : {"MSG_SCTPINBOUNDPACKET", "MSG_SCTPOUTBOUNDPACKET"},
            chunk : Chunk, association : Nat]

\* The association exists once both ends have a socket.
Up == \A e \in Endpoints : chan[e].sending

-----------------------------------------------------------------------------
(* SctpDataMediaChannel.                                                   *)

\* usrsctp refuses a second request while chunks of this end are unanswered.
setsockopt(c, up) == up /\ c.outstanding = 0

\* Mutant: the sets are swapped although the socket option was refused.
SendQueuedStreamResets_IgnoresFailure(c, up) ==
    IF c.sent # {} \/ c.queued = {} THEN c
    ELSE [c EXCEPT !.sent = c.queued, !.queued = {},
                   !.outstanding = IF setsockopt(c, up) THEN 1 ELSE @]

\* A request that is sent is the outstanding one.
SendQueuedStreamResets(c, up) ==
    IF c.sent # {} \/ c.queued = {} \/ ~setsockopt(c, up) THEN c
    ELSE [c EXCEPT !.sent = c.queued, !.queued = {}, !.outstanding = 1]

\* Mutant: a stream that is still closing is opened again.
MayAdd_WhileClosing(c, s) == s \notin c.open

MayAdd(c, s) == s \notin c.open \cup c.queued \cup c.sent

ResetStream(c, s, up) ==
    SendQueuedStreamResets([c EXCEPT !.open = @ \ {s}, !.queued = @ \cup {s}], up)

OnResetFailed(c) == [c EXCEPT !.queued = @ \cup c.sent, !.sent = {}]

\* Each sid leaves the first of sent, open and queued that holds it.
\* closed_remotely: SignalStreamClosedRemotely has been called for it.
OnResetIncoming(c, sids) ==
    LET peers == sids \ c.sent
    IN [c EXCEPT !.sent = @ \ sids,
                 !.open = @ \ peers,
                 !.closed_remotely = @ \cup (peers \cap c.open),
                 !.queued = @ \ (peers \ c.open)]

OnStreamResetEvent(c, chunk, up) ==
    SendQueuedStreamResets(
      CASE chunk.kind = "FAILED" -> OnResetFailed(c)
        [] chunk.kind \in {"REQUEST", "ECHO", "DENIED"} -> OnResetIncoming(c, chunk.sids)
        [] OTHER -> c, up)

-----------------------------------------------------------------------------
Init ==
    /\ chan = [e \in Endpoints |->
                 [open |-> {}, queued |-> {}, sent |-> {}, closed_remotely |-> {},
                  sock |-> InitiallyConnected, sending |-> InitiallyConnected,
                  outstanding |-> 0]]
    /\ queue = [e \in Endpoints |-> <<>>]
    /\ wire = [e \in Endpoints |-> <<>>]
    /\ resetHead = [e \in Endpoints |-> <<>>]
    /\ adds = 0 /\ association = 0 /\ collisions = 0

Inbound(chunk) == [message_id |-> "MSG_SCTPINBOUNDPACKET", chunk |-> chunk,
                   association |-> association]
Outbound(kind, sids) == [message_id |-> "MSG_SCTPOUTBOUNDPACKET",
                         chunk |-> [kind |-> kind, sids |-> sids],
                         association |-> association]

\* A call of e returns with channel c; if it has sent a reset, the packet is posted
\* behind q.
Returns(e, c, q) ==
    /\ chan' = [chan EXCEPT ![e] = c]
    /\ queue' = [queue EXCEPT ![e] =
                   IF c.outstanding > chan[e].outstanding
                   THEN Append(q, Outbound("REQUEST", c.sent)) ELSE q]

\* A call for a stream that is open or closing changes nothing.
AddStream(e, s) ==
    /\ MayAdd(chan[e], s)
    /\ adds < MaxAdds
    /\ adds' = adds + 1
    /\ chan' = [chan EXCEPT ![e].open = @ \cup {s}, ![e].closed_remotely = @ \ {s}]
    /\ UNCHANGED <<queue, wire, resetHead, association, collisions>>

RemoveStream(e, s) ==
    /\ s \in chan[e].open
    /\ Returns(e, ResetStream(chan[e], s, Up), queue[e])
    /\ UNCHANGED <<wire, resetHead, adds, association, collisions>>

\* Timing: after MaxCollisions collisions, an event whose handler sends what is queued is
\* not handled while a request of the peer is on its way: no two retries cross again.
MayRetry(e, c) ==
    collisions = MaxCollisions /\ c.outstanding > chan[e].outstanding =>
      /\ \A i \in DOMAIN queue[Peer(e)] :
           queue[Peer(e)][i].message_id = "MSG_SCTPOUTBOUNDPACKET" =>
             queue[Peer(e)][i].chunk.kind # "REQUEST"
      /\ \A i \in DOMAIN wire[e] : wire[e][i].kind # "REQUEST"

\* MSG_SCTPINBOUNDPACKET with a notification.
OnNotification(e) ==
    /\ queue[e] # <<>> /\ Head(queue[e]).message_id = "MSG_SCTPINBOUNDPACKET"
    /\ LET c == OnStreamResetEvent(chan[e], Head(queue[e]).chunk, Up)
       IN MayRetry(e, c) /\ Returns(e, c, Tail(queue[e]))
    /\ UNCHANGED <<wire, resetHead, adds, association, collisions>>

\* MSG_SCTPOUTBOUNDPACKET; the peer ignores a packet of an earlier association.
OnPacketFromSctpToNetwork(e) ==
    /\ queue[e] # <<>> /\ Head(queue[e]).message_id = "MSG_SCTPOUTBOUNDPACKET"
    /\ queue' = [queue EXCEPT ![e] = Tail(@)]
    /\ wire' = IF Up /\ Head(queue[e]).association = association
               THEN [wire EXCEPT ![Peer(e)] = Append(@, Head(queue[e]).chunk)] ELSE wire
    /\ UNCHANGED <<chan, resetHead, adds, association, collisions>>

OnMessage(e) == OnNotification(e) \/ OnPacketFromSctpToNetwork(e)

CloseSctpSocket(c) == [c EXCEPT !.sending = FALSE, !.sock = FALSE]

\* SetSend(true); with a socket Connect changes nothing, as it does when
\* usrsctp_socket fails or CloseSctpSocket follows a failed bind or connect.
Connect(e) ==
    /\ ~chan[e].sending /\ ~chan[e].sock
    /\ chan' = [chan EXCEPT ![e].sock = TRUE, ![e].sending = TRUE]
    /\ UNCHANGED <<queue, wire, resetHead, adds, association, collisions>>

\* SetSend(true), and OpenSctpSocket returns false after it has made the socket.
OpenSctpSocketFails(e) ==
    /\ SetupMayFail
    /\ ~chan[e].sending /\ ~chan[e].sock
    /\ chan' = [chan EXCEPT ![e].sock = TRUE]
    /\ UNCHANGED <<queue, wire, resetHead, adds, association, collisions>>

\* SetSend(false): the association is closed and its chunks are discarded.
Disconnect(e) ==
    /\ chan[e].sending
    /\ association < MaxDisconnects
    /\ association' = association + 1
    /\ LET closed == [chan EXCEPT ![e] = CloseSctpSocket(chan[e])]
       IN chan' = [x \in Endpoints |-> [closed[x] EXCEPT !.outstanding = 0]]
    /\ wire' = [x \in Endpoints |-> <<>>]
    /\ resetHead' = [x \in Endpoints |-> <<>>]
    /\ UNCHANGED <<queue, adds, collisions>>

-----------------------------------------------------------------------------
(* usrsctp at e takes the next chunk: it notifies the channel and answers. *)

Takes(e, kind) == wire[e] # <<>> /\ Head(wire[e]).kind = kind

\* A request that is longer than the buffer it is read into is denied.
OutFits(chunk) == Cardinality(chunk.sids) <= MaxOutEntries
InFits(chunk) == Cardinality(chunk.sids) <= MaxInEntries

\* e's incoming streams are reset, now or, if data sent before the request is missing,
\* some time after it has arrived, in the order of the requests that were kept.
ResetIn(e, answers) ==
    LET chunk == Head(wire[e])
    IN  \/ /\ ~OutFits(chunk)
           /\ queue' = [queue EXCEPT ![e] = @ \o answers]
           /\ UNCHANGED resetHead
        \/ /\ OutFits(chunk)
           /\ queue' = [queue EXCEPT ![e] = @ \o (<<Inbound(chunk)>> \o answers)]
           /\ UNCHANGED resetHead
        \/ /\ OutFits(chunk) /\ Len(resetHead[e]) < MaxKept
           /\ queue' = [queue EXCEPT ![e] = @ \o answers]
           /\ resetHead' = [resetHead EXCEPT ![e] = Append(@, chunk)]

\* A request resets e's incoming streams; e's RE-CONFIG for the other direction goes
\* back with the answer.
AcceptRequest(e) ==
    /\ Takes(e, "REQUEST") /\ InFits(Head(wire[e]))
    /\ chan[e].outstanding = 0
    /\ ResetIn(e, <<Outbound("ECHO", Head(wire[e]).sids), Outbound("DONE", Head(wire[e]).sids)>>)
    /\ wire' = [wire EXCEPT ![e] = Tail(@)]
    /\ chan' = [chan EXCEPT ![e].outstanding = 1]
    /\ UNCHANGED <<adds, association, collisions>>

\* "If both sides try to reset some streams at the same time (even if they're
\* disjoint sets), we can get reset failures."
RefuseRequest(e) ==
    /\ Takes(e, "REQUEST") /\ InFits(Head(wire[e]))
    /\ chan[e].outstanding > 0
    /\ ResetIn(e, <<Outbound("FAILED", Head(wire[e]).sids)>>)
    /\ wire' = [wire EXCEPT ![e] = Tail(@)]
    /\ collisions' = IF collisions < MaxCollisions THEN collisions + 1 ELSE collisions
    /\ UNCHANGED <<chan, adds, association>>

\* Both requests of the chunk are denied: the OUT request is the longer one.
DenyRequest(e) ==
    /\ Takes(e, "REQUEST") /\ ~InFits(Head(wire[e]))
    /\ queue' = [queue EXCEPT ![e] = Append(@, Outbound("DENIED", Head(wire[e]).sids))]
    /\ wire' = [wire EXCEPT ![e] = Tail(@)]
    /\ UNCHANGED <<chan, resetHead, adds, association, collisions>>

\* The peer takes no notice of whether its RE-CONFIG was performed or denied: both
\* notifications have the flag SCTP_STREAM_RESET_OUTGOING_SSN only.
TakeEcho(e) ==
    /\ Takes(e, "ECHO")
    /\ ResetIn(e, <<Outbound("DONE", Head(wire[e]).sids)>>)
    /\ wire' = [wire EXCEPT ![e] = Tail(@)]
    /\ UNCHANGED <<chan, adds, association, collisions>>

TakeAnswer(e) ==
    /\ Takes(e, "DONE") \/ Takes(e, "FAILED") \/ Takes(e, "DENIED")
    /\ queue' = [queue EXCEPT ![e] = Append(@, Inbound(Head(wire[e])))]
    /\ wire' = [wire EXCEPT ![e] = Tail(@)]
    /\ chan' = [chan EXCEPT ![e].outstanding = 0]
    /\ UNCHANGED <<resetHead, adds, association, collisions>>

\* A data chunk arrives and nothing sent before the first reset is missing any more.
ResetWhenComplete(e) ==
    /\ resetHead[e] # <<>>
    /\ resetHead' = [resetHead EXCEPT ![e] = Tail(@)]
    /\ queue' = [queue EXCEPT ![e] = Append(@, Inbound(Head(resetHead[e])))]
    /\ UNCHANGED <<chan, wire, adds, association, collisions>>

usrsctp(e) ==
    \/ AcceptRequest(e)
    \/ RefuseRequest(e)
    \/ DenyRequest(e)
    \/ TakeEcho(e)
    \/ TakeAnswer(e)

-----------------------------------------------------------------------------
Next ==
    \E e \in Endpoints :
      \/ \E s \in Sids : AddStream(e, s)
      \/ \E s \in Sids : RemoveStream(e, s)
      \/ OnMessage(e)
      \/ Connect(e)
      \/ OpenSctpSocketFails(e)
      \/ Disconnect(e)
      \/ usrsctp(e)
      \/ ResetWhenComplete(e)

Spec == Init /\ [][Next]_vars

\* usrsctp retransmits until its chunks arrive, the missing data among them, the worker
\* thread serves its queue, and the session starts the association, trying again when
\* that fails.  A reset that is kept needs a data chunk after the gap has closed: data
\* goes on arriving.
FairSpec ==
    /\ Spec
    /\ \A e \in Endpoints : /\ WF_vars(usrsctp(e)) /\ WF_vars(ResetWhenComplete(e))
                           /\ WF_vars(OnMessage(e)) /\ WF_vars(Connect(e))

=============================================================================
