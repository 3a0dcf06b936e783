------------------------- MODULE SctpStreamsProofs -------------------------
(***************************************************************************)
(* Machine-checked proofs about SctpStreams, for every set of streams and  *)
(* every bound: the sets of the two ends stay disjoint, and the engine     *)
(* keeps to the life cycle of StreamLifecycle, whatever usrsctp's events   *)
(* are and however late they are handled.                                  *)
(***************************************************************************)
EXTENDS SctpStreamsProperties, TLAPS

Channel == [open : SUBSET Sids, queued : SUBSET Sids, sent : SUBSET Sids,
            closed_remotely : SUBSET Sids, sock : BOOLEAN, sending : BOOLEAN,
            outstanding : {0, 1}]

\* Each sid is in at most one of the four sets.
Apart(c) ==
    /\ c.open \cap c.queued = {}
    /\ c.open \cap c.sent = {}
    /\ c.queued \cap c.sent = {}
    /\ (c.open \cup c.queued \cup c.sent) \cap c.closed_remotely = {}

\* The inductive invariant.
StreamsInv == StreamsTypeOK /\ \A e \in Endpoints : Apart(chan[e])

\* What a call may make of the streams of channel c.
Evolves(c, d) == \A s \in Sids : Lifecycle!MayBecome(StreamStatus(c, s), StreamStatus(d, s))

\* d is a channel that a call on c may return.
Follows(c, d) == d \in Channel /\ Apart(d) /\ Evolves(c, d)

-----------------------------------------------------------------------------
(* The functions of SctpDataMediaChannel.                                  *)

\* Sending the queued resets moves sids between two sets that both mean "closing".
LEMMA SendQueuedIsQuiet ==
    ASSUME NEW c \in Channel, Apart(c), NEW up \in BOOLEAN
    PROVE  /\ SendQueuedStreamResets(c, up) \in Channel
           /\ Apart(SendQueuedStreamResets(c, up))
           /\ \A s \in Sids : StreamStatus(SendQueuedStreamResets(c, up), s) = StreamStatus(c, s)
  BY DEF SendQueuedStreamResets, setsockopt, Channel, Apart, StreamStatus

\* A function that ends with SendQueuedStreamResets is judged by what precedes it.
LEMMA SendQueuedFollows ==
    ASSUME NEW c \in Channel, NEW d, Follows(c, d), NEW up \in BOOLEAN
    PROVE  Follows(c, SendQueuedStreamResets(d, up))
  BY SendQueuedIsQuiet DEF Follows, Evolves

\* ResetStream takes an open stream to "closing".
LEMMA ResetStreamFollows ==
    ASSUME NEW c \in Channel, Apart(c), NEW s \in c.open, NEW up \in BOOLEAN
    PROVE  Follows(c, ResetStream(c, s, up))
  <1> DEFINE d == [c EXCEPT !.open = @ \ {s}, !.queued = @ \cup {s}]
  <1>1. d \in Channel
    BY DEF Channel
  <1>2. Apart(d)
    BY DEF Channel, Apart
  <1>3. Evolves(c, d)
    BY DEF Channel, Apart, Evolves, Lifecycle!MayBecome, StreamStatus
  <1>4. Follows(c, d)
    BY <1>1, <1>2, <1>3 DEF Follows
  <1> QED
    BY <1>4, SendQueuedFollows DEF ResetStream

\* A failed reset goes back to the queue and stays "closing".
LEMMA OnResetFailedFollows ==
    ASSUME NEW c \in Channel, Apart(c)
    PROVE  Follows(c, OnResetFailed(c))
  <1>1. OnResetFailed(c) \in Channel /\ Apart(OnResetFailed(c))
    BY DEF OnResetFailed, Channel, Apart
  <1>2. Evolves(c, OnResetFailed(c))
    BY DEF OnResetFailed, Channel, Apart, Evolves, Lifecycle!MayBecome, StreamStatus
  <1> QED
    BY <1>1, <1>2 DEF Follows

\* An incoming reset ends a local one, or closes an open stream with a signal.
LEMMA OnResetIncomingFollows ==
    ASSUME NEW c \in Channel, Apart(c), NEW sids \in SUBSET Sids
    PROVE  Follows(c, OnResetIncoming(c, sids))
  <1>1. OnResetIncoming(c, sids) \in Channel
    BY DEF OnResetIncoming, Channel
  <1>2. Apart(OnResetIncoming(c, sids))
    BY DEF OnResetIncoming, Channel, Apart
  <1>3. Evolves(c, OnResetIncoming(c, sids))
    BY DEF OnResetIncoming, Channel, Apart, Evolves, Lifecycle!MayBecome, StreamStatus
  <1> QED
    BY <1>1, <1>2, <1>3 DEF Follows

\* Whatever the event is, OnStreamResetEvent keeps to the life cycle.
LEMMA OnStreamResetEventFollows ==
    ASSUME NEW c \in Channel, Apart(c), NEW chunk \in Chunk, NEW up \in BOOLEAN
    PROVE  Follows(c, OnStreamResetEvent(c, chunk, up))
  <1> DEFINE d == CASE chunk.kind = "FAILED" -> OnResetFailed(c)
                    [] chunk.kind \in {"REQUEST", "ECHO", "DENIED"} -> OnResetIncoming(c, chunk.sids)
                    [] OTHER -> c
  <1>0. chunk.sids \in SUBSET Sids
    BY DEF Chunk
  <1>1. Follows(c, c)
    BY DEF Follows, Evolves, Lifecycle!MayBecome
  <1>2. Follows(c, d)
    BY <1>0, <1>1, OnResetFailedFollows, OnResetIncomingFollows
  <1> QED
    BY <1>2, SendQueuedFollows DEF OnStreamResetEvent

-----------------------------------------------------------------------------
(* The actions.                                                            *)

\* The peer of an endpoint is an endpoint.
LEMMA PeerIsEndpoint == ASSUME NEW e \in Endpoints PROVE Peer(e) \in Endpoints
  BY EndpointsOK DEF Peer

\* What a call of e returns with is a channel that follows the old one.
LEMMA ReturnsKeeps ==
    ASSUME StreamsInv, NEW e \in Endpoints, NEW c, Follows(chan[e], c),
           NEW q \in Seq(Message), Returns(e, c, q)
    PROVE  /\ chan' \in [Endpoints -> Channel]
           /\ queue' \in [Endpoints -> Seq(Message)]
           /\ \A x \in Endpoints : Apart(chan'[x])
           /\ chan' = [chan EXCEPT ![e] = c]
  <1>1. chan \in [Endpoints -> Channel] /\ queue \in [Endpoints -> Seq(Message)]
    BY DEF StreamsInv, StreamsTypeOK, Channel
  <1>2. c \in Channel /\ Apart(c)
    BY DEF Follows
  <1>3. Outbound("REQUEST", c.sent) \in Message
    BY <1>2 DEF Outbound, Message, Chunk, ChunkKind, Channel, StreamsInv, StreamsTypeOK
  <1>4. \A x \in Endpoints : Apart(chan[x])
    BY DEF StreamsInv
  <1>5. queue' \in [Endpoints -> Seq(Message)]
    BY <1>1, <1>3 DEF Returns
  <1>6. chan' = [chan EXCEPT ![e] = c]
    BY DEF Returns
  <1> QED
    BY <1>1, <1>2, <1>4, <1>5, <1>6

\* Only the streams of e move, and they keep to the life cycle.
Moves(e) ==
    /\ Evolves(chan[e], chan'[e])
    /\ \A x \in Endpoints \ {e} : \A s \in Sids : StreamStatus(chan'[x], s) = StreamStatus(chan[x], s)

\* The invariant with Channel for the type of the members of chan.
LEMMA InvFacts ==
    ASSUME StreamsInv
    PROVE  /\ chan \in [Endpoints -> Channel]
           /\ queue \in [Endpoints -> Seq(Message)]
           /\ wire \in [Endpoints -> Seq(Chunk)] /\ resetHead \in [Endpoints -> Seq(Chunk)]
           /\ adds \in Nat /\ association \in Nat /\ collisions \in Nat
           /\ \A x \in Endpoints : Apart(chan[x])
           /\ Up \in BOOLEAN
  BY DEF StreamsInv, StreamsTypeOK, Channel, Up

\* A step that changes no set of e and no other channel moves no stream.
LEMMA OutstandingIsQuiet ==
    ASSUME StreamsInv, NEW e \in Endpoints, NEW n \in {0, 1},
           chan' = [chan EXCEPT ![e].outstanding = n]
    PROVE  /\ chan' \in [Endpoints -> Channel]
           /\ \A x \in Endpoints : Apart(chan'[x])
           /\ Moves(e)
  <1>1. chan' \in [Endpoints -> Channel]
    <2>1. [chan[e] EXCEPT !.outstanding = n] \in Channel
      BY InvFacts DEF Channel
    <2> QED BY <2>1, InvFacts
  <1>2. \A x \in Endpoints : Apart(chan'[x])
    BY InvFacts DEF Channel, Apart
  <1>3. Moves(e)
    BY InvFacts DEF Channel, Moves, Evolves, StreamStatus, Lifecycle!MayBecome
  <1> QED
    BY <1>1, <1>2, <1>3

\* What usrsctp posts and keeps is typed.
LEMMA ResetInKeeps ==
    ASSUME StreamsInv, NEW e \in Endpoints, wire[e] # <<>>,
           NEW answers \in Seq(Message), ResetIn(e, answers)
    PROVE  /\ queue' \in [Endpoints -> Seq(Message)]
           /\ resetHead' \in [Endpoints -> Seq(Chunk)]
  <1> DEFINE h == Head(wire[e])
  <1>1. h \in Chunk
    BY InvFacts
  <1>2. Inbound(h) \in Message
    BY <1>1, InvFacts DEF Inbound, Message
  <1>3. /\ queue[e] \o answers \in Seq(Message)
        /\ queue[e] \o (<<Inbound(h)>> \o answers) \in Seq(Message)
        /\ Append(resetHead[e], h) \in Seq(Chunk)
    BY <1>1, <1>2, InvFacts
  <1> QED
    BY <1>3, InvFacts DEF ResetIn

\* A packet that answers a chunk is a message of the queue.
LEMMA AnswerIsMessage ==
    ASSUME StreamsInv, NEW e \in Endpoints, wire[e] # <<>>, NEW k \in ChunkKind
    PROVE  Outbound(k, Head(wire[e]).sids) \in Message
  <1>1. Head(wire[e]) \in Chunk
    BY InvFacts
  <1> QED
    BY <1>1, InvFacts DEF Outbound, Message, Chunk

-----------------------------------------------------------------------------
(* One step per action.                                                    *)

\* Every step keeps the invariant and moves the streams of one end at most.
LEMMA StepKeeps ==
    ASSUME StreamsInv, Next
    PROVE  StreamsInv' /\ \E e \in Endpoints : Moves(e)
  <1> DEFINE Kept == /\ chan' \in [Endpoints -> Channel]
                     /\ queue' \in [Endpoints -> Seq(Message)]
                     /\ wire' \in [Endpoints -> Seq(Chunk)]
                     /\ resetHead' \in [Endpoints -> Seq(Chunk)]
                     /\ adds' \in Nat /\ association' \in Nat /\ collisions' \in Nat
                     /\ \A x \in Endpoints : Apart(chan'[x])
  <1>1. SUFFICES ASSUME NEW e \in Endpoints,
                        \/ \E s \in Sids : AddStream(e, s)
                        \/ \E s \in Sids : RemoveStream(e, s)
                        \/ OnMessage(e)
                        \/ Connect(e)
                        \/ OpenSctpSocketFails(e)
                        \/ Disconnect(e)
                        \/ usrsctp(e)
                        \/ ResetWhenComplete(e)
                 PROVE  Kept /\ Moves(e)
    BY DEF Next, StreamsInv, StreamsTypeOK, Channel
  <1>2. ASSUME NEW s \in Sids, AddStream(e, s) PROVE Kept /\ Moves(e)
    <2> DEFINE d == [chan[e] EXCEPT !.open = @ \cup {s}, !.closed_remotely = @ \ {s}]
    <2>1. chan[e] \in Channel /\ Apart(chan[e])
      BY InvFacts
    <2>2. chan' = [chan EXCEPT ![e] = d]
      BY <1>2, InvFacts DEF AddStream, Channel
    <2>3. d \in Channel /\ Apart(d)
      BY <1>2, <2>1 DEF AddStream, MayAdd, Channel, Apart
    <2>4. Evolves(chan[e], d)
      BY <1>2, <2>1 DEF AddStream, MayAdd, Channel, Apart, Evolves, StreamStatus, Lifecycle!MayBecome
    <2>5. Kept
      BY <1>2, <2>2, <2>3, InvFacts DEF AddStream
    <2> QED
      BY <2>2, <2>4, <2>5, InvFacts DEF Moves
  <1>3. ASSUME NEW s \in Sids, RemoveStream(e, s) PROVE Kept /\ Moves(e)
    <2>1. Follows(chan[e], ResetStream(chan[e], s, Up))
      BY <1>3, InvFacts, ResetStreamFollows DEF RemoveStream
    <2>2. /\ chan' \in [Endpoints -> Channel]
          /\ queue' \in [Endpoints -> Seq(Message)]
          /\ \A x \in Endpoints : Apart(chan'[x])
          /\ chan' = [chan EXCEPT ![e] = ResetStream(chan[e], s, Up)]
      BY <1>3, <2>1, InvFacts, ReturnsKeeps DEF RemoveStream
    <2>3. Kept
      BY <1>3, <2>2, InvFacts DEF RemoveStream
    <2> QED
      BY <2>1, <2>2, <2>3, InvFacts DEF Moves, Follows
  <1>4. ASSUME OnNotification(e) PROVE Kept /\ Moves(e)
    <2> DEFINE d == OnStreamResetEvent(chan[e], Head(queue[e]).chunk, Up)
    <2>1. Head(queue[e]).chunk \in Chunk /\ Tail(queue[e]) \in Seq(Message)
      <3>1. Head(queue[e]) \in Message /\ Tail(queue[e]) \in Seq(Message)
        BY <1>4, InvFacts DEF OnNotification
      <3> QED
        BY <3>1 DEF Message
    <2>2. Follows(chan[e], d)
      BY <2>1, InvFacts, OnStreamResetEventFollows
    <2>3. /\ chan' \in [Endpoints -> Channel]
          /\ queue' \in [Endpoints -> Seq(Message)]
          /\ \A x \in Endpoints : Apart(chan'[x])
          /\ chan' = [chan EXCEPT ![e] = d]
      BY <1>4, <2>1, <2>2, InvFacts, ReturnsKeeps DEF OnNotification
    <2>4. Kept
      BY <1>4, <2>3, InvFacts DEF OnNotification
    <2> QED
      BY <2>2, <2>3, <2>4, InvFacts DEF Moves, Follows
  <1>5. ASSUME OnPacketFromSctpToNetwork(e) PROVE Kept /\ Moves(e)
    <2>1. Head(queue[e]) \in Message /\ Tail(queue[e]) \in Seq(Message)
      BY <1>5, InvFacts DEF OnPacketFromSctpToNetwork
    <2>2. Head(queue[e]).chunk \in Chunk
      BY <2>1 DEF Message
    <2>3. queue' \in [Endpoints -> Seq(Message)]
      BY <1>5, <2>1, InvFacts DEF OnPacketFromSctpToNetwork
    <2>4. wire' \in [Endpoints -> Seq(Chunk)]
      BY <1>5, <2>2, InvFacts, PeerIsEndpoint DEF OnPacketFromSctpToNetwork
    <2>5. chan' = chan
      BY <1>5 DEF OnPacketFromSctpToNetwork
    <2>6. Kept
      BY <1>5, <2>3, <2>4, <2>5, InvFacts DEF OnPacketFromSctpToNetwork
    <2> QED
      BY <2>5, <2>6 DEF Moves, Evolves, Lifecycle!MayBecome
  <1>6. ASSUME Connect(e) \/ OpenSctpSocketFails(e) PROVE Kept /\ Moves(e)
    <2>1. PICK b \in BOOLEAN : chan' = [chan EXCEPT ![e] = [chan[e] EXCEPT !.sock = TRUE, !.sending = b]]
      <3>1. chan[e] \in Channel
        BY InvFacts
      <3>2. CASE Connect(e)
        BY <3>1, <3>2, InvFacts DEF Connect, Channel
      <3>3. CASE OpenSctpSocketFails(e)
        <4>1. [chan[e] EXCEPT !.sock = TRUE] = [chan[e] EXCEPT !.sock = TRUE, !.sending = FALSE]
          BY <3>1, <3>3 DEF OpenSctpSocketFails, Channel
        <4> QED
          BY <4>1, <3>3, InvFacts DEF OpenSctpSocketFails
      <3> QED
        BY <1>6, <3>2, <3>3
    <2>2. chan' \in [Endpoints -> Channel]
      <3>1. [chan[e] EXCEPT !.sock = TRUE, !.sending = b] \in Channel
        BY InvFacts DEF Channel
      <3> QED BY <2>1, <3>1, InvFacts
    <2>3. \A x \in Endpoints : Apart(chan'[x])
      BY <2>1, InvFacts DEF Channel, Apart
    <2>4. Moves(e)
      BY <2>1, InvFacts DEF Channel, Moves, Evolves, StreamStatus, Lifecycle!MayBecome
    <2>5. Kept
      BY <1>6, <2>2, <2>3, InvFacts DEF Connect, OpenSctpSocketFails
    <2> QED
      BY <2>4, <2>5
  <1>7. ASSUME Disconnect(e) PROVE Kept /\ Moves(e)
    <2> DEFINE closed == [chan EXCEPT ![e] = CloseSctpSocket(chan[e])]
    <2>1. chan' = [x \in Endpoints |-> [closed[x] EXCEPT !.outstanding = 0]]
      BY <1>7 DEF Disconnect
    <2>2. closed \in [Endpoints -> Channel]
      BY InvFacts DEF CloseSctpSocket, Channel
    <2>3. \A x \in Endpoints : /\ chan'[x].open = chan[x].open
                               /\ chan'[x].queued = chan[x].queued
                               /\ chan'[x].sent = chan[x].sent
                               /\ chan'[x].closed_remotely = chan[x].closed_remotely
      BY <2>1, <2>2, InvFacts DEF CloseSctpSocket, Channel
    <2>4. chan' \in [Endpoints -> Channel]
      BY <2>1, <2>2 DEF Channel
    <2>5. \A x \in Endpoints : Apart(chan'[x])
      BY <2>3, InvFacts DEF Apart
    <2>6. Moves(e)
      BY <2>3 DEF Moves, Evolves, StreamStatus, Lifecycle!MayBecome
    <2>7. Kept
      BY <1>7, <2>4, <2>5, InvFacts DEF Disconnect
    <2> QED
      BY <2>6, <2>7
  <1>8. ASSUME AcceptRequest(e) PROVE Kept /\ Moves(e)
    <2>1. wire[e] # <<>>
      BY <1>8 DEF AcceptRequest, Takes
    <2>2. <<Outbound("ECHO", Head(wire[e]).sids), Outbound("DONE", Head(wire[e]).sids)>> \in Seq(Message)
      BY <2>1, AnswerIsMessage DEF ChunkKind
    <2>3. queue' \in [Endpoints -> Seq(Message)] /\ resetHead' \in [Endpoints -> Seq(Chunk)]
      BY <1>8, <2>1, <2>2, ResetInKeeps DEF AcceptRequest
    <2>4. wire' \in [Endpoints -> Seq(Chunk)]
      BY <1>8, <2>1, InvFacts DEF AcceptRequest
    <2> QED
      BY <1>8, <2>3, <2>4, InvFacts, OutstandingIsQuiet DEF AcceptRequest
  <1>9. ASSUME RefuseRequest(e) \/ DenyRequest(e) \/ TakeEcho(e) PROVE Kept /\ Moves(e)
    <2>1. wire[e] # <<>>
      BY <1>9 DEF RefuseRequest, DenyRequest, TakeEcho, Takes
    <2>2. /\ \A k \in {"DONE", "FAILED"} : <<Outbound(k, Head(wire[e]).sids)>> \in Seq(Message)
          /\ Outbound("DENIED", Head(wire[e]).sids) \in Message
      BY <2>1, AnswerIsMessage DEF ChunkKind
    <2>3. queue' \in [Endpoints -> Seq(Message)] /\ resetHead' \in [Endpoints -> Seq(Chunk)]
      <3>1. CASE DenyRequest(e)
        BY <2>2, <3>1, InvFacts DEF DenyRequest
      <3>2. CASE RefuseRequest(e) \/ TakeEcho(e)
        BY <2>1, <2>2, <3>2, ResetInKeeps DEF RefuseRequest, TakeEcho
      <3> QED BY <1>9, <3>1, <3>2
    <2>4. wire' \in [Endpoints -> Seq(Chunk)]
      <3>1. wire' = [wire EXCEPT ![e] = Tail(@)]
        BY <1>9 DEF RefuseRequest, DenyRequest, TakeEcho
      <3> QED BY <2>1, <3>1, InvFacts
    <2>5. chan' = chan
      BY <1>9 DEF RefuseRequest, DenyRequest, TakeEcho
    <2>6. Kept
      BY <1>9, <2>3, <2>4, <2>5, InvFacts DEF RefuseRequest, DenyRequest, TakeEcho
    <2> QED
      BY <2>5, <2>6 DEF Moves, Evolves, Lifecycle!MayBecome
  <1>10. ASSUME TakeAnswer(e) PROVE Kept /\ Moves(e)
    <2>1. wire[e] # <<>>
      BY <1>10 DEF TakeAnswer, Takes
    <2>2. Inbound(Head(wire[e])) \in Message /\ Tail(wire[e]) \in Seq(Chunk)
      BY <2>1, InvFacts DEF Inbound, Message
    <2>3. queue' \in [Endpoints -> Seq(Message)] /\ wire' \in [Endpoints -> Seq(Chunk)]
      BY <1>10, <2>2, InvFacts DEF TakeAnswer
    <2> QED
      BY <1>10, <2>3, InvFacts, OutstandingIsQuiet DEF TakeAnswer
  <1>11. ASSUME ResetWhenComplete(e) PROVE Kept /\ Moves(e)
    <2>1. Inbound(Head(resetHead[e])) \in Message /\ Tail(resetHead[e]) \in Seq(Chunk)
      BY <1>11, InvFacts DEF ResetWhenComplete, Inbound, Message
    <2>2. queue' \in [Endpoints -> Seq(Message)] /\ resetHead' \in [Endpoints -> Seq(Chunk)]
      BY <1>11, <2>1, InvFacts DEF ResetWhenComplete
    <2>3. chan' = chan
      BY <1>11 DEF ResetWhenComplete
    <2>4. Kept
      BY <1>11, <2>2, <2>3, InvFacts DEF ResetWhenComplete
    <2> QED
      BY <2>3, <2>4 DEF Moves, Evolves, Lifecycle!MayBecome
  <1> QED
    BY <1>1, <1>2, <1>3, <1>4, <1>5, <1>6, <1>7, <1>8, <1>9, <1>10, <1>11 DEF OnMessage, usrsctp

\* A channel starts with empty sets.
LEMMA InitHolds == Init => StreamsInv
  BY EndpointsOK DEF Init, StreamsInv, StreamsTypeOK, Apart

-----------------------------------------------------------------------------
\* The invariant holds in every state: the sets of the two channels are typed and
\* apart whatever is reset, refused, disconnected and handled late.
THEOREM StreamsInvariance == Spec => []StreamsInv
  <1>1. StreamsInv /\ [Next]_vars => StreamsInv'
    <2> SUFFICES ASSUME StreamsInv, [Next]_vars PROVE StreamsInv'
      OBVIOUS
    <2>1. CASE Next
      BY <2>1, StepKeeps
    <2>2. CASE UNCHANGED vars
      BY <2>2 DEF vars, StreamsInv, StreamsTypeOK, Apart
    <2> QED
      BY <2>1, <2>2
  <1> QED
    BY <1>1, InitHolds, PTL DEF Spec

\* StreamsTypeOK: usrsctp never has two requests of one end pending.
THEOREM StreamsTypeCorrect == Spec => []StreamsTypeOK
  <1>1. StreamsInv => StreamsTypeOK
    BY DEF StreamsInv
  <1> QED
    BY <1>1, StreamsInvariance, PTL

\* AddStream, ResetStream and OnStreamResetEvent keep the stream sets disjoint.
THEOREM StreamSetsAreDisjoint == Spec => []SetsAreDisjoint
  <1>1. StreamsInv => SetsAreDisjoint
    BY DEF StreamsInv, Apart, SetsAreDisjoint
  <1> QED
    BY <1>1, StreamsInvariance, PTL

\* The engine implements the life cycle of its streams: each of its steps, with any
\* event usrsctp may post, is a step of StreamLifecycle or leaves all streams alone.
THEOREM EngineKeepsLifecycle == Spec => KeepsLifecycle
  <1> DEFINE status == [e \in Endpoints |-> [s \in Sids |-> StreamStatus(chan[e], s)]]
  <1>1. Init => Lifecycle!Init
    BY DEF Init, Lifecycle!Init, StreamStatus
  <1>2. StreamsInv /\ [Next]_vars => [Lifecycle!Next]_status
    <2> SUFFICES ASSUME StreamsInv, [Next]_vars PROVE Lifecycle!Next \/ status' = status
      OBVIOUS
    <2>1. CASE UNCHANGED vars
      BY <2>1 DEF vars
    <2>2. CASE Next
      <3>1. PICK e \in Endpoints : Moves(e)
        BY <2>2, StepKeeps
      <3> DEFINE new == [s \in Sids |-> StreamStatus(chan'[e], s)]
      <3>2. new \in [Sids -> Lifecycle!StreamState]
        BY DEF StreamStatus, Lifecycle!StreamState
      <3>3. \A s \in Sids : Lifecycle!MayBecome(status[e][s], new[s])
        BY <3>1 DEF Moves, Evolves
      <3>4. status' = [status EXCEPT ![e] = new]
        BY <3>1 DEF Moves
      <3>5. Lifecycle!Move(e)
        BY <3>2, <3>3, <3>4 DEF Lifecycle!Move
      <3> QED
        BY <3>5 DEF Lifecycle!Next
    <2> QED
      BY <2>1, <2>2
  <1> QED
    BY <1>1, <1>2, StreamsInvariance, PTL DEF Spec, KeepsLifecycle, Lifecycle!Safety

-----------------------------------------------------------------------------
(* Resets that go on, while the association lasts.                         *)

\* m has this id and its chunk, of one of these kinds, names s.
Names(m, id, kinds, s) == m.message_id = id /\ m.chunk.kind \in kinds /\ s \in m.chunk.sids
InQueue(q, id, kinds, s) == \E i \in DOMAIN q : Names(q[i], id, kinds, s)
InWire(w, kinds, s) == \E i \in DOMAIN w : w[i].kind \in kinds /\ s \in w[i].sids

\* The event that ends or repeats the reset of s at e, on its way with queues qs, wires
\* ws and kept resets rs.
OnItsWay(e, s, qs, ws, rs) ==
    \/ InQueue(qs[e], "MSG_SCTPOUTBOUNDPACKET", {"REQUEST"}, s)
    \/ InWire(ws[Peer(e)], {"REQUEST"}, s)
    \/ InQueue(qs[Peer(e)], "MSG_SCTPOUTBOUNDPACKET", {"ECHO", "FAILED", "DENIED"}, s)
    \/ InWire(ws[e], {"ECHO", "FAILED", "DENIED"}, s)
    \/ InWire(rs[e], {"REQUEST", "ECHO"}, s)
    \/ InQueue(qs[e], "MSG_SCTPINBOUNDPACKET", {"REQUEST", "ECHO", "FAILED", "DENIED"}, s)

\* Something calls SendQueuedStreamResets for channel c with queue q again.
Retried(c, q) ==
    c.queued # {} =>
      \/ c.sent # {}
      \/ c.outstanding = 1
      \/ \E i \in DOMAIN q : q[i].message_id = "MSG_SCTPINBOUNDPACKET"

\* A RE-CONFIG that answers a request is not too long for the end that made it.
EchoFits(chunk) == chunk.kind = "ECHO" => OutFits(chunk)

\* A message posted while the first association lasts.
Proper(m) == m.association = 0 /\ (m.message_id = "MSG_SCTPOUTBOUNDPACKET" => EchoFits(m.chunk))

\* The association is the first one, and so is that of every posted packet.
FirstAssociation ==
    /\ Up /\ association = 0
    /\ \A e \in Endpoints : \A i \in DOMAIN queue[e] : Proper(queue[e][i])
    /\ \A e \in Endpoints : \A i \in DOMAIN wire[e] : EchoFits(wire[e][i])

\* What ResetsGoOn needs to be inductive.
GoingInv ==
    /\ FirstAssociation
    /\ \A e \in Endpoints : \A s \in chan[e].sent : OnItsWay(e, s, queue, wire, resetHead)
    /\ \A e \in Endpoints : Retried(chan[e], queue[e])

\* The places of a sequence without its head, and with something behind it.
LEMMA Places ==
    ASSUME NEW S, NEW q \in Seq(S)
    PROVE  /\ DOMAIN q = 1 .. Len(q) /\ Len(q) \in Nat
           /\ q # <<>> => /\ Tail(q) \in Seq(S) /\ DOMAIN Tail(q) = 1 .. Len(q) - 1
                          /\ \A i \in 1 .. Len(q) - 1 : Tail(q)[i] = q[i + 1]
                          /\ Head(q) = q[1]
           /\ \A m \in S : /\ Append(q, m) \in Seq(S) /\ DOMAIN Append(q, m) = 1 .. Len(q) + 1
                           /\ \A i \in 1 .. Len(q) : Append(q, m)[i] = q[i]
                           /\ Append(q, m)[Len(q) + 1] = m
  OBVIOUS

\* What is not the head is still there when the head is taken.
LEMMA StaysInQueue ==
    ASSUME NEW q \in Seq(Message), q # <<>>, NEW id, NEW kinds, NEW s,
           InQueue(q, id, kinds, s), ~Names(Head(q), id, kinds, s)
    PROVE  InQueue(Tail(q), id, kinds, s)
  <1>1. PICK i \in 1 .. Len(q) : Names(q[i], id, kinds, s)
    BY Places DEF InQueue
  <1>2. i # 1
    BY <1>1, Places
  <1>3. i - 1 \in DOMAIN Tail(q) /\ Tail(q)[i - 1] = q[(i - 1) + 1] /\ (i - 1) + 1 = i
    BY <1>2, Places
  <1> QED
    BY <1>1, <1>3 DEF InQueue

\* The same on the wire.
LEMMA StaysInWire ==
    ASSUME NEW w \in Seq(Chunk), w # <<>>, NEW kinds, NEW s,
           InWire(w, kinds, s), ~(Head(w).kind \in kinds /\ s \in Head(w).sids)
    PROVE  InWire(Tail(w), kinds, s)
  <1>1. PICK i \in 1 .. Len(w) : w[i].kind \in kinds /\ s \in w[i].sids
    BY Places DEF InWire
  <1>2. i # 1
    BY <1>1, Places
  <1>3. i - 1 \in DOMAIN Tail(w) /\ Tail(w)[i - 1] = w[(i - 1) + 1] /\ (i - 1) + 1 = i
    BY <1>2, Places
  <1> QED
    BY <1>1, <1>3 DEF InWire

\* What is posted behind a queue, and what the queue held.
LEMMA PostedBehind ==
    ASSUME NEW q \in Seq(Message), NEW m \in Message, NEW id, NEW kinds, NEW s
    PROVE  /\ InQueue(q, id, kinds, s) => InQueue(Append(q, m), id, kinds, s)
           /\ Names(m, id, kinds, s) => InQueue(Append(q, m), id, kinds, s)
           /\ (\A i \in DOMAIN q : Proper(q[i])) /\ Proper(m) =>
                \A i \in DOMAIN Append(q, m) : Proper(Append(q, m)[i])
  <1>1. /\ DOMAIN q = 1 .. Len(q) /\ Len(q) \in Nat
        /\ DOMAIN Append(q, m) = 1 .. Len(q) + 1
        /\ \A i \in 1 .. Len(q) : Append(q, m)[i] = q[i]
        /\ Append(q, m)[Len(q) + 1] = m
    BY Places
  <1>2. 1 .. Len(q) \subseteq DOMAIN Append(q, m) /\ Len(q) + 1 \in DOMAIN Append(q, m)
        /\ \A i \in DOMAIN Append(q, m) : i \in 1 .. Len(q) \/ i = Len(q) + 1
    BY <1>1
  <1> QED
    BY <1>1, <1>2 DEF InQueue

\* The same on the wire.
LEMMA SentBehind ==
    ASSUME NEW w \in Seq(Chunk), NEW c \in Chunk, NEW kinds, NEW s
    PROVE  /\ InWire(w, kinds, s) => InWire(Append(w, c), kinds, s)
           /\ c.kind \in kinds /\ s \in c.sids => InWire(Append(w, c), kinds, s)
  <1>1. /\ DOMAIN w = 1 .. Len(w) /\ Len(w) \in Nat
        /\ DOMAIN Append(w, c) = 1 .. Len(w) + 1
        /\ \A i \in 1 .. Len(w) : Append(w, c)[i] = w[i]
        /\ Append(w, c)[Len(w) + 1] = c
    BY Places
  <1>2. 1 .. Len(w) \subseteq DOMAIN Append(w, c) /\ Len(w) + 1 \in DOMAIN Append(w, c)
    BY <1>1
  <1> QED
    BY <1>1, <1>2 DEF InWire

\* The fit of a chunk sent behind others, and of those behind one that is taken.
LEMMA FitsBehind ==
    ASSUME NEW w \in Seq(Chunk), \A i \in DOMAIN w : EchoFits(w[i])
    PROVE  /\ \A c \in Chunk : EchoFits(c) =>
                \A i \in DOMAIN Append(w, c) : EchoFits(Append(w, c)[i])
           /\ w # <<>> => EchoFits(Head(w)) /\ \A i \in DOMAIN Tail(w) : EchoFits(Tail(w)[i])
  <1>1. ASSUME NEW c \in Chunk, EchoFits(c), NEW i \in DOMAIN Append(w, c)
        PROVE  EchoFits(Append(w, c)[i])
    <2>1. (i \in DOMAIN w /\ Append(w, c)[i] = w[i]) \/ Append(w, c)[i] = c
      BY Places
    <2> QED BY <1>1, <2>1
  <1>2. ASSUME w # <<>> PROVE EchoFits(Head(w))
    <2>1. 1 \in DOMAIN w /\ Head(w) = w[1]
      BY <1>2
    <2> QED BY <2>1
  <1>3. ASSUME w # <<>>, NEW i \in DOMAIN Tail(w) PROVE EchoFits(Tail(w)[i])
    <2>1. Tail(w)[i] = w[i + 1] /\ i + 1 \in DOMAIN w
      BY <1>3, Places
    <2> QED BY <2>1
  <1> QED
    BY <1>1, <1>2, <1>3

\* What a queue without its head still has.
LEMMA TailKeeps ==
    ASSUME NEW q \in Seq(Message), q # <<>>, NEW id, Head(q).message_id # id,
           \E i \in DOMAIN q : q[i].message_id = id
    PROVE  \E i \in DOMAIN Tail(q) : Tail(q)[i].message_id = id
  <1>1. PICK i \in 1 .. Len(q) : q[i].message_id = id
    BY Places
  <1>2. i # 1
    BY <1>1, Places
  <1>3. i - 1 \in DOMAIN Tail(q) /\ Tail(q)[i - 1] = q[(i - 1) + 1] /\ (i - 1) + 1 = i
    BY <1>2, Places
  <1> QED
    BY <1>1, <1>3

\* A queue without its head has only packets it had.
LEMMA TailIsFirst ==
    ASSUME NEW q \in Seq(Message), q # <<>>, \A i \in DOMAIN q : Proper(q[i])
    PROVE  \A i \in DOMAIN Tail(q) : Proper(Tail(q)[i])
  <1> SUFFICES ASSUME NEW i \in DOMAIN Tail(q) PROVE Proper(Tail(q)[i])
    OBVIOUS
  <1>1. i \in 1 .. Len(q) - 1 /\ Tail(q)[i] = q[i + 1] /\ i + 1 \in DOMAIN q
    BY Places
  <1> QED
    BY <1>1

\* The two ends are each other's peers.
LEMMA PeerFacts ==
    ASSUME NEW e \in Endpoints
    PROVE  /\ Peer(e) \in Endpoints /\ Peer(e) # e /\ Peer(Peer(e)) = e
           /\ \A x \in Endpoints : x = e \/ x = Peer(e)
  <1>1. PICK a \in Endpoints, b \in Endpoints : a # b /\ Endpoints = {a, b}
    BY EndpointsOK
  <1>2. \A x \in Endpoints : Peer(x) \in Endpoints /\ Peer(x) # x
    BY <1>1 DEF Peer
  <1> QED
    BY <1>1, <1>2

\* SendQueuedStreamResets leaves nothing to send, waits for an event, or sends.
LEMMA SendQueuedGoesOn ==
    ASSUME NEW c \in Channel
    PROVE  LET t == SendQueuedStreamResets(c, TRUE)
           IN /\ t.queued = {} \/ t.sent # {} \/ t.outstanding = 1
              /\ t.sending = c.sending
              /\ t.outstanding > c.outstanding \/ t.sent = c.sent
  BY DEF SendQueuedStreamResets, setsockopt, Channel

\* ResetStream sends, or leaves the resets under way alone.
LEMMA ResetStreamGoesOn ==
    ASSUME NEW c \in Channel, NEW s \in Sids
    PROVE  LET t == ResetStream(c, s, TRUE)
           IN /\ t.queued = {} \/ t.sent # {} \/ t.outstanding = 1
              /\ t.sending = c.sending
              /\ t.outstanding > c.outstanding \/ t.sent = c.sent
  <1> DEFINE d == [c EXCEPT !.open = @ \ {s}, !.queued = @ \cup {s}]
  <1>1. d \in Channel /\ d.sending = c.sending /\ d.outstanding = c.outstanding /\ d.sent = c.sent
    BY DEF Channel
  <1>2. ResetStream(c, s, TRUE) = SendQueuedStreamResets(d, TRUE)
    BY DEF ResetStream
  <1> HIDE DEF d
  <1> QED
    BY <1>1, <1>2, SendQueuedGoesOn

\* OnStreamResetEvent sends, or no reset that the event names is still under way.
LEMMA ResetEventGoesOn ==
    ASSUME NEW c \in Channel, NEW chunk \in Chunk
    PROVE  LET t == OnStreamResetEvent(c, chunk, TRUE)
           IN /\ t.queued = {} \/ t.sent # {} \/ t.outstanding = 1
              /\ t.sending = c.sending
              /\ \/ t.outstanding > c.outstanding
                 \/ \A s \in t.sent :
                      s \in c.sent /\ ~(chunk.kind \in {"REQUEST", "ECHO", "FAILED", "DENIED"}
                                          /\ s \in chunk.sids)
  <1> DEFINE d == CASE chunk.kind = "FAILED" -> OnResetFailed(c)
                    [] chunk.kind \in {"REQUEST", "ECHO", "DENIED"} -> OnResetIncoming(c, chunk.sids)
                    [] OTHER -> c
  <1>0. chunk.sids \in SUBSET Sids
    BY DEF Chunk
  <1>1. /\ OnResetFailed(c) \in Channel /\ OnResetFailed(c).sent = {}
        /\ OnResetFailed(c).sending = c.sending /\ OnResetFailed(c).outstanding = c.outstanding
    BY DEF OnResetFailed, Channel
  <1>2. LET i == OnResetIncoming(c, chunk.sids)
        IN /\ i \in Channel /\ i.sent = c.sent \ chunk.sids
           /\ i.sending = c.sending /\ i.outstanding = c.outstanding
    BY <1>0 DEF OnResetIncoming, Channel
  <1>3. /\ d \in Channel /\ d.sending = c.sending /\ d.outstanding = c.outstanding
        /\ \A s \in d.sent :
             s \in c.sent /\ ~(chunk.kind \in {"REQUEST", "ECHO", "FAILED", "DENIED"} /\ s \in chunk.sids)
    BY <1>1, <1>2
  <1>4. OnStreamResetEvent(c, chunk, TRUE) = SendQueuedStreamResets(d, TRUE)
    BY DEF OnStreamResetEvent
  <1> HIDE DEF d
  <1> QED
    BY <1>3, <1>4, SendQueuedGoesOn

\* A call of e that returns with c and leaves q of the queue.
LEMMA ReturnsGoesOn ==
    ASSUME StreamsInv, GoingInv, NEW e \in Endpoints, NEW c \in Channel, NEW q \in Seq(Message),
           Returns(e, c, q), UNCHANGED <<wire, resetHead, association>>,
           c.sending = chan[e].sending,
           c.queued = {} \/ c.sent # {} \/ c.outstanding = 1,
           \A i \in DOMAIN q : Proper(q[i]),
           \A s : InQueue(queue[e], "MSG_SCTPOUTBOUNDPACKET", {"ECHO", "FAILED", "DENIED"}, s) =>
                    InQueue(q, "MSG_SCTPOUTBOUNDPACKET", {"ECHO", "FAILED", "DENIED"}, s),
           c.outstanding > chan[e].outstanding
             \/ \A s \in c.sent : OnItsWay(e, s, [queue EXCEPT ![e] = q], wire, resetHead)
    PROVE  GoingInv'
  <1> DEFINE m == Outbound("REQUEST", c.sent)
             p == IF c.outstanding > chan[e].outstanding THEN Append(q, m) ELSE q
  <1>0. /\ chan \in [Endpoints -> Channel] /\ queue \in [Endpoints -> Seq(Message)]
        /\ FirstAssociation
    BY InvFacts DEF GoingInv
  <1>1. /\ m \in Message /\ Proper(m) /\ m.message_id = "MSG_SCTPOUTBOUNDPACKET"
        /\ m.chunk.kind = "REQUEST" /\ m.chunk.sids = c.sent
    BY <1>0 DEF Outbound, Message, Chunk, ChunkKind, Channel, FirstAssociation, Proper, EchoFits
  <1>2. /\ chan' = [chan EXCEPT ![e] = c] /\ queue' = [queue EXCEPT ![e] = p]
    BY DEF Returns
  <1> HIDE DEF m
  <1>3. \A i \in DOMAIN p : Proper(p[i])
    BY <1>1, PostedBehind
  <1>4. \A s : InQueue(queue[e], "MSG_SCTPOUTBOUNDPACKET", {"ECHO", "FAILED", "DENIED"}, s) =>
                 InQueue(p, "MSG_SCTPOUTBOUNDPACKET", {"ECHO", "FAILED", "DENIED"}, s)
    BY <1>1, PostedBehind
  <1>5. \A s \in c.sent : OnItsWay(e, s, queue', wire, resetHead)
    <2>1. CASE c.outstanding > chan[e].outstanding
      <3> SUFFICES ASSUME NEW s \in c.sent PROVE OnItsWay(e, s, queue', wire, resetHead)
        OBVIOUS
      <3>1. Names(m, "MSG_SCTPOUTBOUNDPACKET", {"REQUEST"}, s)
        BY <1>1 DEF Names
      <3>2. InQueue(Append(q, m), "MSG_SCTPOUTBOUNDPACKET", {"REQUEST"}, s)
        BY <1>1, <3>1, PostedBehind
      <3>3. queue'[e] = Append(q, m)
        BY <1>0, <1>2, <2>1
      <3> QED BY <3>2, <3>3 DEF OnItsWay
    <2>2. CASE ~(c.outstanding > chan[e].outstanding)
      BY <1>2, <2>2
    <2> QED BY <2>1, <2>2
  <1> HIDE DEF p
  <1>6. /\ chan'[e] = c /\ queue'[e] = p
        /\ \A x \in Endpoints : x # e => chan'[x] = chan[x] /\ queue'[x] = queue[x]
    BY <1>0, <1>2
  <1>7. FirstAssociation'
    <2>1. Up'
      BY <1>0, <1>6 DEF FirstAssociation, Up
    <2>2. \A x \in Endpoints : \A i \in DOMAIN queue'[x] : Proper(queue'[x][i])
      BY <1>0, <1>3, <1>6 DEF FirstAssociation
    <2> QED BY <1>0, <2>1, <2>2 DEF FirstAssociation
  <1>8. \A x \in Endpoints : \A s \in chan'[x].sent : OnItsWay(x, s, queue', wire', resetHead')
    <2> SUFFICES ASSUME NEW x \in Endpoints, x # e, NEW s \in chan[x].sent
                 PROVE  OnItsWay(x, s, queue', wire, resetHead)
      BY <1>5, <1>6
    <2>1. OnItsWay(x, s, queue, wire, resetHead)
      BY DEF GoingInv
    <2>2. Peer(x) = e /\ queue'[x] = queue[x]
      BY <1>6, PeerFacts
    <2> QED BY <1>4, <1>6, <2>1, <2>2 DEF OnItsWay
  <1>9. \A x \in Endpoints : Retried(chan'[x], queue'[x])
    <2>1. Retried(c, p)
      BY DEF Retried
    <2> QED BY <1>6, <2>1 DEF GoingInv
  <1> QED
    BY <1>7, <1>8, <1>9 DEF GoingInv

\* RemoveStream keeps the resets going.
LEMMA RemoveGoesOn ==
    ASSUME StreamsInv, GoingInv, NEW e \in Endpoints, NEW s \in Sids, RemoveStream(e, s)
    PROVE  GoingInv'
  <1> DEFINE c == ResetStream(chan[e], s, TRUE)
  <1>0. /\ chan[e] \in Channel /\ Apart(chan[e]) /\ queue \in [Endpoints -> Seq(Message)] /\ Up
    BY InvFacts DEF GoingInv, FirstAssociation
  <1>1. Returns(e, c, queue[e]) /\ UNCHANGED <<wire, resetHead, association>> /\ s \in chan[e].open
    BY <1>0 DEF RemoveStream
  <1>2. c \in Channel
    BY <1>0, <1>1, ResetStreamFollows DEF Follows
  <1>3. /\ c.queued = {} \/ c.sent # {} \/ c.outstanding = 1
        /\ c.sending = chan[e].sending
        /\ c.outstanding > chan[e].outstanding \/ c.sent = chan[e].sent
    BY <1>0, ResetStreamGoesOn
  <1> HIDE DEF c
  <1>4. [queue EXCEPT ![e] = queue[e]] = queue
    BY <1>0
  <1>5. \A x \in chan[e].sent : OnItsWay(e, x, queue, wire, resetHead)
    BY DEF GoingInv
  <1>6. \A i \in DOMAIN queue[e] : Proper(queue[e][i])
    BY DEF GoingInv, FirstAssociation
  <1> QED
    BY <1>0, <1>1, <1>2, <1>3, <1>4, <1>5, <1>6, ReturnsGoesOn

\* So does a notification, whichever it is and however late it is handled.
LEMMA NotificationGoesOn ==
    ASSUME StreamsInv, GoingInv, NEW e \in Endpoints, OnNotification(e)
    PROVE  GoingInv'
  <1> DEFINE h == Head(queue[e])
             q == Tail(queue[e])
             c == OnStreamResetEvent(chan[e], h.chunk, TRUE)
  <1>0. /\ chan[e] \in Channel /\ Apart(chan[e]) /\ queue \in [Endpoints -> Seq(Message)] /\ Up
        /\ queue[e] # <<>> /\ queue[e] \in Seq(Message)
    BY InvFacts DEF GoingInv, FirstAssociation, OnNotification
  <1>1. /\ Returns(e, c, q) /\ UNCHANGED <<wire, resetHead, association>>
        /\ h.message_id = "MSG_SCTPINBOUNDPACKET"
    BY <1>0 DEF OnNotification
  <1>2. h \in Message /\ h.chunk \in Chunk /\ q \in Seq(Message)
    <2>1. h \in Message /\ q \in Seq(Message)
      BY <1>0
    <2> QED BY <2>1 DEF Message
  <1>3. c \in Channel
    BY <1>0, <1>2, OnStreamResetEventFollows DEF Follows
  <1>4. /\ c.queued = {} \/ c.sent # {} \/ c.outstanding = 1
        /\ c.sending = chan[e].sending
        /\ \/ c.outstanding > chan[e].outstanding
           \/ \A s \in c.sent :
                s \in chan[e].sent /\ ~(h.chunk.kind \in {"REQUEST", "ECHO", "FAILED", "DENIED"}
                                          /\ s \in h.chunk.sids)
    BY <1>0, <1>2, ResetEventGoesOn
  <1> HIDE DEF c
  <1>5. \A i \in DOMAIN q : Proper(q[i])
    BY <1>0, TailIsFirst DEF GoingInv, FirstAssociation
  <1>6. ASSUME NEW kinds, NEW s, InQueue(queue[e], "MSG_SCTPOUTBOUNDPACKET", kinds, s)
        PROVE  InQueue(q, "MSG_SCTPOUTBOUNDPACKET", kinds, s)
    <2>1. ~Names(h, "MSG_SCTPOUTBOUNDPACKET", kinds, s)
      BY <1>1 DEF Names
    <2> QED BY <1>0, <1>6, <2>1, StaysInQueue
  <1>7. ASSUME NEW s \in chan[e].sent,
               ~(h.chunk.kind \in {"REQUEST", "ECHO", "FAILED", "DENIED"} /\ s \in h.chunk.sids)
        PROVE  OnItsWay(e, s, [queue EXCEPT ![e] = q], wire, resetHead)
    <2> DEFINE qs == [queue EXCEPT ![e] = q]
               K == {"REQUEST", "ECHO", "FAILED", "DENIED"}
    <2>1. OnItsWay(e, s, queue, wire, resetHead)
      BY DEF GoingInv
    <2>2. qs[e] = q /\ qs[Peer(e)] = queue[Peer(e)]
      BY <1>0, PeerFacts
    <2>3. InQueue(queue[e], "MSG_SCTPINBOUNDPACKET", K, s) =>
            InQueue(q, "MSG_SCTPINBOUNDPACKET", K, s)
      <3>1. ~Names(h, "MSG_SCTPINBOUNDPACKET", K, s)
        BY <1>7 DEF Names
      <3> HIDE DEF K, h
      <3> QED BY <1>0, <3>1, StaysInQueue DEF h
    <2> HIDE DEF qs, q
    <2> QED BY <1>6, <2>1, <2>2, <2>3 DEF OnItsWay
  <1> HIDE DEF q, h
  <1>8. c.outstanding > chan[e].outstanding
          \/ \A s \in c.sent : OnItsWay(e, s, [queue EXCEPT ![e] = q], wire, resetHead)
    BY <1>4, <1>7
  <1> QED
    BY <1>1, <1>2, <1>3, <1>4, <1>5, <1>6, <1>8, ReturnsGoesOn

\* A packet handed to the network is on the wire to the peer.
LEMMA PacketGoesOn ==
    ASSUME StreamsInv, GoingInv, NEW e \in Endpoints, OnPacketFromSctpToNetwork(e)
    PROVE  GoingInv'
  <1> DEFINE h == Head(queue[e])
             q == Tail(queue[e])
             w == Append(wire[Peer(e)], h.chunk)
             OUT == "MSG_SCTPOUTBOUNDPACKET"
             INB == "MSG_SCTPINBOUNDPACKET"
  <1>0. /\ queue \in [Endpoints -> Seq(Message)] /\ wire \in [Endpoints -> Seq(Chunk)]
        /\ queue[e] # <<>> /\ queue[e] \in Seq(Message) /\ FirstAssociation
        /\ Peer(e) \in Endpoints /\ Peer(e) # e /\ Peer(Peer(e)) = e
        /\ \A x \in Endpoints : x = e \/ x = Peer(e)
    BY InvFacts, PeerFacts DEF GoingInv, OnPacketFromSctpToNetwork
  <1>1. h \in Message /\ h.chunk \in Chunk /\ q \in Seq(Message)
    <2>1. h \in Message /\ q \in Seq(Message)
      BY <1>0
    <2> QED BY <2>1 DEF Message
  <1>2. Proper(h) /\ h.association = 0
    <2>1. 1 \in DOMAIN queue[e] /\ h = queue[e][1]
      BY <1>0
    <2> QED BY <1>0, <2>1 DEF FirstAssociation, Proper
  <1>3. /\ UNCHANGED <<chan, resetHead, association>> /\ h.message_id = OUT
        /\ queue' = [queue EXCEPT ![e] = q] /\ wire' = [wire EXCEPT ![Peer(e)] = w]
    BY <1>0, <1>2 DEF OnPacketFromSctpToNetwork, FirstAssociation
  <1>4. /\ queue'[e] = q /\ queue'[Peer(e)] = queue[Peer(e)]
        /\ wire'[e] = wire[e] /\ wire'[Peer(e)] = w
    BY <1>0, <1>3
  <1>5. FirstAssociation'
    <2>1. \A i \in DOMAIN q : Proper(q[i])
      BY <1>0, TailIsFirst DEF FirstAssociation
    <2>2. Up'
      BY <1>0, <1>3 DEF FirstAssociation, Up
    <2> HIDE DEF q
    <2>3. \A x \in Endpoints : \A i \in DOMAIN queue'[x] : Proper(queue'[x][i])
      <3>1. \A i \in DOMAIN queue'[e] : Proper(queue'[e][i])
        BY <1>4, <2>1
      <3>2. \A i \in DOMAIN queue[Peer(e)] : Proper(queue[Peer(e)][i])
        BY <1>0 DEF FirstAssociation
      <3>3. \A i \in DOMAIN queue'[Peer(e)] : Proper(queue'[Peer(e)][i])
        BY <1>4, <3>2
      <3> QED BY <1>0, <3>1, <3>3
    <2>4. \A i \in DOMAIN w : EchoFits(w[i])
      <3>1. EchoFits(h.chunk)
        BY <1>2, <1>3 DEF Proper
      <3> HIDE DEF h
      <3> QED BY <1>0, <1>1, <3>1, FitsBehind DEF FirstAssociation
    <2> HIDE DEF w
    <2>5. \A x \in Endpoints : \A i \in DOMAIN wire'[x] : EchoFits(wire'[x][i])
      BY <1>0, <1>4, <2>4 DEF FirstAssociation
    <2> QED BY <1>0, <1>3, <2>2, <2>3, <2>5 DEF FirstAssociation
  <1>6. ASSUME NEW kinds, NEW s, InQueue(queue[e], OUT, kinds, s)
        PROVE  InQueue(q, OUT, kinds, s) \/ InWire(w, kinds, s)
    <2>1. CASE Names(h, OUT, kinds, s)
      <3>1. h.chunk.kind \in kinds /\ s \in h.chunk.sids
        BY <2>1 DEF Names
      <3> QED BY <1>0, <1>1, <3>1, SentBehind
    <2>2. CASE ~Names(h, OUT, kinds, s)
      BY <1>0, <1>6, <2>2, StaysInQueue
    <2> QED BY <2>1, <2>2
  <1>7. ASSUME NEW kinds, NEW s, InQueue(queue[e], INB, kinds, s)
        PROVE  InQueue(q, INB, kinds, s)
    <2>1. ~Names(h, INB, kinds, s)
      BY <1>3 DEF Names
    <2> QED BY <1>0, <1>7, <2>1, StaysInQueue
  <1>8. ASSUME NEW kinds, NEW s, InWire(wire[Peer(e)], kinds, s)
        PROVE  InWire(w, kinds, s)
    BY <1>0, <1>1, <1>8, SentBehind
  <1>9. Retried(chan[e], q)
    <2>1. (\E i \in DOMAIN queue[e] : queue[e][i].message_id = INB) =>
            \E i \in DOMAIN q : q[i].message_id = INB
      BY <1>0, <1>3, TailKeeps
    <2>2. Retried(chan[e], queue[e])
      BY DEF GoingInv
    <2> HIDE DEF q
    <2> QED BY <2>1, <2>2 DEF Retried
  <1> HIDE DEF q, w, h
  <1>10. \A x \in Endpoints : Retried(chan'[x], queue'[x])
    BY <1>0, <1>3, <1>4, <1>9 DEF GoingInv
  <1>11. ASSUME NEW x \in Endpoints, NEW s \in chan'[x].sent
         PROVE  OnItsWay(x, s, queue', wire', resetHead')
    <2>1. OnItsWay(x, s, queue, wire, resetHead)
      BY <1>3, <1>11 DEF GoingInv
    <2>2. CASE x = e
      BY <1>0, <1>3, <1>4, <1>6, <1>7, <1>8, <2>1, <2>2 DEF OnItsWay
    <2>3. CASE x = Peer(e)
      BY <1>0, <1>3, <1>4, <1>6, <1>7, <1>8, <2>1, <2>3 DEF OnItsWay
    <2> QED BY <1>0, <2>2, <2>3
  <1> QED
    BY <1>5, <1>10, <1>11 DEF GoingInv

\* What two sequences hold one behind the other.
LEMMA JoinedQueues ==
    ASSUME NEW q \in Seq(Message), NEW r \in Seq(Message)
    PROVE  /\ \A id, kinds, s : InQueue(q, id, kinds, s) => InQueue(q \o r, id, kinds, s)
           /\ \A id, kinds, s : InQueue(r, id, kinds, s) => InQueue(q \o r, id, kinds, s)
           /\ \A id : (\E i \in DOMAIN q : q[i].message_id = id)
                        \/ (\E i \in DOMAIN r : r[i].message_id = id) =>
                        \E i \in DOMAIN (q \o r) : (q \o r)[i].message_id = id
           /\ (\A i \in DOMAIN q : Proper(q[i])) /\ (\A i \in DOMAIN r : Proper(r[i]))
                => \A i \in DOMAIN (q \o r) : Proper((q \o r)[i])
  <1> DEFINE z == q \o r
  <1>1. /\ DOMAIN q = 1 .. Len(q) /\ Len(q) \in Nat /\ DOMAIN r = 1 .. Len(r) /\ Len(r) \in Nat
        /\ DOMAIN z = 1 .. Len(q) + Len(r)
    OBVIOUS
  <1>2. \A i \in DOMAIN q : i \in DOMAIN z /\ z[i] = q[i]
    BY <1>1
  <1>3. \A i \in DOMAIN r : Len(q) + i \in DOMAIN z /\ z[Len(q) + i] = r[i]
    BY <1>1
  <1>4. ASSUME NEW i \in DOMAIN z
        PROVE  (i \in DOMAIN q /\ z[i] = q[i]) \/ \E j \in DOMAIN r : z[i] = r[j]
    <2>1. CASE i <= Len(q)
      BY <1>1, <1>2, <2>1
    <2>2. CASE ~(i <= Len(q))
      <3>1. i - Len(q) \in DOMAIN r /\ Len(q) + (i - Len(q)) = i
        BY <1>1, <2>2
      <3> QED BY <1>3, <3>1
    <2> QED BY <2>1, <2>2
  <1> HIDE DEF z
  <1>5. \A id, kinds, s : InQueue(q, id, kinds, s) => InQueue(z, id, kinds, s)
    BY <1>2 DEF InQueue
  <1>6. \A id, kinds, s : InQueue(r, id, kinds, s) => InQueue(z, id, kinds, s)
    BY <1>3 DEF InQueue
  <1>7. \A id : (\E i \in DOMAIN q : q[i].message_id = id)
                  \/ (\E i \in DOMAIN r : r[i].message_id = id) =>
                  \E i \in DOMAIN z : z[i].message_id = id
    BY <1>2, <1>3
  <1>8. (\A i \in DOMAIN q : Proper(q[i])) /\ (\A i \in DOMAIN r : Proper(r[i]))
          => \A i \in DOMAIN z : Proper(z[i])
    BY <1>4
  <1> QED
    BY <1>5, <1>6, <1>7, <1>8 DEF z

\* A chunk that usrsctp takes becomes a notification, now or later, or the reset goes on
\* with an answer.
LEMMA TakesGoesOn ==
    ASSUME StreamsInv, GoingInv, NEW e \in Endpoints, wire[e] # <<>>,
           wire' = [wire EXCEPT ![e] = Tail(@)], association' = association,
           NEW posts \in Seq(Message), queue' = [queue EXCEPT ![e] = @ \o posts],
           NEW kept \in Seq(Chunk), resetHead' = [resetHead EXCEPT ![e] = kept],
           \A x \in Endpoints : /\ chan'[x].sent = chan[x].sent
                                /\ chan'[x].queued = chan[x].queued
                                /\ chan'[x].sending = chan[x].sending
                                /\ x # e => chan'[x] = chan[x],
           \/ chan'[e].outstanding = 1 \/ chan'[e].outstanding = chan[e].outstanding
           \/ \E i \in DOMAIN posts : posts[i].message_id = "MSG_SCTPINBOUNDPACKET",
           \A i \in DOMAIN posts : Proper(posts[i]),
           \A s : InWire(resetHead[e], {"REQUEST", "ECHO"}, s) => InWire(kept, {"REQUEST", "ECHO"}, s),
           \A s \in Head(wire[e]).sids :
             /\ Head(wire[e]).kind = "REQUEST" =>
                  InQueue(posts, "MSG_SCTPOUTBOUNDPACKET", {"ECHO", "FAILED", "DENIED"}, s)
             /\ Head(wire[e]).kind \in {"ECHO", "FAILED", "DENIED"} =>
                  \/ InQueue(posts, "MSG_SCTPINBOUNDPACKET", {"REQUEST", "ECHO", "FAILED", "DENIED"}, s)
                  \/ InWire(kept, {"REQUEST", "ECHO"}, s)
    PROVE  GoingInv'
  <1> DEFINE h == Head(wire[e])
             w == Tail(wire[e])
             q == queue[e] \o posts
             OUT == "MSG_SCTPOUTBOUNDPACKET"
             INB == "MSG_SCTPINBOUNDPACKET"
             K == {"REQUEST", "ECHO", "FAILED", "DENIED"}
             A == {"ECHO", "FAILED", "DENIED"}
  <1>0. /\ queue \in [Endpoints -> Seq(Message)] /\ wire \in [Endpoints -> Seq(Chunk)]
        /\ resetHead \in [Endpoints -> Seq(Chunk)]
        /\ queue[e] \in Seq(Message) /\ wire[e] \in Seq(Chunk) /\ FirstAssociation
        /\ Peer(e) \in Endpoints /\ Peer(e) # e /\ Peer(Peer(e)) = e
        /\ \A x \in Endpoints : x = e \/ x = Peer(e)
    BY InvFacts, PeerFacts DEF GoingInv
  <1>1. h \in Chunk /\ w \in Seq(Chunk)
    BY <1>0
  <1>2. /\ queue'[e] = q /\ queue'[Peer(e)] = queue[Peer(e)]
        /\ wire'[e] = w /\ wire'[Peer(e)] = wire[Peer(e)]
        /\ resetHead'[e] = kept /\ resetHead'[Peer(e)] = resetHead[Peer(e)]
    BY <1>0
  <1>3. \A i \in DOMAIN queue[e] : Proper(queue[e][i])
    BY <1>0 DEF FirstAssociation
  <1>4. /\ \A i \in DOMAIN q : Proper(q[i])
        /\ \A id, kinds, s : InQueue(queue[e], id, kinds, s) => InQueue(q, id, kinds, s)
        /\ \A id, kinds, s : InQueue(posts, id, kinds, s) => InQueue(q, id, kinds, s)
        /\ \A id : (\E i \in DOMAIN queue[e] : queue[e][i].message_id = id) =>
                     \E i \in DOMAIN q : q[i].message_id = id
        /\ \A id : (\E i \in DOMAIN posts : posts[i].message_id = id) =>
                     \E i \in DOMAIN q : q[i].message_id = id
    <2>1. \A i \in DOMAIN q : Proper(q[i])
      BY <1>0, <1>3, JoinedQueues
    <2>2. /\ \A id, kinds, s : InQueue(queue[e], id, kinds, s) => InQueue(q, id, kinds, s)
          /\ \A id, kinds, s : InQueue(posts, id, kinds, s) => InQueue(q, id, kinds, s)
      BY <1>0, JoinedQueues
    <2>3. \A id : (\E i \in DOMAIN queue[e] : queue[e][i].message_id = id)
                   \/ (\E i \in DOMAIN posts : posts[i].message_id = id) =>
                   \E i \in DOMAIN q : q[i].message_id = id
      BY <1>0, JoinedQueues
    <2> HIDE DEF q
    <2> QED BY <2>1, <2>2, <2>3
  <1> HIDE DEF q
  <1>5. FirstAssociation'
    <2>1. Up'
      <3>1. \A x \in Endpoints : chan[x].sending
        BY <1>0 DEF FirstAssociation, Up
      <3>2. \A x \in Endpoints : chan'[x].sending
        BY <3>1, Zenon
      <3> QED BY <3>2 DEF Up
    <2>2. \A x \in Endpoints : \A i \in DOMAIN queue'[x] : Proper(queue'[x][i])
      <3>1. \A i \in DOMAIN queue'[e] : Proper(queue'[e][i])
        BY <1>2, <1>4
      <3>2. \A i \in DOMAIN queue[Peer(e)] : Proper(queue[Peer(e)][i])
        BY <1>0 DEF FirstAssociation
      <3>3. \A i \in DOMAIN queue'[Peer(e)] : Proper(queue'[Peer(e)][i])
        BY <1>2, <3>2
      <3> QED BY <1>0, <3>1, <3>3
    <2>3. \A x \in Endpoints : \A i \in DOMAIN wire'[x] : EchoFits(wire'[x][i])
      <3>1. \A i \in DOMAIN w : EchoFits(w[i])
        BY <1>0, FitsBehind DEF FirstAssociation
      <3> HIDE DEF w
      <3>2. \A i \in DOMAIN wire[Peer(e)] : EchoFits(wire[Peer(e)][i])
        BY <1>0 DEF FirstAssociation
      <3> QED BY <1>0, <1>2, <3>1, <3>2
    <2> QED BY <1>0, <2>1, <2>2, <2>3 DEF FirstAssociation
  <1>6. \A x \in Endpoints : Retried(chan'[x], queue'[x])
    <2>1. Retried(chan'[e], q)
      <3>1. Retried(chan[e], queue[e])
        BY DEF GoingInv
      <3> QED BY <1>4, <3>1 DEF Retried
    <2> QED BY <1>0, <1>2, <2>1 DEF GoingInv
  <1>7. ASSUME NEW kinds, NEW s, InWire(wire[e], kinds, s)
        PROVE  InWire(w, kinds, s) \/ (h.kind \in kinds /\ s \in h.sids)
    BY <1>0, <1>7, StaysInWire
  <1>8. \A s \in h.sids :
          /\ h.kind = "REQUEST" => InQueue(q, OUT, A, s)
          /\ h.kind \in A => InQueue(q, INB, K, s) \/ InWire(kept, {"REQUEST", "ECHO"}, s)
    BY <1>4
  <1> HIDE DEF w, h
  <1>9. ASSUME NEW x \in Endpoints, NEW s \in chan'[x].sent
        PROVE  OnItsWay(x, s, queue', wire', resetHead')
    <2>1. OnItsWay(x, s, queue, wire, resetHead)
      BY <1>9 DEF GoingInv
    <2>2. CASE x = e
      <3>1. InWire(wire[e], A, s) => \/ InWire(w, A, s) \/ InQueue(q, INB, K, s)
                                     \/ InWire(kept, {"REQUEST", "ECHO"}, s)
        BY <1>7, <1>8
      <3> QED BY <1>0, <1>2, <1>4, <2>1, <2>2, <3>1 DEF OnItsWay
    <2>3. CASE x = Peer(e)
      <3>1. InWire(wire[e], {"REQUEST"}, s) => InWire(w, {"REQUEST"}, s) \/ InQueue(q, OUT, A, s)
        BY <1>7, <1>8
      <3> QED BY <1>0, <1>2, <1>4, <2>1, <2>3, <3>1 DEF OnItsWay
    <2> QED BY <1>0, <2>2, <2>3
  <1> QED
    BY <1>5, <1>6, <1>9 DEF GoingInv

\* A reset of incoming streams that fits is posted or kept.
LEMMA ResetInGoesOn ==
    ASSUME StreamsInv, GoingInv, NEW e \in Endpoints, wire[e] # <<>>,
           wire' = [wire EXCEPT ![e] = Tail(@)], association' = association,
           NEW answers \in Seq(Message), ResetIn(e, answers),
           \A x \in Endpoints : /\ chan'[x].sent = chan[x].sent
                                /\ chan'[x].queued = chan[x].queued
                                /\ chan'[x].sending = chan[x].sending
                                /\ x # e => chan'[x] = chan[x],
           chan'[e].outstanding = 1 \/ chan'[e].outstanding = chan[e].outstanding,
           \A i \in DOMAIN answers : Proper(answers[i]),
           \/ /\ Head(wire[e]).kind = "REQUEST"
              /\ \A s \in Head(wire[e]).sids :
                   InQueue(answers, "MSG_SCTPOUTBOUNDPACKET", {"ECHO", "FAILED", "DENIED"}, s)
           \/ Head(wire[e]).kind = "ECHO" /\ OutFits(Head(wire[e]))
    PROVE  GoingInv'
  <1> DEFINE h == Head(wire[e])
             m == Inbound(h)
             posts == <<m>> \o answers
             kept == Append(resetHead[e], h)
             OUT == "MSG_SCTPOUTBOUNDPACKET"
             INB == "MSG_SCTPINBOUNDPACKET"
             K == {"REQUEST", "ECHO", "FAILED", "DENIED"}
             A == {"ECHO", "FAILED", "DENIED"}
  <1>0. /\ resetHead \in [Endpoints -> Seq(Chunk)] /\ resetHead[e] \in Seq(Chunk)
        /\ queue \in [Endpoints -> Seq(Message)] /\ wire[e] \in Seq(Chunk) /\ association = 0
    BY InvFacts DEF GoingInv, FirstAssociation
  <1>1. h \in Chunk
    BY <1>0
  <1>2. /\ m \in Message /\ Proper(m) /\ m.message_id = INB /\ m.chunk = h
    BY <1>0, <1>1 DEF Inbound, Message, Proper
  <1> HIDE DEF m
  <1>3. <<m>> \in Seq(Message) /\ DOMAIN <<m>> = {1} /\ <<m>>[1] = m
    BY <1>2
  <1> DEFINE n == <<m>>
  <1> HIDE DEF n
  <1>4. /\ n \in Seq(Message) /\ \A i \in DOMAIN n : Proper(n[i])
        /\ h.kind \in K => \A s \in h.sids : InQueue(n, INB, K, s)
    BY <1>2, <1>3 DEF n, InQueue, Names
  <1>5. /\ posts \in Seq(Message) /\ posts = n \o answers
        /\ \A i \in DOMAIN posts : Proper(posts[i])
        /\ \A s : InQueue(answers, OUT, A, s) => InQueue(posts, OUT, A, s)
        /\ h.kind \in K => \A s \in h.sids : InQueue(posts, INB, K, s)
    <2>1. posts = n \o answers /\ posts \in Seq(Message)
      BY <1>4 DEF n
    <2> HIDE DEF posts, h
    <2> QED BY <1>4, <2>1, JoinedQueues
  <1>6. /\ kept \in Seq(Chunk)
        /\ \A s : InWire(resetHead[e], {"REQUEST", "ECHO"}, s) => InWire(kept, {"REQUEST", "ECHO"}, s)
        /\ h.kind \in {"REQUEST", "ECHO"} => \A s \in h.sids : InWire(kept, {"REQUEST", "ECHO"}, s)
    <2>1. kept \in Seq(Chunk)
      BY <1>0, <1>1
    <2> HIDE DEF h
    <2> QED BY <1>0, <1>1, <2>1, SentBehind
  <1>7. [resetHead EXCEPT ![e] = resetHead[e]] = resetHead
    BY <1>0
  <1> HIDE DEF h, posts, kept
  <1>8. CASE ~OutFits(h) /\ queue' = [queue EXCEPT ![e] = @ \o answers] /\ resetHead' = resetHead
    BY <1>0, <1>7, <1>8, TakesGoesOn DEF h
  <1>9. CASE queue' = [queue EXCEPT ![e] = @ \o posts] /\ resetHead' = resetHead
    BY <1>0, <1>5, <1>7, <1>9, TakesGoesOn DEF h
  <1>10. CASE /\ queue' = [queue EXCEPT ![e] = @ \o answers]
              /\ resetHead' = [resetHead EXCEPT ![e] = kept]
    BY <1>0, <1>6, <1>10, TakesGoesOn DEF h
  <1> QED
    BY <1>8, <1>9, <1>10 DEF ResetIn, posts, kept, m, h

\* What a request that was accepted asks back for is not too long to be performed.
AnswersFit == \A chunk \in Chunk : InFits(chunk) => OutFits(chunk)

\* Whatever usrsctp does with the next chunk, the resets go on.
LEMMA UsrsctpGoesOn ==
    ASSUME StreamsInv, GoingInv, AnswersFit, NEW e \in Endpoints, usrsctp(e)
    PROVE  GoingInv'
  <1> DEFINE h == Head(wire[e])
             OUT == "MSG_SCTPOUTBOUNDPACKET"
             INB == "MSG_SCTPINBOUNDPACKET"
             A == {"ECHO", "FAILED", "DENIED"}
  <1>0. /\ chan \in [Endpoints -> Channel] /\ wire[e] # <<>> /\ association = 0
        /\ wire[e] \in Seq(Chunk) /\ wire' = [wire EXCEPT ![e] = Tail(@)]
        /\ association' = association /\ h \in Chunk /\ EchoFits(h)
    <2>1. /\ chan \in [Endpoints -> Channel] /\ wire[e] # <<>> /\ association = 0
          /\ wire[e] \in Seq(Chunk) /\ wire' = [wire EXCEPT ![e] = Tail(@)]
          /\ association' = association
      BY InvFacts DEF GoingInv, FirstAssociation, usrsctp, AcceptRequest, RefuseRequest,
                      DenyRequest, TakeEcho, TakeAnswer, Takes
    <2>2. \A i \in DOMAIN wire[e] : EchoFits(wire[e][i])
      BY DEF GoingInv, FirstAssociation
    <2> QED BY <2>1, <2>2, FitsBehind
  <1>1. \A k \in ChunkKind :
          /\ Outbound(k, h.sids) \in Message /\ Outbound(k, h.sids).association = 0
          /\ Outbound(k, h.sids).chunk = [kind |-> k, sids |-> h.sids]
          /\ \A s \in h.sids : Names(Outbound(k, h.sids), OUT, {k}, s)
    BY <1>0, AnswerIsMessage DEF Outbound, Names
  <1>2. CASE AcceptRequest(e)
    <2> DEFINE a == Outbound("ECHO", h.sids)
               b == Outbound("DONE", h.sids)
               z == <<a, b>>
    <2>1. /\ a \in Message /\ b \in Message
          /\ \A s \in h.sids : Names(a, OUT, {"ECHO"}, s)
      BY <1>1 DEF ChunkKind
    <2>2. Proper(a) /\ Proper(b)
      <3>1. OutFits(h)
        BY <1>0, <1>2 DEF AcceptRequest, AnswersFit
      <3>2. OutFits(a.chunk)
        BY <1>1, <3>1 DEF OutFits, ChunkKind
      <3> QED BY <1>1, <3>2 DEF Proper, EchoFits, ChunkKind
    <2>3. ResetIn(e, z) /\ chan' = [chan EXCEPT ![e].outstanding = 1] /\ h.kind = "REQUEST"
      BY <1>2 DEF AcceptRequest, Takes
    <2> HIDE DEF a, b, h
    <2>4. z \in Seq(Message) /\ DOMAIN z = {1, 2} /\ z[1] = a /\ z[2] = b
      BY <2>1
    <2> HIDE DEF z
    <2>5. \A s \in h.sids : InQueue(z, OUT, A, s)
      BY <2>1, <2>4 DEF InQueue, Names
    <2>6. \A i \in DOMAIN z : Proper(z[i])
      BY <2>2, <2>4
    <2>7. /\ \A x \in Endpoints : /\ chan'[x].sent = chan[x].sent
                                  /\ chan'[x].queued = chan[x].queued
                                  /\ chan'[x].sending = chan[x].sending
                                  /\ x # e => chan'[x] = chan[x]
          /\ chan'[e].outstanding = 1
      BY <1>0, <2>3 DEF Channel
    <2> QED BY <1>0, <2>3, <2>4, <2>5, <2>6, <2>7, ResetInGoesOn DEF h
  <1>3. CASE RefuseRequest(e)
    <2> DEFINE a == Outbound("FAILED", h.sids)
               z == <<a>>
    <2>1. /\ a \in Message /\ Proper(a) /\ \A s \in h.sids : Names(a, OUT, {"FAILED"}, s)
      BY <1>1 DEF ChunkKind, Proper, EchoFits
    <2>2. ResetIn(e, z) /\ chan' = chan /\ h.kind = "REQUEST"
      BY <1>3 DEF RefuseRequest, Takes
    <2> HIDE DEF a, h
    <2>3. z \in Seq(Message) /\ DOMAIN z = {1} /\ z[1] = a
      BY <2>1
    <2> HIDE DEF z
    <2>4. \A s \in h.sids : InQueue(z, OUT, A, s)
      BY <2>1, <2>3 DEF InQueue, Names
    <2>5. \A i \in DOMAIN z : Proper(z[i])
      BY <2>1, <2>3
    <2> QED BY <1>0, <2>2, <2>3, <2>4, <2>5, ResetInGoesOn DEF h
  <1>4. CASE DenyRequest(e)
    <2> DEFINE a == Outbound("DENIED", h.sids)
               z == <<a>>
    <2>0. /\ resetHead \in [Endpoints -> Seq(Chunk)] /\ resetHead[e] \in Seq(Chunk)
          /\ queue \in [Endpoints -> Seq(Message)] /\ queue[e] \in Seq(Message)
      BY InvFacts
    <2>1. /\ a \in Message /\ Proper(a) /\ \A s \in h.sids : Names(a, OUT, {"DENIED"}, s)
      BY <1>1 DEF ChunkKind, Proper, EchoFits
    <2>2. /\ chan' = chan /\ h.kind = "REQUEST" /\ resetHead' = resetHead
          /\ queue' = [queue EXCEPT ![e] = Append(@, a)]
      BY <1>4 DEF DenyRequest, Takes
    <2> HIDE DEF a, h
    <2>3. /\ z \in Seq(Message) /\ DOMAIN z = {1} /\ z[1] = a
          /\ Append(queue[e], a) = queue[e] \o z
      BY <2>0, <2>1
    <2>4. queue' = [queue EXCEPT ![e] = @ \o z] /\ resetHead' = [resetHead EXCEPT ![e] = resetHead[e]]
      BY <2>0, <2>2, <2>3
    <2> HIDE DEF z
    <2>5. \A s \in h.sids : InQueue(z, OUT, A, s)
      BY <2>1, <2>3 DEF InQueue, Names
    <2>6. \A i \in DOMAIN z : Proper(z[i])
      BY <2>1, <2>3
    <2> QED BY <1>0, <2>0, <2>2, <2>3, <2>4, <2>5, <2>6, TakesGoesOn DEF h
  <1>5. CASE TakeEcho(e)
    <2> DEFINE a == Outbound("DONE", h.sids)
               z == <<a>>
    <2>1. a \in Message /\ Proper(a)
      BY <1>1 DEF ChunkKind, Proper, EchoFits
    <2>2. ResetIn(e, z) /\ chan' = chan /\ h.kind = "ECHO" /\ OutFits(h)
      BY <1>0, <1>5 DEF TakeEcho, Takes, EchoFits
    <2> HIDE DEF a, h
    <2>3. z \in Seq(Message) /\ DOMAIN z = {1} /\ z[1] = a
      BY <2>1
    <2> HIDE DEF z
    <2>4. \A i \in DOMAIN z : Proper(z[i])
      BY <2>1, <2>3
    <2> QED BY <1>0, <2>2, <2>3, <2>4, ResetInGoesOn DEF h
  <1>6. CASE TakeAnswer(e)
    <2> DEFINE m == Inbound(h)
               z == <<m>>
               K == {"REQUEST", "ECHO", "FAILED", "DENIED"}
    <2>1. /\ resetHead \in [Endpoints -> Seq(Chunk)] /\ resetHead[e] \in Seq(Chunk)
          /\ queue \in [Endpoints -> Seq(Message)] /\ queue[e] \in Seq(Message)
      BY InvFacts
    <2>2. /\ h.kind # "REQUEST" /\ chan' = [chan EXCEPT ![e].outstanding = 0]
          /\ queue' = [queue EXCEPT ![e] = Append(@, m)] /\ resetHead' = resetHead
      BY <1>6 DEF TakeAnswer, Takes
    <2>3. m \in Message /\ Proper(m) /\ m.message_id = INB /\ m.chunk = h
      BY <1>0 DEF Inbound, Message, Proper
    <2> HIDE DEF m, h
    <2>4. /\ z \in Seq(Message) /\ DOMAIN z = {1} /\ z[1] = m
          /\ Append(queue[e], m) = queue[e] \o z
      BY <2>1, <2>3
    <2>5. queue' = [queue EXCEPT ![e] = @ \o z] /\ resetHead' = [resetHead EXCEPT ![e] = resetHead[e]]
      BY <2>1, <2>2, <2>4
    <2> HIDE DEF z
    <2>6. /\ \A i \in DOMAIN z : Proper(z[i])
          /\ \E i \in DOMAIN z : z[i].message_id = INB
          /\ \A s \in h.sids : h.kind \in A => InQueue(z, INB, K, s)
      BY <2>3, <2>4 DEF InQueue, Names
    <2>7. \A x \in Endpoints : /\ chan'[x].sent = chan[x].sent
                               /\ chan'[x].queued = chan[x].queued
                               /\ chan'[x].sending = chan[x].sending
                               /\ x # e => chan'[x] = chan[x]
      BY <1>0, <2>2 DEF Channel
    <2> QED BY <1>0, <2>1, <2>2, <2>4, <2>5, <2>6, <2>7, TakesGoesOn DEF h
  <1> QED
    BY <1>2, <1>3, <1>4, <1>5, <1>6 DEF usrsctp

\* A kept reset that is performed becomes a notification.
LEMMA KeptGoesOn ==
    ASSUME StreamsInv, GoingInv, NEW e \in Endpoints, ResetWhenComplete(e)
    PROVE  GoingInv'
  <1> DEFINE h == Head(resetHead[e])
             m == Inbound(h)
             q == Append(queue[e], m)
             r == Tail(resetHead[e])
             INB == "MSG_SCTPINBOUNDPACKET"
             K == {"REQUEST", "ECHO", "FAILED", "DENIED"}
             R == {"REQUEST", "ECHO"}
  <1>0. /\ queue \in [Endpoints -> Seq(Message)] /\ resetHead \in [Endpoints -> Seq(Chunk)]
        /\ queue[e] \in Seq(Message) /\ resetHead[e] \in Seq(Chunk) /\ resetHead[e] # <<>>
        /\ FirstAssociation
        /\ Peer(e) \in Endpoints /\ Peer(e) # e /\ Peer(Peer(e)) = e
        /\ \A x \in Endpoints : x = e \/ x = Peer(e)
    BY InvFacts, PeerFacts DEF GoingInv, ResetWhenComplete
  <1>1. /\ UNCHANGED <<chan, wire, association>>
        /\ queue' = [queue EXCEPT ![e] = q] /\ resetHead' = [resetHead EXCEPT ![e] = r]
    BY DEF ResetWhenComplete
  <1>2. h \in Chunk
    BY <1>0
  <1>3. m \in Message /\ Proper(m) /\ m.message_id = INB /\ m.chunk = h
    BY <1>0, <1>2 DEF Inbound, Message, Proper, FirstAssociation
  <1> HIDE DEF m
  <1>4. /\ queue'[e] = q /\ queue'[Peer(e)] = queue[Peer(e)]
        /\ resetHead'[e] = r /\ resetHead'[Peer(e)] = resetHead[Peer(e)]
    BY <1>0, <1>1
  <1>5. \A i \in DOMAIN q : Proper(q[i])
    BY <1>0, <1>3, PostedBehind DEF FirstAssociation
  <1>6. FirstAssociation'
    <2> HIDE DEF q
    <2>1. \A x \in Endpoints : \A i \in DOMAIN queue'[x] : Proper(queue'[x][i])
      <3>1. \A i \in DOMAIN queue[Peer(e)] : Proper(queue[Peer(e)][i])
        BY <1>0 DEF FirstAssociation
      <3> QED BY <1>0, <1>4, <1>5, <3>1
    <2>2. Up'
      BY <1>0, <1>1 DEF FirstAssociation, Up
    <2> QED BY <1>0, <1>1, <2>1, <2>2 DEF FirstAssociation
  <1>7. Retried(chan[e], q)
    <2>1. Len(queue[e]) + 1 \in DOMAIN q /\ q[Len(queue[e]) + 1] = m
      BY <1>0, <1>3, Places
    <2> HIDE DEF q
    <2> QED BY <1>3, <2>1 DEF Retried
  <1>8. \A id, kinds, s : InQueue(queue[e], id, kinds, s) => InQueue(q, id, kinds, s)
    BY <1>0, <1>3, PostedBehind
  <1>9. ASSUME NEW s, InWire(resetHead[e], R, s)
        PROVE  InWire(r, R, s) \/ InQueue(q, INB, K, s)
    <2>1. CASE h.kind \in R /\ s \in h.sids
      <3>1. Names(m, INB, K, s)
        BY <1>3, <2>1 DEF Names
      <3> HIDE DEF K, q
      <3> QED BY <1>0, <1>3, <3>1, PostedBehind DEF q
    <2>2. CASE ~(h.kind \in R /\ s \in h.sids)
      BY <1>0, <1>9, <2>2, StaysInWire
    <2> QED BY <2>1, <2>2
  <1> HIDE DEF q, r, h
  <1>10. \A x \in Endpoints : Retried(chan'[x], queue'[x])
    BY <1>0, <1>1, <1>4, <1>7 DEF GoingInv
  <1>11. ASSUME NEW x \in Endpoints, NEW s \in chan'[x].sent
         PROVE  OnItsWay(x, s, queue', wire', resetHead')
    <2>1. OnItsWay(x, s, queue, wire, resetHead)
      BY <1>1, <1>11 DEF GoingInv
    <2>2. CASE x = e
      BY <1>0, <1>1, <1>4, <1>8, <1>9, <2>1, <2>2 DEF OnItsWay
    <2>3. CASE x = Peer(e)
      BY <1>0, <1>1, <1>4, <1>8, <2>1, <2>3 DEF OnItsWay
    <2> QED BY <1>0, <2>2, <2>3
  <1> QED
    BY <1>6, <1>10, <1>11 DEF GoingInv

\* AddStream takes part in no reset.
LEMMA AddGoesOn ==
    ASSUME StreamsInv, GoingInv, NEW e \in Endpoints, NEW s \in Sids, AddStream(e, s)
    PROVE  GoingInv'
  <1>1. /\ UNCHANGED <<queue, wire, resetHead, association>>
        /\ chan \in [Endpoints -> Channel]
        /\ chan' = [chan EXCEPT ![e].open = @ \cup {s}, ![e].closed_remotely = @ \ {s}]
    BY InvFacts DEF AddStream
  <1>2. \A x \in Endpoints : /\ chan'[x].sent = chan[x].sent /\ chan'[x].queued = chan[x].queued
                             /\ chan'[x].outstanding = chan[x].outstanding
                             /\ chan'[x].sending = chan[x].sending
    BY <1>1 DEF Channel
  <1>3. FirstAssociation'
    BY <1>1, <1>2 DEF GoingInv, FirstAssociation, Up
  <1>4. \A x \in Endpoints : \A y \in chan'[x].sent : OnItsWay(x, y, queue', wire', resetHead')
    BY <1>1, <1>2 DEF GoingInv
  <1>5. \A x \in Endpoints : Retried(chan'[x], queue'[x])
    BY <1>1, <1>2 DEF GoingInv, Retried
  <1> QED
    BY <1>3, <1>4, <1>5 DEF GoingInv

\* No reset is stuck while the association lasts: for every pattern of crossing,
\* refused, denied, delayed and repeated resets an event that moves each of them on is
\* under way.  SetSend(false) discards such events with the association.  AnswersFit
\* holds for fewer than 249 streams: the answer to a longer IN request is denied silently.
THEOREM ResetsAlwaysGoOn ==
    ASSUME InitiallyConnected, MaxDisconnects = 0, AnswersFit
    PROVE  Spec => []ResetsGoOn
  <1>1. Init => GoingInv
    <2> SUFFICES ASSUME Init PROVE GoingInv
      OBVIOUS
    <2>1. \A e \in Endpoints : /\ chan[e].sent = {} /\ chan[e].queued = {}
                               /\ chan[e].sending = InitiallyConnected /\ queue[e] = <<>>
                               /\ wire[e] = <<>>
      BY DEF Init
    <2>2. association = 0
      BY DEF Init
    <2>3. FirstAssociation
      <3>1. Up
        BY <2>1, Zenon DEF Up
      <3>2. \A e \in Endpoints : DOMAIN queue[e] = {} /\ DOMAIN wire[e] = {}
        <4>1. DOMAIN <<>> = {}
          OBVIOUS
        <4> QED BY <2>1, <4>1
      <3> QED BY <2>2, <3>1, <3>2 DEF FirstAssociation
    <2> QED BY <2>1, <2>3 DEF GoingInv, Retried
  <1>2. StreamsInv /\ GoingInv /\ [Next]_vars => GoingInv'
    <2> SUFFICES ASSUME StreamsInv, GoingInv, [Next]_vars PROVE GoingInv'
      OBVIOUS
    <2>1. CASE UNCHANGED vars
      BY <2>1 DEF vars, GoingInv, FirstAssociation, Up, OnItsWay, Retried
    <2>2. CASE Next
      <3>1. PICK e \in Endpoints :
              \/ \E s \in Sids : AddStream(e, s)
              \/ \E s \in Sids : RemoveStream(e, s)
              \/ OnMessage(e)
              \/ Connect(e)
              \/ OpenSctpSocketFails(e)
              \/ Disconnect(e)
              \/ usrsctp(e)
              \/ ResetWhenComplete(e)
        BY <2>2 DEF Next
      <3>2. ~Connect(e) /\ ~OpenSctpSocketFails(e) /\ ~Disconnect(e)
        BY DEF GoingInv, FirstAssociation, Up, Connect, OpenSctpSocketFails, Disconnect
      <3> QED BY <3>1, <3>2, AddGoesOn, RemoveGoesOn, NotificationGoesOn, PacketGoesOn,
                 UsrsctpGoesOn, KeptGoesOn DEF OnMessage
    <2> QED BY <2>1, <2>2
  <1>3. GoingInv => ResetsGoOn
    BY DEF GoingInv, OnItsWay, InQueue, InWire, Names, Retried, ResetsGoOn, ResetIsOnItsWay,
           QueuedIsRetried, Posted, OnWire, Waits
  <1> QED
    BY <1>1, <1>2, <1>3, StreamsInvariance, PTL DEF Spec
=============================================================================
