----------------------- MODULE SctpStreamsProperties -----------------------
(***************************************************************************)
(* What the two ends of an association keep to while streams are opened    *)
(* and reset at either of them.                                            *)
(***************************************************************************)
EXTENDS SctpStreams

\* The sets hold sids, usrsctp has at most one chunk outstanding for each end, and
\* the queues hold chunks and notifications.
StreamsTypeOK ==
    /\ chan \in [Endpoints -> [open : SUBSET Sids, queued : SUBSET Sids,
                               sent : SUBSET Sids, closed_remotely : SUBSET Sids,
                               sock : BOOLEAN, sending : BOOLEAN,
                               outstanding : {0, 1}]]
    /\ queue \in [Endpoints -> Seq(Message)]
    /\ wire \in [Endpoints -> Seq(Chunk)]
    /\ resetHead \in [Endpoints -> Seq(Chunk)]
    /\ adds \in Nat /\ association \in Nat /\ collisions \in Nat

\* A stream is open, waiting for its reset, or being reset, never two of them
\* (AddStream, ResetStream, the retry of OnStreamResetEvent).
SetsAreDisjoint ==
    \A e \in Endpoints :
      LET c == chan[e]
      IN /\ c.open \cap c.queued = {}
         /\ c.open \cap c.sent = {}
         /\ c.queued \cap c.sent = {}
         /\ c.open \cap c.closed_remotely = {}

\* A chunk of one of these kinds that names s is posted at e, or on the wire to e.
Posted(e, id, kinds, s) ==
    \E i \in DOMAIN queue[e] :
      queue[e][i].message_id = id /\ queue[e][i].chunk.kind \in kinds
        /\ s \in queue[e][i].chunk.sids
OnWire(e, kinds, s) ==
    \E i \in DOMAIN wire[e] : wire[e][i].kind \in kinds /\ s \in wire[e][i].sids
Waits(e, s) == \E i \in DOMAIN resetHead[e] : s \in resetHead[e][i].sids

\* A stream in sent_reset_streams_, which blocks every later reset, has its request,
\* the peer's RE-CONFIG, a failure or a denial still on the way: the end cannot wait for an
\* acknowledgment that nobody will send.
ResetIsOnItsWay ==
    \A e \in Endpoints : \A s \in chan[e].sent :
      \/ Posted(e, "MSG_SCTPOUTBOUNDPACKET", {"REQUEST"}, s)
      \/ OnWire(Peer(e), {"REQUEST"}, s)
      \/ Posted(Peer(e), "MSG_SCTPOUTBOUNDPACKET", {"ECHO", "FAILED", "DENIED"}, s)
      \/ OnWire(e, {"ECHO", "FAILED", "DENIED"}, s)
      \/ Waits(e, s)
      \/ Posted(e, "MSG_SCTPINBOUNDPACKET", {"REQUEST", "ECHO", "FAILED", "DENIED"}, s)

\* A stream in queued_reset_streams_ waits for something: SendQueuedStreamResets is
\* called again because an event is still to come.
QueuedIsRetried ==
    \A e \in Endpoints :
      chan[e].queued # {} =>
        \/ chan[e].sent # {}
        \/ chan[e].outstanding = 1
        \/ \E i \in DOMAIN queue[e] : queue[e][i].message_id = "MSG_SCTPINBOUNDPACKET"

\* No reset is stuck at any moment, sent or queued: an event that will move it on is
\* under way (OnStreamResetEvent, SendQueuedStreamResets).
ResetsGoOn == ResetIsOnItsWay /\ QueuedIsRetried

-----------------------------------------------------------------------------
(* The abstract specification.                                             *)

StreamStatus(c, s) ==
    CASE s \in c.open -> "open"
      [] s \in c.queued \cup c.sent -> "closing"
      [] s \in c.closed_remotely -> "closed_remotely"
      [] OTHER -> "closed"

Lifecycle == INSTANCE StreamLifecycle
    WITH st <- [e \in Endpoints |-> [s \in Sids |-> StreamStatus(chan[e], s)]]

\* Every step of the engine is a step of the life cycle, or changes no stream, even
\* when associations are closed and opened with resets and events outstanding.
KeepsLifecycle == Lifecycle!Safety

\* The engine implements the life cycle of its streams, fairness included: every
\* reset is completed although requests cross, fail and are retried.
ImplementsLifecycle == Lifecycle!Spec

=============================================================================
