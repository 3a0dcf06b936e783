# libwebrtc in TLA+

This directory specifies the parts of the repository in which several actors meet: the data
channel stack (the `DataChannel` object an application holds, the allocator of stream ids,
the SCTP engine at both ends), the message queues and blocking calls all of it runs on, the
two ICE agents that look for a path, the negotiation and handshake of DTLS over it, and the
reliable byte stream that tunnels run over such a path. TLC
checks the specifications on small instances, TLAPS proves their central invariants for
every value of the constants, and two runs end in counterexamples where a test of the
repository expects something the code does not do.

## Inventory of the system

The repository is libjingle/WebRTC as it stood when `talk/` was being moved to
`webrtc/`. `chromium/`, third-party libraries, build tools, examples and the Java and
Objective-C bindings are vendored or glue; two of the libraries, usrsctp and boringssl
(`chromium/src/third_party`), are modelled as far as the program's own code depends on them. The program's own logic lies in `talk/app/webrtc`,
`talk/media/sctp`, `talk/session/media`, `webrtc/p2p` and `webrtc/base`.

| Component | State it keeps | Operations | What makes it hard | What makes it correct |
|---|---|---|---|---|
| `DataChannel` (datachannel.cc) | state, handshake role, SSRC flags, three packet queues, wiring to its provider | Send, Close, observers; ready, data and closure signals; calls from negotiation | sends that block or fail in the middle of a state change; a ready signal that came too early; engine shutdown | no message lost, reordered or sent twice; closed is closed; queues bounded; every live channel reachable |
| `MediaStreamSignaling` (mediastreamsignaling.cc) | lists of RTP and SCTP channels, two sid counters | allocate, list, remove, update from descriptions | ids from three sources; lists changed by the callbacks of their members | ids unique, freed ids found again |
| `SctpDataMediaChannel` (sctpdataengine.cc) | open, queued-reset and sent-reset stream sets; socket | AddStream, ResetStream, SetSend, notifications | two ends reset at once; usrsctp's thread posts to the worker thread; one reset at a time | each reset ends; a stream is not opened while it is closing; the peer's closure is signalled |
| `cricket::DataChannel` (channel.cc) | ready flag | posts ready, data, closure to the signaling thread | two threads | order of posts kept |
| `WebRtcSession`, `PeerConnection` | descriptions, transports, data channel | offer/answer, channel creation and destruction | re-negotiation with live channels | offer/answer state machine |
| `WebRtcSessionDescriptionFactory` | queued requests, identity state | CreateOffer/Answer | identity arrives later or fails | each request answered once |
| `BaseSession`, `Transport` | session state, candidates | SetState, candidate exchange | candidates before descriptions | states follow the diagram |
| `Port`, `Connection`, `StunRequest` | pings in flight, write and read state, retransmission counters | ping, response, timeout, prune | timeouts against late answers | a request ends once; write state follows pings |
| `P2PTransportChannel` | connections, best connection | sort, switch, prune | re-sorting from callbacks | best connection is usable |
| `TurnPort`, `TurnServer` | allocation, permissions, channels with timers | allocate, refresh, bind | expiry against refresh | no data without permission |
| `DtlsTransportChannel` | DTLS state over an ICE channel | start, packets, state | packets before the role is known | no clear-text data |
| `PseudoTcp` | sliding windows, timers, congestion state | connect, send, receive, clock | 32-bit sequence numbers, loss | byte stream delivered in order |
| `SrtpFilter`, `RtcpMuxFilter`, `BundleFilter` | offer/answer state | SetOffer, SetAnswer | provisional answers, repeated offers | both ends agree |
| `Thread`, `MessageQueue`, `AsyncInvoker` | posted and sent messages | Post, Send, Invoke, Clear, Quit | Send between threads in both directions | FIFO, no lost wake-up |

How the data channel parts work together. The application calls a `DataChannel` on the
signaling thread. The channel calls `WebRtcSession` (its provider), which calls the engine
on the worker thread and waits (`InvokeOnWorker`, a `Thread::Send`, served ahead of posted
messages). In the other direction nothing waits: usrsctp's own thread posts packets and
notifications to the worker thread (`OnSctpOutboundPacket`, `OnSctpInboundPacket`), and
`cricket::DataChannel` posts ready, data and closure messages from the worker thread to
the signaling thread. So the code at each level acts on what the level below it was a
moment ago. Most of the hazards in `PROJECT.json` come from there; the others come from
sends that fail in the middle of a member function that goes on afterwards, and from
negotiation meeting channels in states its author did not think of.

Below the engine, packets go through a `DtlsTransportChannelWrapper` to a
`P2PTransportChannel`, which owns the `Connection`s of an ICE agent. All three live on the
worker thread. Their callbacks run synchronously inside one another (a ping response changes
a connection, which tells the channel, which requests a sort), and what would be unsafe inside
a callback is posted: the sort, the deletion of a connection, the change of role, which goes
through the signaling thread. Negotiation comes from the signaling thread by `Invoke`.
Everything posted acts on a state that has moved on since.

## Modules

| Module | Models |
|---|---|
| `DataChannel` | one `DataChannel` object and its provider's view of it |
| `DataChannelProperties` | its properties, its fairness; the module of the `DataChannel…` runs |
| `DataChannelProofs` | its inductive invariant and theorems |
| `DataChannelOrderProofs` | the limits of its queues, the order of its data, what follows a close |
| `SctpStreams` | the two `SctpDataMediaChannel`s of an association, their worker threads and usrsctp |
| `StreamLifecycle` | abstract: what the engine promises about each stream |
| `SctpStreamsProperties`, `MCSctpStreams` | invariants, refinement of `StreamLifecycle`; symmetry for the `SctpStreams…` runs |
| `SctpStreamsProofs` | invariance and refinement theorems |
| `SctpSids` | the sid allocator and the list of SCTP channels of one peer, with its properties |
| `SctpSidsProofs` | its theorems |
| `Threads`, `MCThreads` | `Thread` and `MessageQueue`: Send, Post, Get, Clear, Quit; instances |
| `ThreadsProofs` | the invariants of its calls, wakeups and queues, and its theorems |
| `IceAgents`, `MCIceAgents` | two ICE agents: `P2PTransportChannel`, `Connection`, STUN transactions, role conflicts; instances |
| `IceAgentsProofs` | its inductive invariant and theorems |
| `DtlsTransport`, `MCDtlsTransport` | two sessions' DTLS negotiation and handshake; instances |
| `DtlsTransportProofs` | its inductive invariant and theorems |
| `PseudoTcp`, `MCPseudoTcp` | two `PseudoTcp`s with their `PseudoTcpChannel`s and a faulty network; instances |
| `PseudoTcpProofs` | its inductive invariant and theorems |

The operators named `X_Something` in front of an operator `X` are mutated forms of it: each
is the kind of slip that could be made at that place of the code, and for every property of
a passing run one of them makes the property fail. They are used by nothing else.

### DataChannel

The object is one record, `dc`, whose fields are the members of the class
(datachannel.h:223-240) and, after them, the provider's part: does the transport exist
(`transport`), is the channel in the list of `MediaStreamSignaling` (`listed`), what has the
engine made of the stream (`stream`). `wire` and `delivered` record what was sent and what
the observer got; `asserts` collects the functions whose ASSERT would have failed in a
debug build (a release build, which is modelled, ignores ASSERT).

A member function is an operator from record to record with the code's name, and composes
as the code's calls do: `OnChannelReady` contains `SendControlMessage`, which contains
`Close`, which contains `DisconnectFromTransport`. This keeps every partial failure in the
model, such as a control message that closes the channel while `UpdateState`, which sent
it, still has a `SetState(kOpen)` to execute. What the transport answers to each send
(`SDR_SUCCESS`, `SDR_BLOCK`, `SDR_ERROR`) is chosen freely. A flush sends any number `k` of
queued messages before the answer `r` of the next one.

An action is a complete handler of the signaling thread: the application's calls
(`Send`, `AppClose`, observers), the posted MSG_CHANNELREADY (`OnMessage`), the signals of
`cricket::DataChannel` (`ReadyToSendData`, `ReceiveData`, `ReceiveOpenAck`,
`OnRemoteSctpDataChannelClosed`), and negotiation (`SetSctpDescription`,
`CreateDescription`, `SetLocalRtpDescription`, `SetRemoteRtpDescription`,
`DestroyTransport`). `OnStreamClosedRemotely` and `ResetAcknowledged` are the worker
thread's. `Init` starts with the states `WebRtcSession::CreateDataChannel` can leave: with
and without a transport, a sid, a ready transport, and with a stream the engine is still
resetting for a former owner of the sid.

A message is a number and a size. Sizes are kept because the queue limits count bytes; the
byte count is a field of its own, as in `PacketQueue`, so that it can be compared with the
bytes really queued. `Swap` and the message-by-message loops are collapsed where nothing
can come between their iterations. A call of Send with an empty buffer returns true and
does nothing, which is a stuttering step.

### SctpStreams and StreamLifecycle

`chan[e]` holds the three stream sets of sctpdataengine.h:241-250, the streams for which
SignalStreamClosedRemotely was raised and not reopened, `sock_`, `sending_` and, for
usrsctp, whether a RE-CONFIG of this end is unanswered. `queue[e]` is the worker thread's
queue with both kinds of posted message, `wire[e]` the chunks travelling to `e`. The owner's
calls are `AddStream`, `RemoveStream`, `Connect`, `OpenSctpSocketFails` and `Disconnect`
(`SetSend`), and the worker thread's are `OnNotification` and `OnPacketFromSctpToNetwork`.

usrsctp is vendored (chromium/src/third_party/usrsctp), and its part of a reset is taken from
there (`U` below is usrsctplib/netinet). The engine asks for both directions of all queued
streams in one RE-CONFIG (U/sctp_usrreq.c:5235), which is refused while one of this end is
unanswered. The peer takes the two requests in the chunk one after the other
(U/sctp_input.c:4184). The OUT request resets its incoming streams and posts a notification;
if data sent before it is missing it is answered as performed all the same and kept
(`resetHead[e]`, 3994) until a data chunk is processed after the gap has closed
(U/sctp_indata.c:1893, `ResetWhenComplete`). Nothing holds a later request back: it may be
performed while the earlier one is kept. The IN request is performed by a RE-CONFIG of the peer's own, the ECHO, unless one of
its own is unanswered (`RefuseRequest`, ERR_IN_PROGRESS). A request longer than
SCTP_CHUNK_BUFFER_SIZE, 512 bytes, is denied: `MaxOutEntries` and `MaxInEntries` are the
numbers of streams that fit, 248 and 252 with the headers of 16 and 8 bytes. What the engine
gets to see are the flags of the notifications, which the comment at `ChunkKind` lists; the
ids of a failure "seem to be garbage values" to it (sctpdataengine.cc:801). A closed association discards its chunks (SO_LINGER 0), and the
packets of an old association are ignored by the next. After a Connect the association is
taken to come up once both ends have a socket, the most favourable case. Retransmitted and
repeated RE-CONFIGs, which usrsctp recognises by their numbers, are left out.

`StreamLifecycle` says what a channel above relies on, per endpoint and stream: closed,
open, closing, closed remotely; a stream that is closing becomes closed before it is open
again; an open stream disappears only into closing (its owner's doing) or closed remotely
(signalled); closing ends. The refinement mapping reads the state from the sets.

### SctpSids

The list is a sequence of ids, -1 for a channel without one. `AllocateSctpSid(last, taken,
n)` states where the do-while loop stops, as a relation: `n` is the first number of the
counter's parity above `last` that is not taken; beyond kMaxSctpSid the call fails but the
counter keeps `n`. `OnDtlsRoleReadyForSctp` gives each channel without an id the first one
its predecessors have left, in one step. `dropped` is a history variable: ids that stopped
being used without `RemoveSctpDataChannel`, because the configuration of a new channel was
refused after the allocation, or because the engine's shutdown emptied the list first.

### Threads

A thread is a stack of calls: `Get` at the bottom, called again and again by
`ProcessMessages`, and above it handlers and the Sends and Posts they make, each with the
place it has reached (`at`). A step is what the code does under one lock, or one access to
the flag `fStop_`, which is written and read without it; pushing into `sendlist_` and
waking the callee are two steps, as in `Thread::Send`. The wakeup is the auto-reset event of
`PhysicalSocketServer` (`fSignaled_`). `Source` is the difference between the two callers of
`ReceiveSendsFromThread`: Get takes anyone's Sends, Send only those of the thread it waits
for. What a handler does is left open: any Send, Post, PostDelayed, Dispose or Clear within
the workload. `now` is the clock; trigger times are `now % TimeMod`, compared as
plain numbers by `DelayedMessage::operator<` and modulo the width by `TimeIsLater`. `owner`
follows `~Thread`: Stop (Quit, then Join) and Clear. Nobody may be about to
enter a queue that is being destroyed (`Unused`), which is the caller's duty in the code.
`Peek`, `Restart`, I/O in the same Wait and wrapped threads are left out.

### IceAgents

`ch[a]` is the `P2PTransportChannel` of agent `a`: its connections, `best_connection_`,
`pending_best_connection_`, `sort_dirty_`, the posted MSG_SORTs and MSG_DELETEs, and what it
has reported upward. A connection is named by its priority, the same number at both ends.
Handlers are functions from channel to channel, composed as the code's
calls and signals are: `set_write_state` contains `OnConnectionStateChange`, which contains
`RequestSort`, and then `CheckTimeout`. Packets in `net` are lost, duplicated and overtake each
other; requests carry the role and USE-CANDIDATE. Clocks are not modelled: pings may wait
long ("connect", "write") whenever an answer is missing, and a transaction may time out with
its answer still in flight. `pings` saturates at CONNECTION_WRITE_CONNECT_FAILURES, which is
all `TooManyFailures` compares it with. The protocol is RFC 5245, so that READ_TIMEOUT does
not occur, and all connections are on one local network. A candidate makes a connection
the first time it is signaled; a connection that was deleted comes back only through a request
of the peer (`OnUnknownAddress`). Simplifications: both ends rank the connections alike and
no two are equal, so the latency estimate never decides; a second transaction on a
connection starts when the first is over; a request that Prune withdraws before
its first transmission is still delivered, so the model allows more than the code. A ping is
due 48 ms after the one before it at the earliest. That a message posted meanwhile, which for
MSG_ROLECONFLICT goes through the signaling thread, has not been handled by then counts as one
of the `MaxFaults` (`PingWaits`), like a loss: the proofs hold for any number of them.
Ranking alike leaves out that a connection made by `OnUnknownAddress` has the priority of
the PRIORITY attribute (p2ptransportchannel.cc:537) at one end and that of the signaled
candidate at the other.

### DtlsTransport

`tr[p]` is the `DtlsTransport` of endpoint `p` (identity, both descriptions,
`secure_role_`), `ch[p]` its wrapper with the OpenSSL stream inside, `ice[p]` what the wrapped
channel reports. The setters return the new channel and whether the code returns true, and
`Negotiate` composes them in the order of `ApplyNegotiatedTransportDescription_w`. `sig` is
the exchange: offers from either side, answers and provisional answers, carried reliably and
in order. Each endpoint has one policy: DTLS, SDES required, or no encryption
(`WebRtcSession::Initialize`); `VerifyCrypto` refuses descriptions that do not fit it and
leaves everything as it was ("refused"), while a setter that returns false in the middle of
an application ends the model's negotiation ("failed"). Of the handshake of
boringssl (`dtls1_connect` in chromium/src/third_party/boringssl/src/ssl/d1_clnt.c,
`dtls1_accept` in d1_srvr.c) the four flights are left: the
side that waits sends its last one again on MSG_TIMEOUT, a server answers a repeated
flight again, flights 2 and 3 carry the certificates and one that does not match the
fingerprint ends the handshake with an alert. The ICE channel comes up after both
descriptions are set (it has no remote candidates before), may break and comes back. Packets
are dropped before the connection is readable and before the channel has started. `SendPacket`,
SRTP ciphers, the ICE protocol of the descriptions and `Reset`, which no production code
calls, are left out.

### PseudoTcp

`tcp[e]` is one end: the members of `PseudoTcp`, and those of the `PseudoTcpChannel` that
owns it (is there a stream, are SE_READ and SE_WRITE posted). A byte is its number in the
stream, so what is read can be compared with what was written; a byte of `m_rbuf` nobody has
written is `Junk`. `rbuf` is what can be read, `ahead` the memory behind it by offset, which
is how `WriteOffset` and `ConsumeWriteBuffer` see the ring. Sequence numbers, windows and the
subtractions on them are modulo `SeqSpace`, with the code's plain comparisons.

`process` is composed of its paragraphs in their order: `Connected`, `Acked` (`NewAck`,
`OldAck`), `Confirmed`, `Refilled`, `Fitted`, `Received` (`Consume`, `Recover`, `Save`),
`attemptSend`, `Readable`; the three early returns are its conditionals. `attemptSend` repeats
`SendTurn` until a turn ends it; `transmit` with `lowerMss` is the double loop over the levels
of the MTU. Every call of the channel holds its lock and ends with `AdjustClock` where the code
calls it, which deletes the object when a graceful Close has nothing left to wait for.
Packets are written into `out` and reach the network when the step ends.

The applications follow the stream's events as the users of `StreamInterface` do: each reads
on SE_READ until it blocks, writes on SE_WRITE what it has left until it blocks, and
may close its stream after its last write.

Times are left out. A timer is armed or not; `Clock` lets the timers of an end run out when no
packet is on its way, `AckClock` lets the delayed ack, the shortest, run out earlier, and
`EarlyClock` any of them at any moment, at the price of a mishap. `Rest` is the passing of
`m_rx_rto` without a send. A mishap is a loss, a duplicate, a packet that overtakes
others, an early timer, a rest, a new route with another MTU (`NotifyMTU`), or a channel
below that refuses every packet from then on (`Break`). Window scaling, the round-trip
estimates (they only set times), the resizing of the buffers and the destruction of channel and
session are left out.

## Runs that pass

**DataChannelSctp** explores an SCTP channel in all three handshake roles, with three sends
and two arrivals of sizes 1 and 2 and limits of 2 bytes: enough for a queue to
be below, at and above its limit, for a message to wait while another is sent, and for every
order of ready signals, closures and negotiation. `SentInOrder` and `DeliveredInOrder` are
the end-to-end statements: what is on the wire plus what is queued is exactly what was
sent; what was delivered plus what is queued is what arrived, unless the channel was
closed. `QueuesAreBounded` relates the byte counts to the queues. `ControlSentOnce` and
`OrderedUntilReply` are about the OPEN handshake; `LiveIsReachable` about shutdown;
`ClosedSendsNoData` about every way of closing, the one that is followed by kOpen included. About 126 000 states.

The run is under fairness, for three liveness properties: a connected channel of a ready
transport opens (`EventuallyOpens`), queued data is sent (`QueuedDataDrains`) and the peer's
reset closes the channel (`RemoteCloseArrives`). The signaling thread serves its queue (weak
fairness of the posted messages); the transport becomes ready once; and usrsctp sends
SENDER_DRY when its buffer has emptied, so a blocked channel gets a ready signal that takes
what is queued. Nothing else is assumed; in particular the application need not do
anything, and a ready transport is not assumed to signal again for no reason. The
`Unblocked` fairness is the assumption that deserves a look: it is usrsctp's promise, not the
repository's, and `QueuedDataDrains` shows that the code needs no more than it. Every
allocation of a sid succeeds in this run (see below for one that fails).

**DataChannelRtp** explores RTP channels, whose life follows the SSRCs in descriptions.
`ClosedIsFinal`, violated by SCTP channels, holds here.

**SctpStreams** opens up to three streams over two ids at two ends that are connected from the
start, and lets each end keep one reset. `ResetsGoOn` says that a stream in
`sent_reset_streams_`, which blocks all later resets, always has a request, an answer, a kept
reset or a notification still under way, and that a queued one always has an event ahead of it
that will send it. `ImplementsLifecycle` is the refinement of `StreamLifecycle!Spec`, that closing
ends included. 178 000 states; with four streams opened, 1 088 000 states, TLC finds no error
either. Requests always fit; `ResetsGoOn` also holds when both directions of a request are
denied (`MaxOutEntries` = `MaxInEntries` = 1, 932 000 states with four streams opened), which is
part of what `ResetsAlwaysGoOn` proves. Fairness: each worker thread serves its queue, and usrsctp retransmits, so that
chunks and missing data arrive. A reset that is kept also needs a data chunk after the gap has
closed, since usrsctp looks at `resetHead` only then: that data goes on arriving is an assumption
about the applications. Crossing requests could fail and be retried in lockstep for ever in an
untimed model: after `MaxCollisions` collisions, an event that makes an end send what it has
queued is not handled while a request of the peer is on its way (`MayRetry`). That is an
assumption about timing, and the code has no back-off that would justify a smaller one.

**SctpStreamsReconnects** starts without sockets, lets socket set-up fail and one
association be closed, and has three ids of which one fits into an OUT request and two into an
IN request, so that a reset is denied in one direction or in both. It checks the safety half of
the refinement; liveness fails here, see below. The ids, and the two ends, are
interchangeable (`Symmetry`). 276 000 states.

**SctpSids** has six ids, four channels and counters up to 9, so that both parities can be
exhausted and the counters run past the end more than once. 143 000 states.

**Threads** has three threads, two of which Send to each other and a third that Sends to one
of them, the smallest system in which a call can come from a stranger while a thread waits.
`MCThreads!Mixed` lists the workloads, each a start set and numbers of Sends, Posts, delayed
Posts, Clears, Quits and ticks of the clock: three Sends give a call within a call within a call;
three Posts, of one thread or of two, wait in one queue while messages are dispatched, or two
while they are cleared or the thread quits; two delayed messages with delays 0 and 1 have equal and crossing trigger times. The
clock starts one tick before it runs over (`StartTime` = 15, `TimeMod` = 16), so trigger times
lie on both sides of the wrap. The third thread posts nothing and is posted nothing (`CanPost`).
`NoLostWakeup` is the invariant behind the code's wakeup discipline; `UnansweredIsHeld` says that
exactly one place answers for every Send; `CallsInAreFromCallee` is what the test
ThreeThreadsInvoke (thread_unittest.cc:306) tests once. `DispatchedInOrder` says of any two
messages of a queue that the one to be dispatched first is: of two posted ones the one queued
first, of two delayed ones the one that was queued first, if it is due no later than the other (one
queued later may find the other already dispatched, since its time is computed before the queue is
locked). It excepts two delayed messages that the wrap lies between, whose order the code gets
wrong (see *Also seen while modelling*). `DelayedIsNotEarly` says that Get's comparison survives the wrap,
and `ClearedIsGone` that a cleared message is in none of the places it could be dispatched from.
Two properties are liveness: `WaitsEnd`, every Send returns and every Join ends, and
`QueuedIsServed`, no message is left in a queue by a thread that goes on running, so that a sleeper
is woken to shorten its wait and a message the heap has in the wrong order is late and not
lost. The only fairness is that some step is taken while one is possible, because no
thread can run for ever within a workload. 314 000 states.

**IceAgents** has two connections, agreed roles and one fault (a loss, a duplicate, a
timeout, or a ping that comes before what is posted) over an otherwise free order of pings, answers, sorts, deletions and data.
`BestIsLive` and `IceTypeOK` say that no pointer outlives its connection. `WritableFollows`
is about `sort_dirty_`: a channel that reports the wrong writability has a sort posted.
`NominationIsTaken` is about USE-CANDIDATE that comes before the connection is writable. The
deadlock check is on: an agent always pings or has something to do. 933 000 states.

**IceAgentsClash** starts both agents in the same role, controlling or controlled, and
without faults. `RolesSettle` and `AgreeOnBest` are liveness properties under weak fairness
of what is posted and of a transaction under way, and strong fairness of the ping of each
connection, since `FindNextPingableConnection` takes the oldest first. 129 000 states.

**DtlsTransport** allows three offers from either side, every combination of policies
and of matching and wrong certificates, and two faults (losses or breaks of the ICE
channel), so that a negotiation can come before, during and after the handshake of another.
`RolesAreOpposite` and `ReportedRoleIsReal` relate what each end computes from its own pair of
descriptions to the streams; `NeverRefused` says that endpoints of one policy can always
negotiate again; `NothingInTheClear` that a DTLS endpoint's channel is writable only after
a handshake with the promised certificate; `HandshakeCompletes` that retransmission makes
up for every dropped and lost packet. Fairness: the applications finish an exchange they
began, the ICE channel comes up, timers fire, packets arrive. 116 000 states.

**PseudoTcp** runs the workloads of `MCPseudoTcp!Mixed`, each a number of bytes for either end
to write, who closes, the MTU and which mishaps may happen how often. The receive buffer holds 4
bytes and the send buffer 6 (the code asserts that it is larger), packets take 1 or 2; a
segment is given up after 4 transmissions, after 5 while connecting. Seven bytes fill both
buffers, five leave four packets in flight behind a lost one, which gives the three
duplicate acks of a fast retransmit, and segments of two bytes meet a route that takes one and
are split. `StreamIsPrefix` is the promise of the class. `SendListTiles` is what the code
assumes of `m_slist` whenever it looks at `begin()`, and `WindowIsKept` what keeps acks at the
bounds of segments. `NeverStuck` says that two ends with nothing left to do, no packet, event
or timer, have delivered everything, also when the writer has closed its stream after the
last Write. It is the safety half of "everything written is read"; the
temporal half is not checked, because evaluating ENABLED of handlers of this size for each state is
out of TLC's reach. The branches that cut the end of a segment and that free a part of one
are never taken, as `WindowIsKept` says they cannot be; those for a segment that is partly
old and for the silly window (`nUseable` below a quarter of the window but not 0) need
more mishaps, or more buffer, than the instance has. Only the end that connects writes more than one
segment, see PseudoTcpServerFirst. 542 000 states.

Except for the two runs of `IceAgents` the deadlock check is off: a system in which every
channel is closed, every thread asleep or every negotiation done and the bounds are used up
has nothing left to do.

## Runs that end in a counterexample

| Run | What the repository says | What happens |
|---|---|---|
| DataChannelReopens | a closed channel "does not fire onStateChange again" (datachannel_unittest.cc:390) | the OPEN message fails inside UpdateState, the channel closes, UpdateState sets kOpen |
| PseudoTcpServerFirst | what is received is what was sent (pseudotcp_unittest.cc:237, where the connecting end sends) | a lost CONNECT lets the listening end write before the other end has the CONNECT: the saved data is read from a place shifted by the length of CONNECT |

The second one in steps: *a* connects, *b* answers with its CONNECT, which is lost. *a*
retransmits its own; *b* answers an old segment with a pure ack, and *a*, still in SYN_SENT,
answers that, since its sequence number is not `m_rcv_nxt`. For *b* any packet but a CONNECT
ends the handshake (pseudotcp.cc:809). Its two data segments reach *a*, which has not seen the CONNECT
and saves both at their distance from `m_rcv_nxt` = 0. *b* retransmits: first the CONNECT,
which moves `m_rcv_nxt` (889) and not the buffer, then the first segment, which is
written to the right place and, by `m_rlist`, makes the second one readable at a place
where the first still lies. In the model, where CONNECT is as long as a segment, *a*
reads the first segment twice and the second never; with real sizes the last bytes of the
first come twice and as many of the second are missing.

### Also seen while modelling

The specifications contain these behaviours too. They are written down here and have no
run of their own.

- A queued control message that fails in `OnChannelReady` closes the channel, and
  `SendQueuedDataMessages` then runs against its `ASSERT(was_ever_writable_ && state_ ==
  kOpen)` (datachannel.cc:462). `ClosedSendsNoData` shows that no data goes out.
- Control messages "always have to get sent out before any queued data" (datachannel.h:236).
  With the OPEN message blocked and queued, `Send` looks only at `queued_send_data_` and data
  overtakes it (datachannel.cc:205, against the comment at 567).
- OnDataEngineClose "makes sure the DataChannel is disconnected" (datachannel.cc:283). A
  channel closed before the transport existed stays listed, is connected by
  `OnTransportChannelCreated`, and `DoClose` skips it (datachannel.cc:383).
- A channel for which `OnDtlsRoleReadyForSctp` finds no sid stays listed and connected, and
  sends its OPEN message against the ASSERT that it has an id (datachannel.cc:551). The
  send fails and closes it, `UpdateState` opens it again, and a sid given to it later opens
  its stream, so that data of a channel that was closed goes out.
- "`|send_ssrc| == 0` means that the channel is no longer part of the session negotiation"
  (datachannel.h:161). For a channel created after the offer, 0 is stored as a valid SSRC and
  the real one is ignored later (datachannel.cc:265).
- After the engine's shutdown has freed all ids without `RemoveSctpDataChannel`
  (mediastreamsignaling.cc:375), the counters stay high and `AllocateSctpSid` fails with none
  in use, although it "returns false if no id can be allocated" (190).
- `OnRemoteSctpDataChannelClosed` finds the channel by sid alone (mediastreamsignaling.cc:499):
  a closure posted for the former owner of a reused sid closes the new one.
- A stream reset before the association is up stays in `queued_reset_streams_` until another
  reset comes along (sctpdataengine.cc:690): nothing retries when the association comes up.
- `OpenSctpSocket` keeps `sock_` when an option is refused, and `Connect` takes it for a
  connection ever after (sctpdataengine.cc:435), although "sending_ is true iff there is a
  connected socket" (sctpdataengine.h:236).
- The failure notification of a request may be handled after the peer's RE-CONFIG has
  emptied `sent_reset_streams_` and the next request is on its way; its streams are then
  queued and sent again (sctpdataengine.cc:804), and the second answer looks like a
  request of the peer. This rests on the order in which usrsctp posts its events.
- A reset that usrsctp keeps until missing data has arrived is looked at only when a further
  data chunk is processed (U/sctp_indata.c:1893): if the gap is closed by the last one of the
  association, the engine is not told.
- "You can close multiple streams in a single reset" (sctpdataengine.cc:685), but not any number.
  With 249 to 252 streams the peer denies the OUT request, performs the IN request, and the
  requester denies the answer as too long (U/sctp_input.c:4252), without an incoming event:
  `sent_reset_streams_` is never emptied and blocks every later reset. TLC violates `ResetsGoOn`
  with `MaxOutEntries` = 1 and `MaxInEntries` = 2.
- With more than 252 streams in one reset both requests are denied. The notification has
  SCTP_STREAM_RESET_INCOMING set, so the engine takes it for the acknowledgment and drops the
  streams, of whose closing the peer has not heard.
- An id allocated for a channel whose configuration is then refused is skipped later
  (webrtcsession.cc:912), although `AllocateSctpSid` "gets the first unused" one
  (mediastreamsignaling.cc:188).
- `kMaxSctpSid` is both an id the allocator gives out and the number of streams the engine
  asks usrsctp for, which are numbered from 0 (sctpdataengine.h:57-59).
- "any pending Sends and *ready* Posts ... will be delivered before Get (or Peek) returns
  false" (messagequeue.h:174-179). A message posted after Get has emptied the queue and
  before it reads `fStop_` (messagequeue.cc:238) is ready and not delivered.
- Delayed messages are "sorted by trigger time" (messagequeue.h:147) with a plain `<` on 32
  bits: when the clock wraps, a message due after the wrap is taken before one due earlier,
  and holds the earlier one up.
- Three or more threads whose Sends form a cycle wait for ever: each serves only the thread it
  called (thread.cc:458). Nothing in the code prevents one.
- "We may be bringing a pruned connection back to life, but if we don't really want it, we can
  always prune it again" (port.cc:1256-1258). It cannot be: a connection that a late
  response has made writable again keeps `pruned_`, and `Prune` does nothing to it (1082).
- The deletion of a connection that is not the best one requests no sort
  (p2ptransportchannel.cc:1268), so the reported readability can stay behind, although
  `SortConnections` is "called whenever the state of any connection changes" (1019).
- In hybrid mode `SortConnections` returns before it resets `sort_dirty_`
  (p2ptransportchannel.cc:936-946), `Reset` leaves `pending_best_connection_` (336), and a
  change of role requests no sort (207).
- `NegotiateTransportDescription_w` has changed `secure_role_` when the channel refuses the
  role (dtlstransport.h:174, 217).
- DTLS starts only when the ICE channel next becomes writable (dtlstransportchannel.cc:418): one
  that is writable when the fingerprint arrives stays in ACCEPTED. A wrapper that fell
  back to plain is put in OFFERED by the next offer with an identity.
- "Once the DTLS handshake completes, the state is that of the impl again"
  (dtlstransportchannel.cc:387). `OnDtlsEvent` sets writable and readable whatever the ICE channel
  is (524), and changes during the handshake are ignored (432): if it breaks while
  the last flight travels, the DTLS channel reports itself writable over one that is not.
- `SetSend(false)` during a reset leaves the stream in `sent_reset_streams_`, which blocks every
  later reset after `SetSend(true)` (sctpdataengine.cc:419), although the calls "connect,
  disconnect, and reconnect" (sctpdataengine.h:139).
- "Conditions were acks must be sent" (pseudotcp.cc:833): with less than a segment to send and
  data in flight, Nagle's algorithm returns from `attemptSend` before the ack is sent or its
  timer set (1086). `NeverStuck` shows that it is made up for.
- `PseudoTcp` compares sequence numbers with plain `<` and `>` (pseudotcp.cc:700, 860, 906, 1086):
  after 4 GB acks are no longer valuable. The run stays below the wrap.
- A send that fails in `attemptSend` ("TODO: consider closing socket", pseudotcp.cc:1107) leaves
  data that was never sent with no timer to send it; `NeverStuck` excepts such ends.
- An alert after the handshake makes `Read` fail and raises no SE_CLOSE: the channel stays
  OPEN and writable.

## Proofs

The proofs hold for every value of the constants that satisfies the named assumptions
(`ConstantsOK`, `EndpointsOK`, `SidsConstantsOK`, `IceConstantsOK`, `DtlsConstantsOK`,
`ThreadsConstantsOK`, `PseudoTcpConstantsOK`): any limits, any positive sizes, any set of stream ids, any number of
channels, resets and reconnections, any number of threads and connections. The bounds of the
runs appear in the specifications as natural numbers, and are just as arbitrary.

*DataChannelProofs.* None of the properties is inductive on its own: that the OPEN message is
sent once, for instance, depends on its not being queued before the channel is writable,
which depends on the channel not being open then. `IndInv` is the type invariant with
`Good`, a predicate of the record: which members a channel of each type uses, nothing queued
or sent before the first ready signal, at most one control message in the queue and on the
wire together, received data delivered once the channel is open, live channels listed, data
ordered while the answer to the OPEN message is outstanding, and two ASSERTs. Since the code's functions
are operators on records, the proof follows the call graph: a lemma for each
function says that it preserves `Good`, using the lemmas of the functions it calls, and the
inductive step looks up the functions of each action. One function breaks a part of `Good`
for a moment, `UpdateState`, which opens the channel before it delivers; `Almost` is `Good`
without that part. The theorems `TypeCorrect`, `ControlIsSentOnce`, `DataIsOrderedUntilReply`,
`NothingIsHeldBack`, `LiveChannelsAreReachable` and `NoDataWaitsBeforeReady` (two ASSERTs that
do hold, stated by `NoDataBeforeReady`) follow from `Invariance`.

*DataChannelOrderProofs.* The order of messages depends on more than `Good`: on which calls
can still follow which. `OrderInv` adds three things to `IndInv`. `Alive`, about the life of
the channel: a channel that was closed and is not kClosed is an SCTP channel that reopened
after its OPEN message failed (`Wiring`), an SCTP channel opens with its first ready signal
(`Idle`), and nothing waits in front of what `OnDataReceived` would deliver at once
(`NoBacklog`). `NotLost`: a posted MSG_CHANNELREADY finds the channel connected or past
kConnecting. `Ordered`: the byte counts and limits of both queues (`Limits`), the data on the
wire numbered 1, 2, 3 with the send queue counting on (`Outgoing`), and what was received
rising with no number beyond what arrived (`Incoming`). The number of a message on the wire
is the count of the data messages up to its place, and the bytes of a queue are a set of
pairs of packet and offset, so cardinalities take the place of induction over sequences. As
in `DataChannelProofs` there is one lemma for each function, but it relates the record
before the call to the one after it: `Onward`, what no call undoes, and for the functions
that move no data `Keeps`. `QueuesAreAlwaysBounded`, `DataIsSentInOrder` and
`DataIsDeliveredInOrder` have no hypothesis. `ClosedRtpIsFinal` is about RTP channels:
SCTP channels violate `ClosedIsFinal` (the run `DataChannelReopens`). `ClosedNeverSendsData`
assumes `FALSE \notin AllocResults`, that a sid is free when the role becomes known, as its run
does: a channel left without a sid keeps no stream to lose when its OPEN message fails, and
one that gets a sid after it reopened sends data although it was closed. `HushInv` says what
the assumption buys: a channel that reopened is off the list and without an open stream.

*SctpStreamsProofs.* The invariant `StreamsInv` is the type invariant and `Apart`: each id is
in at most one of the open, queued, sent and remotely closed sets. The closed set matters
for the refinement: without it a reset that ends could appear as "closed remotely". `StreamSetsAreDisjoint`
(and `NothingIsHeldBack` above) are invariants stated for the proofs, which no run checks again. Each
function of the engine maps a channel to one that `Follows` it, that is, typed, apart and
with every stream moved only as the life cycle allows; `SendQueuedStreamResets`, which ends
most of them, moves no stream at all in the abstract view. `EngineKeepsLifecycle` then shows
that the initial state maps to an initial state and each step to a step or a stutter. It
uses nothing about usrsctp but the shape of its events: the life cycle is kept
whatever is delivered, in any order. `ResetsAlwaysGoOn` is about one association that both
ends have from the start (`InitiallyConnected`, `MaxDisconnects = 0`, as in its run): closing
it discards the events a reset waits for, which is the divergence described above. It also
assumes `AnswersFit`, that a request that is accepted is not too long to be performed when it
comes back; this holds for fewer than 249 streams (see *Also seen while modelling*). Its
invariant `GoingInv` follows the event that each reset waits for through the queues and wires of
both ends: a request is posted, sent, accepted, refused or denied, may be kept by the peer or, on its
way back, by the end that sent it, and comes back as a notification of some kind; an end with a reset in its queue has one sent, a chunk of its
own unanswered, or a notification ahead, and the answer that frees it posts one.

*SctpSidsProofs.* `SidsInv` is the conjunction of the three invariants. The interesting steps
are `RemoveSctpDataChannel`, where lowering the counter of the id's parity keeps every id
below it accounted for, and `OnDtlsRoleReadyForSctp`, where the ids passed over by one
allocation are those given to the channels before.

*IceAgentsProofs.* `IceInv` types both channels and says of each (`Good`): the pointers
`best_connection_` and `pending_best_connection_` are to connections that exist; `sort_dirty_`
is set only while a sort is posted; a channel whose writability lags behind its best
connection has a sort posted; a controlled agent has no writable pending connection, and one
that has always controlled has no pending one at all. The last part is needed because a
switch of roles makes the property about controlled agents apply to a state reached as a
controlling one. `SortConnections` ends with the best connection first, which rests on
`TopExists`: a finite set of connections has one that no other is better than, whatever the
order of states and priorities. Every handler of the code is an operator on the channel's
record and has a lemma that it keeps `Good`.

*DtlsTransportProofs.* `RolesAreOpposite` says nothing of what the two ends are about to do:
`DtlsInv` adds what each transport, wrapper and stream know of each other (`EndOK`, among it
that the role of a stream and the one negotiated agree), what has been shown of the
certificates (`CertSeen`), and where the exchange of descriptions stands (`SigOK`): which
description each side holds in each phase, that an answer keeps the role of a stream that
exists, and that between negotiations either both wrappers have a stream or neither has. A
negotiation during the handshake, from the end that answered the one before, is the case
that needs all of them.

*ThreadsProofs.* `CallInv` has three parts. `Shape`: a stack has Get at its bottom and each
call is one that the call below it makes (`Fits`). `Typed`. `HeldInv`: the numbers of Sends
tell them apart (`Numbered`), a message in a list or in a handler has a sender that waits for
it and is there once (`Listed`, `Run`), and a Send without an answer is in one of these
places (`Held`). Each action first gets a lemma that says what it does to the stacks, then
one that it keeps `HeldInv`; `CallsInAreFromCallee` and `UnansweredIsHeld` follow.
`WakeInv` is why no wakeup is lost. The event of a thread is one bit shared by all the calls
on its stack, and a Send that waits uses it up for all: so for every Send on the stack whose
answer has come and that does not look, the event is set or a Send above has `waited`
(`Owed`), and will set it again when it returns; for every entry of the list that a waiting
Send or Get would take, the event is set or the sender is between its two steps (`Pending`);
and Get, at each place of its loop, has its event set for whatever it has already looked at
(`GetSees`: Sends, timers, queue, fStop_). When Get is not alone on the stack it will look at
everything again: what is above it is a handler, called from ReceiveSends or dispatched.
`PostInv` is the invariant behind `ClearedIsGone`: the numbers of messages tell them apart,
and none that is queued or dispatched has been cleared. Sequences that lose elements are
written as `Kept(q, S)`, a choice of positions in order, so that the proofs can say which
element went where.

`OrderInv`, behind `AlwaysDispatchedInOrder`, puts a queue and what was dispatched from it in
one line, the messages handled, then `msgq_`, then `dmsgq_` in the order of its heap: no
message of the line stands behind one that it has to come before (`Orderly`), and the heap is
in the order of the messages' timestamps and numbers (`Sorted`). What a step does to the line
is a map from its new places to the old ones. The theorem has no hypothesis, because
`DispatchedInOrder` speaks only of pairs that the code puts in order: posted messages, and
delayed ones that the wrap of the clock does not lie between (`DueFirst`).

*PseudoTcpProofs.* Neither property is inductive, nor are both together: that the segments
tile the buffer after an ack depends on the ack falling on the end of a segment, that on the
receiver never cutting a segment, that on the sender keeping to the window, and that on every
window that was ever announced and is still on its way. `IInv` says of an end, with `E` the
sequence number up to which its partner has room (`Edge`) and `V` the numbers its partner may
see acknowledged (`Marks`: everything up to m_snd_una, and the ends of segments sent): the
list lies end to end over the buffer, the sent segments first, m_snd_nxt where they end, the
timer running exactly while there are some (`Lists`); what it believes of the window ends at
`E` or before; m_rcv_nxt and the ends of the saved segments are in `V`; the bytes to be read
and the window together fit into the buffer; and every packet on its way to it, however old,
acknowledges one of its own marks, announces no more than its partner's `Edge`, and carries
data that ends at a mark within its own `Edge` (`PacketFor`). Old packets stay harmless
because three things only grow (`Grows`): the edge of the room, m_snd_nxt, and the set of
marks: a split of a segment adds marks and takes none away. That is why loss,
repetition and reordering need no case of their own: the network holds a part of what
was put into it. An end whose partner is gone keeps the last `E` and `V`.

As in the other proofs there is one lemma for each function of the code (`transmit`,
`attemptSend`, `NewAck`, `OldAck`, `Fitted`, `Recover`, `Save`, ...), which says that it keeps
`Good` and only grows; the loops of `attemptSend`, `FreeSegments` and `Recover` are functions
of the number of turns, and `UpTo`, an induction over numbers with a set in place of a
predicate, carries a fact through all of them. The assumptions are that a stream is
shorter than the space of sequence numbers by the buffers (the code's plain comparisons mean
nothing otherwise, see *Also seen while modelling*), and that the CONNECT message fits
into a packet and into the receive buffer: it has a few bytes, the buffer 60 KB.

Only model-checked:

- `StreamIsPrefix` of `PseudoTcp` is false of the code in general (the run
  `PseudoTcpServerFirst`), and holds in its run because of the workloads: the end that
  listened writes at most one segment. A theorem would have to say
  this of the applications.
- `NeverStuck` of `PseudoTcp` is about states in which nothing is left to do: its
  invariant has to name, for every byte not yet read, the packet, timer or event that will
  move it, through congestion control, delayed acks and probes. `IInv` has the part of the
  retransmit timer only.
- `ClosedIsFinal` for SCTP channels, which is false (the run `DataChannelReopens`).
- All liveness: fairness and ENABLED are outside what the prover handles.

## Not modelled

In the data channel stack: observer callbacks that call back into the channel; payload types,
labels, protocols and partial reliability; the encoding of OPEN and OPEN_ACK; ports and
codecs of the engine; receiving payload data in the engine. Of usrsctp only the stream resets, of
boringssl only the flights of a handshake; the network appears through its effects. Of the session and transport layers: audio and video channels,
session states and transport proxies, bundling, ICE restarts, allocation of ports, TURN,
Google ICE. Of the message queues: Peek, Restart, sockets. Of `PseudoTcp`: window scaling,
round-trip estimates, options.

The TURN timers, the SRTP, RTCP and bundle filters and the request queue of
`WebRtcSessionDescriptionFactory` are state machines that could be modelled and are not yet.
SDP, the port allocator, codecs and media engines convert data or do I/O; `chromium/` and the
other vendored trees, which make up most of the lines, are not the program's own code and are
left out but for those two.

## Plan

1. `DataChannel`, `SctpStreams`, `StreamLifecycle`, `SctpSids` with their proofs: done.
2. `Threads`, `IceAgents`, `DtlsTransport`, `PseudoTcp`: modelled, checked, and proved but for
   what *Proofs* lists as only model-checked.
3. `NeverStuck` of `PseudoTcp` as a theorem, on top of `IInv`; `StreamIsPrefix` for the
   workloads in which the listening end does not write first.
4. `DataSession`: two peers, the allocator, the engine and both threads' queues in one module,
   about sids that are reused while a closure for them is posted.
5. TURN timers. `SrtpFilter` and its relatives as clients of offer and answer.
