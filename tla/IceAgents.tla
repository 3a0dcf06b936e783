------------------------------ MODULE IceAgents ------------------------------
(***************************************************************************)
(* Two ICE agents that look for a path to each other: P2PTransportChannel  *)
(* (webrtc/p2p/base/p2ptransportchannel.cc) with its Connections           *)
(* (port.cc) and their STUN requests (stunrequest.cc), and the resolution  *)
(* of role conflicts (port.cc, transport.cc, session.cc).                  *)
(*                                                                         *)
(* A connection is the pair of candidates c, the same at both agents; its  *)
(* number is its priority, which no two share.  The protocol is RFC 5245:  *)
(* the agents have agreed on it before there are connections.  Each        *)
(* agent's worker thread runs one handler at a time; MSG_SORT, MSG_DELETE  *)
(* and MSG_ROLECONFLICT are posted and handled later, in any order and     *)
(* with packets in between.  Packets are lost, duplicated and delayed.     *)
(* Clocks are not modelled: a ping or a connection may time out whenever   *)
(* it waits for an answer.                                                 *)
(***************************************************************************)
EXTENDS Integers, FiniteSets

CONSTANTS Conns,          \* the candidate pairs, a set of positive numbers
          InitialRoles,   \* the pairs of roles the agents may start with
          CONNECTION_WRITE_CONNECT_FAILURES,
          MaxPings,       \* bounds: transactions of an agent under way,
          MaxFaults       \* packets lost or duplicated, timeouts and late messages

VARIABLES ch,        \* the P2PTransportChannel of each agent and its connections
          ice,       \* its role, role_switch_ and the posted MSG_ROLECONFLICT
          known,     \* remote_candidates_
          net,       \* packets in flight
          faults     \* faults so far

vars == <<ch, ice, known, net, faults>>

Agents == {"L", "R"}
Other(a) == IF a = "L" THEN "R" ELSE "L"
Roles == {"CONTROLLING", "CONTROLLED"}
\* Drawn at random from 64 bits: two that are equal are left out.
Tiebreaker == [a \in Agents |-> IF a = "L" THEN 2 ELSE 1]

ASSUME IceConstantsOK ==
    /\ Conns \subseteq Nat \ {0} /\ IsFiniteSet(Conns)
    /\ InitialRoles \subseteq [Agents -> Roles]
    /\ CONNECTION_WRITE_CONNECT_FAILURES \in Nat \ {0}
    /\ MaxPings \in Nat \ {0} /\ MaxFaults \in Nat

NULL == 0
Opposite(role) == IF role = "CONTROLLING" THEN "CONTROLLED" ELSE "CONTROLLING"

\* Write states, the better the lower.
WriteRank == [WRITABLE |-> 0, UNRELIABLE |-> 1, INIT |-> 2, TIMEOUT |-> 3]

NewConn == [read |-> "INIT", write |-> "INIT", pruned |-> FALSE,
            pings |-> 0,          \* pings_since_last_response_, its size
            request |-> FALSE]    \* a request waits for its response

\* An agent's channel: conns are the connections it has, conn[c] is their state, sorts the
\* number of posted MSG_SORTs and deletes the connections with a posted MSG_DELETE.
NewChannel ==
    [conns |-> {}, conn |-> [c \in Conns |-> NewConn], best |-> NULL, pending |-> NULL,
     dirty |-> FALSE, sorts |-> 0, deletes |-> {}, writable |-> FALSE, readable |-> FALSE]

Init ==
    /\ ch = [a \in Agents |-> NewChannel]
    /\ \E role \in InitialRoles :
        ice = [a \in Agents |-> [role |-> role[a], role_switch |-> FALSE, posted |-> FALSE]]
    /\ known = [a \in Agents |-> {}]
    /\ net = {}
    /\ faults = 0

Packet(kind, to, c, role, use) ==
    [kind |-> kind, to |-> to, conn |-> c, role |-> role, use |-> use]

-----------------------------------------------------------------------------
(* The handlers, as functions from a channel s to a channel.               *)

ConnWritable(s, c) == c # NULL /\ s.conn[c].write = "WRITABLE"

RequestSort(s) == IF s.dirty THEN s ELSE [s EXCEPT !.dirty = TRUE, !.sorts = @ + 1]

\* Mutant: the nomination is forgotten before the connection can be used.
OnConnectionStateChange_NoPending(s, role, c) == RequestSort(s)

OnConnectionStateChange(s, role, c) ==
    RequestSort(IF role = "CONTROLLED" /\ c = s.pending /\ ConnWritable(s, c)
                THEN [s EXCEPT !.pending = NULL, !.best = c] ELSE s)

CheckTimeout(s, c) ==
    IF s.conn[c].read = "INIT" /\ s.conn[c].write = "TIMEOUT"
    THEN [s EXCEPT !.deletes = @ \cup {c}] ELSE s

set_read_state(s, role, c, value) ==
    IF s.conn[c].read = value THEN s
    ELSE CheckTimeout(OnConnectionStateChange([s EXCEPT !.conn[c].read = value], role, c), c)

\* Mutant: the channel is not told.
set_write_state_NoSignal(s, role, c, value) ==
    CheckTimeout([s EXCEPT !.conn[c].write = value], c)

set_write_state(s, role, c, value) ==
    IF s.conn[c].write = value THEN s
    ELSE CheckTimeout(OnConnectionStateChange([s EXCEPT !.conn[c].write = value], role, c), c)

ReceivedPing(s, role, c) == set_read_state(s, role, c, "READABLE")

\* Connection::UpdateState: "connect" and "write" are how long the first unanswered ping
\* has been waiting, and "" not long enough to matter.
UpdateState(k, wait) ==
    LET k1 == IF /\ k.write = "WRITABLE" /\ wait # ""
                 /\ k.pings >= CONNECTION_WRITE_CONNECT_FAILURES
              THEN [k EXCEPT !.write = "UNRELIABLE"] ELSE k
    IN  IF k1.write \in {"UNRELIABLE", "INIT"} /\ wait = "write" /\ k.pings > 0
        THEN [k1 EXCEPT !.write = "TIMEOUT"] ELSE k1

\* UpdateConnectionStates, in which the pings of connection c have waited for so long.
UpdateConnectionStates(s, c, wait) ==
    IF c \notin s.conns THEN s
    ELSE LET k == UpdateState(s.conn[c], wait)
             t == [s EXCEPT !.conn[c] = k]
         IN  IF k = s.conn[c] THEN s ELSE CheckTimeout(RequestSort(t), c)

Better(s, c, d) ==
    LET v == WriteRank[s.conn[c].write]
        w == WriteRank[s.conn[d].write]
    IN  v < w \/ (v = w /\ c > d)

\* The first of C after sorting.
TopOf(s, C) ==
    IF C = {} THEN NULL ELSE CHOOSE c \in C : \A d \in C \ {c} : Better(s, c, d)

ShouldSwitch(s, a, b) == a # b /\ (a = NULL \/ b = NULL \/ Better(s, b, a))

\* All connections use one local network.
GetBestConnectionOnNetwork(s) == IF s.best # NULL THEN s.best ELSE TopOf(s, s.conns)

\* What SortConnections prunes: all connections that have no higher priority than the
\* network's first one, if that is writable.
Redundant(s) ==
    LET primier == GetBestConnectionOnNetwork(s)
    IN  {c \in s.conns \ {primier} : ConnWritable(s, primier) /\ primier >= c}

\* Connection::Prune of all of C: a second time it does nothing.
Prune(s, C) ==
    LET new == {c \in C : ~s.conn[c].pruned}
        changed == {c \in new : s.conn[c].write # "TIMEOUT"}
        t == [s EXCEPT !.conn = [c \in Conns |->
                IF c \in new THEN [s.conn[c] EXCEPT !.pruned = TRUE, !.request = FALSE,
                                                    !.write = "TIMEOUT"]
                             ELSE s.conn[c]],
              !.deletes = @ \cup {c \in changed : s.conn[c].read = "INIT"}]
    IN  IF changed = {} THEN t ELSE RequestSort(t)

\* HandleWritable, HandleNotWritable and HandleAllTimedOut, then UpdateChannelState;
\* was_writable_ is the same as writable.
UpdateChannelState(s) ==
    [s EXCEPT !.writable = ConnWritable(s, s.best),
              !.readable = \E c \in s.conns : s.conn[c].read = "READABLE"]

\* The controlling agent's choice.
Choose(s, role) ==
    LET top == TopOf(s, s.conns)
    IN  IF role = "CONTROLLING" /\ ShouldSwitch(s, s.best, top)
        THEN [s EXCEPT !.dirty = FALSE, !.best = top] ELSE [s EXCEPT !.dirty = FALSE]

\* SortConnections of agent a's channel s, after UpdateConnectionStates.  (Here and below a
\* singleton holds a value that is used several times.)
SortConnections(a, s) ==
    \E s1 \in {Choose(s, ice[a].role)} : \E s2 \in {Prune(s1, Redundant(s1))} :
        ch' = [ch EXCEPT ![a] = UpdateChannelState(s2)]

AddConnection(s, c) == [s EXCEPT !.conns = @ \cup {c}, !.conn[c] = NewConn]

\* Mutant: the first nomination is final.
OnUseCandidate_FirstOnly(s, c) ==
    IF ConnWritable(s, c) /\ s.best = NULL
    THEN RequestSort([s EXCEPT !.pending = NULL, !.best = c])
    ELSE [s EXCEPT !.pending = IF s.best = NULL THEN c ELSE @]

\* Only a connection that is writable is used; another is remembered until it is.
OnUseCandidate(s, c) ==
    IF ConnWritable(s, c)
    THEN IF s.best = c THEN s ELSE RequestSort([s EXCEPT !.pending = NULL, !.best = c])
    ELSE [s EXCEPT !.pending = c]

\* Mutant: a second MSG_DELETE of a connection survives it.
OnConnectionDestroyed_StaysPosted(s, c) ==
    LET t == [s EXCEPT !.conns = @ \ {c}, !.conn[c] = NewConn,
                       !.pending = IF @ = c THEN NULL ELSE @]
    IN  IF s.best = c THEN RequestSort([t EXCEPT !.best = NULL]) ELSE t

\* Mutant: a nominated connection that is deleted stays nominated.
OnConnectionDestroyed_KeepsPending(s, c) ==
    LET t == [s EXCEPT !.conns = @ \ {c}, !.conn[c] = NewConn, !.deletes = @ \ {c}]
    IN  IF s.best = c THEN RequestSort([t EXCEPT !.best = NULL]) ELSE t

OnConnectionDestroyed(s, c) ==
    LET t == [s EXCEPT !.conns = @ \ {c}, !.conn[c] = NewConn, !.deletes = @ \ {c},
                       !.pending = IF @ = c THEN NULL ELSE @]
    IN  IF s.best = c THEN RequestSort([t EXCEPT !.best = NULL]) ELSE t

\* Connection::OnReadPacket, a binding request without a role conflict.
OnBindingRequest(a, m) ==
    LET c == m.conn
        role == ice[a].role
    IN  \E s \in {ReceivedPing(ch[a], role, c)} :
        \E t \in {IF ~s.conn[c].pruned /\ s.conn[c].write = "TIMEOUT"
                  THEN set_write_state(s, role, c, "INIT") ELSE s} :
            ch' = [ch EXCEPT ![a] =
                     IF role = "CONTROLLED" /\ m.use THEN OnUseCandidate(t, c) ELSE t]

\* P2PTransportChannel::OnUnknownAddress, from a peer whose username is known.
OnUnknownAddress(a, c) ==
    \E s \in {ReceivedPing(AddConnection(ch[a], c), ice[a].role, c)} : SortConnections(a, s)

\* A pruned connection comes back to life.
OnConnectionRequestResponse(s, role, c) ==
    [set_write_state(s, role, c, "WRITABLE") EXCEPT !.conn[c].pings = 0, !.conn[c].request = FALSE]

-----------------------------------------------------------------------------
(* Role conflicts.                                                         *)

\* MaybeIceRoleConflict: what agent a makes of the role in a request of its peer.
Conflict(a, role) ==
    IF ice[a].role # role THEN "none"
    ELSE IF role = "CONTROLLING"
         THEN IF Tiebreaker[Other(a)] >= Tiebreaker[a] THEN "switch" ELSE "reject"
         ELSE IF Tiebreaker[Other(a)] < Tiebreaker[a] THEN "switch" ELSE "reject"

\* Port::SignalRoleConflict reaches Transport::OnRoleConflict, which posts.
SignalRoleConflict(a, yes) ==
    ice' = IF yes THEN [ice EXCEPT ![a].posted = TRUE] ELSE ice

\* Mutant: every signal switches the role.
OnRoleConflict_Repeated(a) ==
    /\ ice[a].posted
    /\ ice' = [ice EXCEPT ![a] =
                 [role |-> Opposite(@.role), role_switch |-> TRUE, posted |-> FALSE]]
    /\ UNCHANGED <<ch, known, net, faults>>

\* BaseSession::OnRoleConflict: the reverse of the initial role, once.
OnRoleConflict(a) ==
    /\ ice[a].posted
    /\ ice' = [ice EXCEPT ![a] =
                 [role |-> IF @.role_switch THEN @.role ELSE Opposite(@.role),
                  role_switch |-> TRUE, posted |-> FALSE]]
    /\ UNCHANGED <<ch, known, net, faults>>

-----------------------------------------------------------------------------
(* Events.                                                                 *)

\* How long the pings of one connection have been waiting when the states are updated.
Waited(a, c, wait) ==
    \/ wait = "" /\ c = NULL
    \/ c \in ch[a].conns /\ wait \in {"connect", "write"} /\ ch[a].conn[c].pings > 0

\* What is rare is a fault, and there are MaxFaults of them.
Counted(rare) ==
    IF rare THEN faults < MaxFaults /\ faults' = faults + 1 ELSE UNCHANGED faults

Waits(a, c, wait) == Waited(a, c, wait) /\ Counted(wait # "")

\* A candidate of the peer arrives by signaling: only the first time it makes a connection.
OnCandidate(a, c) ==
    /\ c \notin known[a]
    /\ known' = [known EXCEPT ![a] = @ \cup {c}]
    /\ \E d \in Conns \cup {NULL}, wait \in {"", "connect", "write"} :
        /\ Waits(a, d, wait)
        /\ \E s \in {IF c \in ch[a].conns THEN ch[a] ELSE AddConnection(ch[a], c)} :
           \E t \in {UpdateConnectionStates(s, d, wait)} : SortConnections(a, t)
    /\ UNCHANGED <<ice, net>>

\* The posted MSG_SORT.
OnSort(a) ==
    /\ ch[a].sorts > 0
    /\ \E c \in Conns \cup {NULL}, wait \in {"", "connect", "write"} :
        /\ Waits(a, c, wait)
        /\ \E s \in {UpdateConnectionStates([ch[a] EXCEPT !.sorts = @ - 1], c, wait)} :
            SortConnections(a, s)
    /\ UNCHANGED <<ice, known, net>>

\* The posted MSG_DELETE: what has become of the connection since is not looked at.
OnDelete(a, c) ==
    /\ c \in ch[a].deletes
    /\ ch' = [ch EXCEPT ![a] = OnConnectionDestroyed(@, c)]
    /\ UNCHANGED <<ice, known, net, faults>>

\* read_state is never READ_TIMEOUT in RFC 5245.
IsPingable(s, c) == s.conn[c].write # "TIMEOUT" \/ ~s.writable

\* PingConnection and ConnectionRequest::Prepare: when the controlling agent nominates.
UseCandidate(s, role, c) ==
    /\ role = "CONTROLLING"
    /\ c = s.best \/ ~ConnWritable(s, s.best) \/ c > s.best

\* The packet of agent a's transaction on c that is under way.
InFlight(a, c) ==
    {m \in net : m.conn = c /\ m.to = IF m.kind = "request" THEN Other(a) ELSE a}

UnderWay(a) == {c \in Conns : ch[a].conn[c].request \/ InFlight(a, c) # {}}

\* A connection has one transaction under way at a time, an agent MaxPings (bounds).
Idle(a, c) == c \notin UnderWay(a) /\ Cardinality(UnderWay(a)) < MaxPings

Ping(a, s, c) ==
    /\ ch' = [ch EXCEPT ![a] = [s EXCEPT !.conn[c].request = TRUE,
                 !.conn[c].pings = IF @ = CONNECTION_WRITE_CONNECT_FAILURES THEN @ ELSE @ + 1]]
    /\ net' = net \cup {Packet("request", Other(a), c, ice[a].role,
                               UseCandidate(s, ice[a].role, c))}

Settled(a) == ch[a].sorts = 0 /\ ch[a].deletes = {} /\ ~ice[a].posted

\* A ping is due 48 ms after the one before: that something posted has not been handled
\* by then is rare.
PingWaits(a, c, wait) == Waited(a, c, wait) /\ Counted(wait # "" \/ ~Settled(a))

\* FindNextPingableConnection may find any, the oldest ping first, or none.
OnPing(a, c) ==
    /\ \E d \in Conns \cup {NULL}, wait \in {"", "connect", "write"} :
        /\ PingWaits(a, d, wait)
        /\ \E s \in {UpdateConnectionStates(ch[a], d, wait)} :
           LET pingable == {e \in s.conns : IsPingable(s, e) /\ Idle(a, e)}
           IN  \/ c \in pingable /\ Ping(a, s, c)
               \/ c = NULL /\ pingable = {} /\ ch' = [ch EXCEPT ![a] = s] /\ UNCHANGED net
    /\ UNCHANGED <<ice, known>>

\* StunRequest::OnMessage after the last retransmission: no answer, or one that comes late.
OnRequestTimeout(a, c) ==
    /\ ch[a].conn[c].request
    /\ \/ InFlight(a, c) = {} /\ UNCHANGED faults
       \/ faults < MaxFaults /\ faults' = faults + 1
    /\ ch' = [ch EXCEPT ![a].conn[c].request = FALSE]
    /\ UNCHANGED <<ice, known, net>>

\* A packet is received; m may have been duplicated.
Received(m, reply) ==
    \/ net' = (net \ {m}) \cup reply /\ UNCHANGED faults
    \/ faults < MaxFaults /\ faults' = faults + 1 /\ net' = net \cup reply

\* Connection::OnReadPacket, or Port::OnReadPacket if there is no connection.
ReceiveRequest(a, m) ==
    /\ m \in net /\ m.to = a /\ m.kind = "request"
    /\ LET conflict == Conflict(a, m.role)
           reply(kind) == {Packet(kind, Other(a), m.conn, "", FALSE)}
           exists == m.conn \in ch[a].conns
       IN  \/ /\ conflict = "reject"
              /\ Received(m, reply("ROLE_CONFLICT")) /\ UNCHANGED <<ch, ice>>
           \/ /\ conflict # "reject"
              /\ SignalRoleConflict(a, conflict = "switch")
              /\ \/ exists /\ OnBindingRequest(a, m) /\ Received(m, reply("response"))
                 \/ /\ ~exists /\ known[a] # {}
                    /\ OnUnknownAddress(a, m.conn) /\ Received(m, reply("response"))
                 \/ /\ ~exists /\ known[a] = {}
                    /\ Received(m, reply("STALE_CREDENTIALS")) /\ UNCHANGED ch
    /\ UNCHANGED known

\* StunRequestManager::CheckResponse: an answer to no request is ignored.
ReceiveResponse(a, m) ==
    /\ m \in net /\ m.to = a /\ m.kind # "request"
    /\ LET waiting == m.conn \in ch[a].conns /\ ch[a].conn[m.conn].request
       IN  /\ ch' = IF ~waiting THEN ch
                    ELSE IF m.kind = "response"
                    THEN [ch EXCEPT ![a] = OnConnectionRequestResponse(@, ice[a].role, m.conn)]
                    ELSE [ch EXCEPT ![a].conn[m.conn].request = FALSE]
           /\ SignalRoleConflict(a, waiting /\ m.kind = "ROLE_CONFLICT")
    /\ Received(m, {})
    /\ UNCHANGED known

\* Data on a readable connection that was given up.
ReceiveData(a, c) ==
    /\ c \in ch[a].conns /\ ch[Other(a)].best = c
    /\ ch[a].conn[c].read = "READABLE" /\ ~ch[a].conn[c].pruned
    /\ ch[a].conn[c].write = "TIMEOUT"
    /\ ch' = [ch EXCEPT ![a] = set_write_state(@, ice[a].role, c, "INIT")]
    /\ UNCHANGED <<ice, known, net, faults>>

Lose(m) ==
    /\ m \in net /\ faults < MaxFaults
    /\ faults' = faults + 1
    /\ net' = net \ {m}
    /\ UNCHANGED <<ch, ice, known>>

Next ==
    \/ \E a \in Agents, c \in Conns : OnCandidate(a, c)
    \/ \E a \in Agents, c \in Conns \cup {NULL} : OnPing(a, c)
    \/ \E a \in Agents, c \in Conns : OnDelete(a, c)
    \/ \E a \in Agents, c \in Conns : OnRequestTimeout(a, c)
    \/ \E a \in Agents, c \in Conns : ReceiveData(a, c)
    \/ \E a \in Agents : OnSort(a)
    \/ \E a \in Agents : OnRoleConflict(a)
    \/ \E a \in Agents, m \in net : ReceiveRequest(a, m)
    \/ \E a \in Agents, m \in net : ReceiveResponse(a, m)
    \/ \E m \in net : Lose(m)

Spec == Init /\ [][Next]_vars

Posted(a) ==
    OnSort(a) \/ OnRoleConflict(a) \/ \E c \in Conns : OnDelete(a, c) \/ OnCandidate(a, c)

\* The transaction of agent a that is under way goes on.
Transaction(a) ==
    \/ \E m \in net : ReceiveRequest(Other(a), m) \/ ReceiveResponse(a, m)
    \/ \E c \in Conns : OnRequestTimeout(a, c)

Fairness ==
    \A a \in Agents :
        /\ WF_vars(Posted(a)) /\ WF_vars(Transaction(a))
        /\ \A c \in Conns : SF_vars(OnPing(a, c))

FairSpec == Spec /\ Fairness

-----------------------------------------------------------------------------
\* Every variable has a value the code can give it; only existing connections are to be
\* deleted.
IceTypeOK ==
    /\ \A a \in Agents :
        /\ ch[a].conns \subseteq Conns /\ ch[a].deletes \subseteq ch[a].conns
        /\ \A c \in Conns :
            /\ ch[a].conn[c].write \in DOMAIN WriteRank
            /\ ch[a].conn[c].pings \in 0 .. CONNECTION_WRITE_CONNECT_FAILURES
        /\ ch[a].sorts \in Nat
        /\ ice[a].role \in Roles
    /\ faults \in 0 .. MaxFaults

\* best_connection_ and pending_best_connection_ never point to a connection that has been
\* deleted, whatever was pruned, revived or nominated while its MSG_DELETE was posted.
BestIsLive ==
    \A a \in Agents : {ch[a].best, ch[a].pending} \subseteq ch[a].conns \cup {NULL}

\* A channel that reports the wrong writability has a sort posted that will correct it: no
\* change of a connection or of best_connection_ is forgotten because sort_dirty_ was set.
WritableFollows ==
    \A a \in Agents : ch[a].writable # ConnWritable(ch[a], ch[a].best) => ch[a].sorts > 0

\* A controlled agent does not sit on a nomination: the connection it has been told to use
\* and has not switched to cannot be used yet (OnUseCandidate, OnConnectionStateChange).
NominationIsTaken ==
    \A a \in Agents : ice[a].role = "CONTROLLED" => ~ConnWritable(ch[a], ch[a].pending)

\* A conflict of roles is resolved for good.
RolesSettle == <>[](ice["L"].role # ice["R"].role)

\* The agents end up sending on the same connection, and stay there: nominations and prunings
\* that cross do not leave them with different choices or with none.
AgreeOnBest ==
    <>[](/\ ch["L"].best = ch["R"].best /\ ch["L"].best # NULL
         /\ ch["L"].writable /\ ch["R"].writable)
=============================================================================
