---------------------------- MODULE DtlsTransport ----------------------------
(***************************************************************************)
(* DTLS between two endpoints: what the offers and answers of two          *)
(* WebRtcSessions make of it (webrtc/p2p/base/dtlstransport.h,             *)
(* transport.cc, transportdescriptionfactory.cc) and the channel that runs *)
(* the handshake over an ICE channel (dtlstransportchannel.cc,             *)
(* webrtc/base/opensslstreamadapter.cc).                                   *)
(*                                                                         *)
(* The applications exchange descriptions reliably and in order, and may   *)
(* negotiate again at any time, from either side.  Packets are lost,       *)
(* delayed and reordered, and the ICE channel (channel_) goes up and down. *)
(* OpenSSL is external: a handshake of four flights, of which the one that *)
(* waits sends its last flight again.                                      *)
(***************************************************************************)
EXTENDS Naturals

CONSTANTS Policies,    \* what each endpoint encrypts with: a set of [Endpoints -> Crypto]
          Certified,   \* whose certificate matches its fingerprint: [Endpoints -> BOOLEAN]s
          MaxOffers,   \* bounds: offers made,
          MaxFaults    \* packets lost and breaks of the ICE channel

Endpoints == {"L", "R"}
Other(p) == IF p = "L" THEN "R" ELSE "L"

\* DTLS (dtls_enabled_), SDES (SdesPolicy is SEC_REQUIRED), or encryption disabled.
Crypto == {"DTLS", "SDES", "NONE"}

ASSUME DtlsConstantsOK ==
    /\ Policies \subseteq [Endpoints -> Crypto]
    /\ Certified \subseteq [Endpoints -> BOOLEAN]
    /\ MaxOffers \in Nat /\ MaxFaults \in Nat

VARIABLES tr,        \* the DtlsTransport of each endpoint
          ch,        \* its DtlsTransportChannelWrapper, dtls_ included
          ice,       \* the channel it wraps: writable and readable
          policy,    \* its crypto policy
          sig,       \* the exchange of descriptions
          cert,      \* whose certificate is the one its fingerprint promises
          net,       \* packets in flight
          faults

vars == <<tr, ch, ice, policy, sig, cert, net, faults>>

States == {"NONE", "OFFERED", "ACCEPTED", "STARTED", "OPEN", "CLOSED"}
Flights == <<"ClientHello", "ServerHello", "ClientFinished", "ServerFinished">>
NoDescription == [crypto |-> "NONE", role |-> "NONE"]
Fp(desc) == desc.crypto = "DTLS"                          \* identity_fingerprint
NoStream == [role |-> "NONE", sent |-> 0]

Init ==
    /\ policy \in Policies
    /\ tr = [p \in Endpoints |-> [identity |-> policy[p] = "DTLS", local |-> NoDescription,
                                  remote |-> NoDescription, secure_role |-> "CLIENT"]]
    /\ ch = [p \in Endpoints |->
              [state |-> "NONE", ssl_role |-> "CLIENT", identity |-> FALSE, remoteFp |-> FALSE,
               stream |-> NoStream, writable |-> FALSE, readable |-> FALSE]]
    /\ ice = [p \in Endpoints |-> [writable |-> FALSE, readable |-> FALSE, negotiated |-> FALSE]]
    /\ sig = [phase |-> "stable", offerer |-> "L", final |-> TRUE, offers |-> 0]
    /\ cert \in Certified
    /\ net = {}
    /\ faults = 0

-----------------------------------------------------------------------------
(* The channel: functions from a channel c to a channel; [ok] tells whether the code        *)
(* returns true.                                                                            *)

Result(c, ok) == [c |-> c, ok |-> ok]

SetLocalIdentity(c, identity) ==
    IF c.state # "NONE" THEN Result(c, identity = c.identity)
    ELSE IF identity THEN Result([c EXCEPT !.identity = TRUE, !.state = "OFFERED"], TRUE)
    ELSE Result(c, TRUE)

SetSslRole(c, role) ==
    IF c.state = "OPEN" THEN Result(c, c.ssl_role = role)
    ELSE Result([c EXCEPT !.ssl_role = role], TRUE)

\* SetupDtls: a new stream, with the role known now.
SetupDtls(c) == [c EXCEPT !.stream = [role |-> c.ssl_role, sent |-> 0]]

SetRemoteFingerprint(c, fp) ==
    IF c.state # "NONE" /\ c.remoteFp /\ fp THEN Result(c, TRUE)     \* identical
    ELSE IF c.state \notin {"NONE", "OFFERED"} \/ (c.state = "NONE" /\ fp) THEN Result(c, FALSE)
    ELSE IF ~fp THEN Result([c EXCEPT !.state = "NONE"], TRUE)
    ELSE Result([SetupDtls(c) EXCEPT !.remoteFp = TRUE, !.state = "ACCEPTED"], TRUE)

\* Mutant: the fingerprint first, then the role.
ApplyNegotiatedTransportDescription_FingerprintFirst(c, role, fp) ==
    LET r == SetRemoteFingerprint(c, fp) IN IF r.ok THEN SetSslRole(r.c, role) ELSE r

\* "Role must be set before fingerprint is applied, which initiates DTLS setup."
ApplyNegotiatedTransportDescription(c, role, fp) ==
    LET r == SetSslRole(c, role) IN IF r.ok THEN SetRemoteFingerprint(r.c, fp) ELSE r

-----------------------------------------------------------------------------
(* Offers and answers.                                                                      *)

\* TransportDescriptionFactory::CreateOffer and CreateAnswer, with what SetSdesPolicy and
\* SetIdentity have told the factories.
CreateOffer(p) ==
    [crypto |-> policy[p], role |-> IF policy[p] = "DTLS" THEN "ACTPASS" ELSE "NONE"]

\* Mutant: the role of an existing session is not passed on.
CreateAnswer_AlwaysActive(p) ==
    [crypto |-> policy[p], role |-> IF policy[p] = "DTLS" THEN "ACTIVE" ELSE "NONE"]

\* InternalCreateAnswer passes the role of an existing session, one with both descriptions.
\* (The offer to an endpoint that does DTLS has a fingerprint, or VerifyCrypto refused it.)
CreateAnswer(p) ==
    [crypto |-> policy[p],
     role |-> IF policy[p] # "DTLS" THEN "NONE"
              ELSE IF ice[p].negotiated /\ tr[p].secure_role = "SERVER" THEN "PASSIVE"
                                                                       ELSE "ACTIVE"]

\* Mutant: descriptions are taken whatever their crypto.
VerifyCrypto_Lax(p, desc) == TRUE

\* ValidateSessionDescription and VerifyCrypto, for the description of the peer.  (What an
\* endpoint makes for itself follows its own policy.)
VerifyCrypto(p, desc) == policy[p] \in {"NONE", desc.crypto}

\* DtlsTransport::ApplyLocalTransportDescription_w.
WithLocal(t, desc) == [t EXCEPT !.local = desc, !.identity = @ /\ Fp(desc)]

RolesAreLegal(t, local_role) ==
    IF local_role = "OFFER"
    THEN t.local.role = "ACTPASS" /\ t.remote.role \in {"ACTIVE", "PASSIVE", "NONE"}
    ELSE t.remote.role \in {"ACTPASS", "NONE"} /\ t.local.role \in {"ACTIVE", "PASSIVE"}

\* Mutant: the answerer reads the role of the offer instead of its own.
IsRemoteServer_OfferOnly(t, local_role) == t.remote.role = "PASSIVE"

IsRemoteServer(t, local_role) ==
    IF local_role = "OFFER" THEN t.remote.role = "PASSIVE" ELSE t.local.role = "ACTIVE"

\* DtlsTransport::NegotiateTransportDescription_w of transport t and channel c: secure_role_
\* has changed even if the channel then refuses.
Negotiate(t, c, local_role) ==
    LET dtls == Fp(t.local) /\ Fp(t.remote)
        bad == \/ dtls /\ ~RolesAreLegal(t, local_role)
               \/ ~dtls /\ Fp(t.local) /\ local_role = "ANSWER"
        role == IF ~dtls THEN t.secure_role
                ELSE IF IsRemoteServer(t, local_role) THEN "CLIENT" ELSE "SERVER"
    IN  IF bad THEN [t |-> t, r |-> Result(c, FALSE)]
        ELSE [t |-> [t EXCEPT !.secure_role = role],
              r |-> ApplyNegotiatedTransportDescription(c, role, dtls)]

\* A description has been applied at p with result r; a failure is the end of negotiation.
Applied(p, t, r, exchange) ==
    /\ tr' = [tr EXCEPT ![p] = t]
    /\ ch' = [ch EXCEPT ![p] = r.c]
    /\ sig' = IF r.ok THEN exchange ELSE [exchange EXCEPT !.phase = "failed"]

SetLocalOffer(p) ==
    /\ sig.phase = "stable" /\ sig.offers < MaxOffers
    /\ LET t == WithLocal(tr[p], CreateOffer(p))
       IN  Applied(p, t, SetLocalIdentity(ch[p], t.identity),
                   [phase |-> "offered", offerer |-> p, final |-> FALSE, offers |-> sig.offers + 1])
    /\ UNCHANGED <<ice, policy, cert, net, faults>>

\* The other end takes the offer; one it refuses changes nothing.
SetRemoteOffer(p) ==
    /\ sig.phase = "offered" /\ p = Other(sig.offerer)
    /\ IF VerifyCrypto(p, tr[sig.offerer].local)
       THEN /\ tr' = [tr EXCEPT ![p].remote = tr[sig.offerer].local]
            /\ sig' = [sig EXCEPT !.phase = "received"]
       ELSE /\ sig' = [sig EXCEPT !.phase = "refused"]
            /\ UNCHANGED tr
    /\ UNCHANGED <<ch, ice, policy, cert, net, faults>>

\* An answer, or a provisional one that is answered again later.
SetLocalAnswer(p, action) ==
    /\ sig.phase = "received" /\ p = Other(sig.offerer)
    /\ LET t == WithLocal(tr[p], CreateAnswer(p))
           r == SetLocalIdentity(ch[p], t.identity)
           n == IF r.ok THEN Negotiate(t, r.c, action) ELSE [t |-> t, r |-> r]
       IN  Applied(p, n.t, n.r, [sig EXCEPT !.phase = "answered", !.final = (action = "ANSWER")])
    /\ ice' = [ice EXCEPT ![p].negotiated = TRUE]
    /\ UNCHANGED <<policy, cert, net, faults>>

SetRemoteAnswer(p) ==
    /\ sig.phase = "answered" /\ p = sig.offerer
    /\ \/ /\ VerifyCrypto(p, tr[Other(p)].local)
          /\ LET n == Negotiate([tr[p] EXCEPT !.remote = tr[Other(p)].local], ch[p], "OFFER")
             IN  Applied(p, n.t, n.r,
                         [sig EXCEPT !.phase = IF sig.final THEN "stable" ELSE "received"])
          /\ ice' = [ice EXCEPT ![p].negotiated = TRUE]
       \/ /\ ~VerifyCrypto(p, tr[Other(p)].local)
          /\ sig' = [sig EXCEPT !.phase = "refused"]
          /\ UNCHANGED <<tr, ch, ice>>
    /\ UNCHANGED <<policy, cert, net, faults>>

-----------------------------------------------------------------------------
(* The handshake.                                                                           *)

\* What endpoint p writes: nothing if the ICE channel is down, and the stream does not mind.
Write(p, kind) == IF ice'[p].writable THEN {[to |-> Other(p), kind |-> kind]} ELSE {}

\* The ICE channel becomes writable, which MaybeStartDtls waits for, or stops being so.
OnWritableState(p, value) ==
    /\ ice[p].negotiated /\ ice[p].writable # value
    /\ IF value THEN UNCHANGED faults ELSE faults < MaxFaults /\ faults' = faults + 1
    /\ ice' = [ice EXCEPT ![p].writable = value]
    /\ \/ /\ ch[p].state \in {"NONE", "OPEN"}
          /\ ch' = [ch EXCEPT ![p].writable = value]
          /\ UNCHANGED net
       \/ /\ ch[p].state = "ACCEPTED" /\ value
          /\ LET client == ch[p].stream.role = "CLIENT"
             IN  /\ ch' = [ch EXCEPT ![p].state = "STARTED",
                                     ![p].stream.sent = IF client THEN 1 ELSE 0]
                 /\ net' = net \cup IF client THEN Write(p, Flights[1]) ELSE {}
       \/ /\ \/ ch[p].state \in {"OFFERED", "STARTED", "CLOSED"}
             \/ ch[p].state = "ACCEPTED" /\ ~value
          /\ UNCHANGED <<ch, net>>
    /\ UNCHANGED <<tr, policy, sig, cert>>

\* RFC 5245 channels do not stop being readable.
OnReadableState(p) ==
    /\ ice[p].negotiated /\ ~ice[p].readable
    /\ ice' = [ice EXCEPT ![p].readable = TRUE]
    /\ ch' = IF ch[p].state \in {"NONE", "OPEN"} THEN [ch EXCEPT ![p].readable = TRUE] ELSE ch
    /\ UNCHANGED <<tr, policy, sig, cert, net, faults>>

\* OnDtlsEvent, SE_OPEN and SE_CLOSE.
Opened(c) == [c EXCEPT !.state = "OPEN", !.readable = TRUE, !.writable = TRUE]
Closed(c) == [c EXCEPT !.state = "CLOSED", !.readable = FALSE, !.writable = FALSE]

\* The stream of p reads flight k: the next one, an old one that the server answers again,
\* or one that means nothing to it.  Flights 2 and 3 carry certificates.
Handshake(p, k, rest) ==
    LET c == ch[p]
        expected == k = c.stream.sent + 1 /\ (k \in {2, 4} <=> c.stream.role = "CLIENT")
        refused == k \in {2, 3} /\ ~cert[Other(p)]
    IN  \/ /\ expected /\ ~refused
          /\ LET next == [c EXCEPT !.stream.sent = k + 1]
             IN  ch' = [ch EXCEPT ![p] = IF k \in {3, 4} THEN Opened(next) ELSE next]
          /\ net' = rest \cup IF k = 4 THEN {} ELSE Write(p, Flights[k + 1])
       \/ /\ expected /\ refused
          /\ ch' = [ch EXCEPT ![p] = Closed(c)]
          /\ net' = rest \cup Write(p, "Alert")
       \/ /\ ~expected
          /\ net' = rest \cup IF c.stream.role = "SERVER" /\ k = c.stream.sent - 1
                              THEN Write(p, Flights[k + 1]) ELSE {}
          /\ UNCHANGED ch

\* OnReadPacket: only a channel that has started takes packets of the handshake, and the
\* connection drops what comes before it is readable.  An alert ends a handshake under way.
OnReadPacket(p, m) ==
    /\ m \in net /\ m.to = p
    /\ UNCHANGED ice
    /\ \/ /\ \/ ~ice[p].readable \/ ch[p].state \notin {"STARTED", "OPEN"}
             \/ m.kind = "Alert" /\ ch[p].state = "OPEN"
          /\ net' = net \ {m} /\ UNCHANGED ch
       \/ /\ ice[p].readable /\ ch[p].state \in {"STARTED", "OPEN"}
          /\ \E k \in DOMAIN Flights : m.kind = Flights[k] /\ Handshake(p, k, net \ {m})
       \/ /\ ice[p].readable /\ ch[p].state = "STARTED" /\ m.kind = "Alert"
          /\ ch' = [ch EXCEPT ![p] = Closed(@)]
          /\ net' = net \ {m}
    /\ UNCHANGED <<tr, policy, sig, cert, faults>>

\* Mutant: ContinueSSL clears the timer and sets it for the first flights only.
Retransmit_FirstFlights(p) ==
    /\ ch[p].state = "STARTED" /\ ch[p].stream.sent \in 1 .. 2
    /\ UNCHANGED ice
    /\ net' = net \cup Write(p, Flights[ch[p].stream.sent])
    /\ UNCHANGED <<tr, ch, policy, sig, cert, faults>>

\* The stream's timer: the last flight again, while an answer is missing.
Retransmit(p) ==
    /\ ch[p].state = "STARTED" /\ ch[p].stream.sent > 0
    /\ UNCHANGED ice
    /\ net' = net \cup Write(p, Flights[ch[p].stream.sent])
    /\ UNCHANGED <<tr, ch, policy, sig, cert, faults>>

Lose(m) ==
    /\ m \in net /\ faults < MaxFaults
    /\ net' = net \ {m}
    /\ faults' = faults + 1
    /\ UNCHANGED <<tr, ch, ice, policy, sig, cert>>

Next ==
    \/ \E p \in Endpoints : SetLocalOffer(p)
    \/ \E p \in Endpoints, action \in {"PRANSWER", "ANSWER"} : SetLocalAnswer(p, action)
    \/ \E p \in Endpoints : SetRemoteOffer(p)
    \/ \E p \in Endpoints : SetRemoteAnswer(p)
    \/ \E p \in Endpoints, value \in BOOLEAN : OnWritableState(p, value)
    \/ \E p \in Endpoints : OnReadableState(p)
    \/ \E p \in Endpoints, m \in net : OnReadPacket(p, m)
    \/ \E p \in Endpoints : Retransmit(p)
    \/ \E m \in net : Lose(m)

Spec == Init /\ [][Next]_vars

\* The applications finish an exchange they have begun, the ICE channel comes up again, timers
\* fire and packets arrive.
Fairness ==
    \A p \in Endpoints :
        /\ WF_vars(SetRemoteOffer(p) \/ SetRemoteAnswer(p) \/ SetLocalAnswer(p, "ANSWER"))
        /\ WF_vars(OnWritableState(p, TRUE)) /\ WF_vars(OnReadableState(p))
        /\ WF_vars(Retransmit(p))
        /\ WF_vars(\E m \in net : OnReadPacket(p, m))

FairSpec == Spec /\ Fairness

-----------------------------------------------------------------------------
\* The variables have their types, and a channel past negotiation has its stream.
DtlsTypeOK ==
    /\ \A p \in Endpoints :
        /\ ch[p].state \in States
        /\ ch[p].stream.sent \in 0 .. 5
        /\ ch[p].state \in {"ACCEPTED", "STARTED", "OPEN", "CLOSED"} => ch[p].stream # NoStream
    /\ sig.phase \in {"stable", "offered", "received", "answered", "refused", "failed"}
    /\ faults \in 0 .. MaxFaults

\* However often and from whichever end the session is negotiated again, one stream is the
\* client and the other the server: NegotiateTransportDescription_w runs at each end on its
\* own pair of descriptions, one end ahead of the other.
RolesAreOpposite ==
    LET role(p) == ch[p].stream.role
    IN  role("L") # "NONE" /\ role("R") # "NONE" => role("L") # role("R")

\* The role that a transport reports (GetSslRole, which numbers the SCTP streams and shapes
\* the next answer) is the one that its stream plays since SetupDtls, although a negotiation
\* during the handshake sets secure_role_ and ssl_role_ and leaves the stream alone.
ReportedRoleIsReal ==
    \A p \in Endpoints :
        ch[p].stream # NoStream
            => tr[p].secure_role = ch[p].stream.role /\ ch[p].ssl_role = ch[p].stream.role

\* Endpoints with the same policy never refuse to negotiate again, at any stage of the
\* handshake: no setter of the channel returns false to their descriptions.
NeverRefused ==
    /\ sig.phase # "failed"
    /\ sig.phase = "refused" => policy["L"] # policy["R"]

\* With DTLS enabled nothing is sent in the clear: the channel is writable only when the
\* handshake is done and the peer has shown the certificate of its fingerprint.
NothingInTheClear ==
    \A p \in Endpoints :
        policy[p] = "DTLS" /\ ch[p].writable => ch[p].state = "OPEN" /\ cert[Other(p)]

\* Endpoints that both do DTLS finish the handshake: the packets that OnReadPacket drops
\* before its channel has started, and lost ones, are sent again until both are open.
HandshakeCompletes ==
    \A p \in Endpoints :
        ch[p].state = "ACCEPTED" /\ cert["L"] /\ cert["R"] ~> ch[p].state = "OPEN"
=============================================================================
