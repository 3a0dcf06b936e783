------------------------- MODULE DtlsTransportProofs -------------------------
(***************************************************************************)
(* Machine-checked proofs about DtlsTransport, for all policies, any       *)
(* number of offers and any loss.                                          *)
(***************************************************************************)
EXTENDS DtlsTransport, TLAPS

SslRole == {"CLIENT", "SERVER"}
Description == [crypto : Crypto, role : {"NONE", "ACTPASS", "ACTIVE", "PASSIVE"}]
Transport == [identity : BOOLEAN, local : Description, remote : Description,
              secure_role : SslRole]
Stream == [role : SslRole \cup {"NONE"}, sent : 0 .. 5]
Channel == [state : States, ssl_role : SslRole, identity : BOOLEAN, remoteFp : BOOLEAN,
            stream : Stream, writable : BOOLEAN, readable : BOOLEAN]
IceChannel == [writable : BOOLEAN, readable : BOOLEAN, negotiated : BOOLEAN]
Phases == {"stable", "offered", "received", "answered", "refused", "failed"}
Signaling == [phase : Phases, offerer : Endpoints, final : BOOLEAN, offers : Nat]

Typed ==
    /\ tr \in [Endpoints -> Transport] /\ ch \in [Endpoints -> Channel]
    /\ ice \in [Endpoints -> IceChannel] /\ policy \in [Endpoints -> Crypto]
    /\ sig \in Signaling /\ cert \in [Endpoints -> BOOLEAN]
    /\ faults \in 0 .. MaxFaults

Both == policy["L"] = "DTLS" /\ policy["R"] = "DTLS"

\* The channel has its stream.
IsSet(c) == c.stream.role # "NONE"

\* What a channel knows of itself.
ChannelOK(c) ==
    /\ c.identity = (c.state # "NONE")
    /\ c.remoteFp = IsSet(c)
    /\ IsSet(c) <=> c.state \in {"ACCEPTED", "STARTED", "OPEN", "CLOSED"}
    /\ IsSet(c) => c.ssl_role = c.stream.role
    /\ ~IsSet(c) => c.stream.sent = 0

\* What its transport t, its ICE channel i and the policies say of channel c: dtls tells
\* whether this end does DTLS, both whether both do.
EndOK(t, c, i, dtls, both) ==
    /\ ChannelOK(c)
    /\ t.identity = dtls
    /\ c.state # "NONE" => dtls
    /\ IsSet(c) => both /\ t.secure_role = c.stream.role
    /\ dtls => (i.negotiated <=> IsSet(c))
    /\ dtls /\ c.writable => c.state = "OPEN"

\* A stream that is open has seen the certificate of its peer; the client sees it first.
CertSeen(c, good) ==
    /\ c.state = "OPEN" => good
    /\ c.stream.role = "CLIENT" /\ c.stream.sent >= 3 => good

EndsOK ==
    \A p \in Endpoints :
        /\ EndOK(tr[p], ch[p], ice[p], policy[p] = "DTLS", Both)
        /\ CertSeen(ch[p], cert[Other(p)])

\* The answer that keeps the role of the stream.
AnswerRole(role) == IF role = "CLIENT" THEN "ACTIVE" ELSE "PASSIVE"

\* Where the exchange of descriptions stands.
SigOK ==
    LET o == sig.offerer
        a == Other(o)
    IN  /\ sig.phase # "failed"
        /\ sig.phase = "refused" => policy["L"] # policy["R"]
        /\ sig.phase \in {"offered", "received", "answered"} =>
             tr[o].local = CreateOffer(o) /\ (policy[o] = "DTLS" => ch[o].identity)
        /\ sig.phase \in {"received", "answered"} =>
             tr[a].remote = tr[o].local /\ (policy[a] = "DTLS" => Both)
        /\ sig.phase = "answered" =>
             /\ tr[a].local.crypto = policy[a]
             /\ Both => IsSet(ch[a]) /\ tr[a].local.role = AnswerRole(ch[a].stream.role)
        /\ Both /\ sig.phase # "answered" => (IsSet(ch[o]) <=> IsSet(ch[a]))

\* The inductive invariant.
DtlsInv == Typed /\ EndsOK /\ SigOK /\ RolesAreOpposite

-----------------------------------------------------------------------------
(* Lemmas about the operators.                                             *)

\* There are two endpoints.
LEMMA OtherFacts ==
    ASSUME NEW p \in Endpoints
    PROVE  /\ Other(p) \in Endpoints /\ Other(p) # p /\ Other(Other(p)) = p
           /\ \A q \in Endpoints : q = p \/ q = Other(p)
           /\ Both <=> policy[p] = "DTLS" /\ policy[Other(p)] = "DTLS"
  BY DEF Endpoints, Other, Both

\* RolesAreOpposite, seen from one end.
LEMMA OppositeFrom ==
    ASSUME NEW p \in Endpoints
    PROVE  RolesAreOpposite <=>
             (IsSet(ch[p]) /\ IsSet(ch[Other(p)]) => ch[p].stream.role # ch[Other(p)].stream.role)
  BY DEF RolesAreOpposite, IsSet, Endpoints, Other

\* The parts of a result.
LEMMA ResultFacts == \A c, ok : Result(c, ok).c = c /\ Result(c, ok).ok = ok
  BY DEF Result

\* The fingerprint is applied to a channel that has taken the role.
LEMMA ApplyAfterRole ==
    ASSUME NEW c, NEW d, NEW role, NEW fp, SetSslRole(c, role) = Result(d, TRUE)
    PROVE  ApplyNegotiatedTransportDescription(c, role, fp) = SetRemoteFingerprint(d, fp)
  BY ResultFacts DEF ApplyNegotiatedTransportDescription

\* A channel that has no identity takes a negotiation without DTLS.
LEMMA ApplyPlain ==
    ASSUME NEW c \in Channel, NEW role \in SslRole, c.state = "NONE"
    PROVE  ApplyNegotiatedTransportDescription(c, role, FALSE)
             = Result([c EXCEPT !.ssl_role = role], TRUE)
  <1> DEFINE d == [c EXCEPT !.ssl_role = role]
  <1>1. SetSslRole(c, role) = Result(d, TRUE)
    BY DEF SetSslRole
  <1>2. d \in Channel /\ d.state = "NONE"
    BY DEF Channel
  <1> HIDE DEF d
  <1>3. [d EXCEPT !.state = "NONE"] = d
    BY <1>2 DEF Channel
  <1>4. SetRemoteFingerprint(d, FALSE) = Result(d, TRUE)
    BY <1>2, <1>3 DEF SetRemoteFingerprint
  <1> QED
    BY <1>1, <1>4, ApplyAfterRole DEF d

\* A channel with an identity sets up its stream, with the role it is told.
LEMMA ApplyFirst ==
    ASSUME NEW c \in Channel, ChannelOK(c), NEW role \in SslRole, c.state = "OFFERED"
    PROVE  ApplyNegotiatedTransportDescription(c, role, TRUE)
             = Result([c EXCEPT !.ssl_role = role, !.stream = [role |-> role, sent |-> 0],
                                !.remoteFp = TRUE, !.state = "ACCEPTED"], TRUE)
  <1> DEFINE d == [c EXCEPT !.ssl_role = role]
  <1>1. SetSslRole(c, role) = Result(d, TRUE)
    BY DEF SetSslRole
  <1>2. d \in Channel /\ d.state = "OFFERED" /\ d.ssl_role = role /\ ~d.remoteFp
    BY DEF Channel, ChannelOK, IsSet
  <1>3. SetRemoteFingerprint(d, TRUE)
          = Result([SetupDtls(d) EXCEPT !.remoteFp = TRUE, !.state = "ACCEPTED"], TRUE)
    <2> HIDE DEF d
    <2> QED
      BY <1>2 DEF SetRemoteFingerprint
  <1> DEFINE e == [SetupDtls(d) EXCEPT !.remoteFp = TRUE, !.state = "ACCEPTED"]
  <1>4. e = [c EXCEPT !.ssl_role = role, !.stream = [role |-> role, sent |-> 0],
                      !.remoteFp = TRUE, !.state = "ACCEPTED"]
    BY DEF SetupDtls, Channel
  <1>5. SetRemoteFingerprint(d, TRUE) = Result(e, TRUE)
    BY <1>3
  <1> HIDE DEF d, e
  <1>6. ApplyNegotiatedTransportDescription(c, role, TRUE) = Result(e, TRUE)
    BY <1>1, <1>5, ApplyAfterRole
  <1> QED
    BY <1>4, <1>6

\* A channel that has its stream takes a negotiation of the same role, and stays as it is.
LEMMA ApplyAgain ==
    ASSUME NEW c \in Channel, ChannelOK(c), IsSet(c), NEW role \in SslRole,
           role = c.stream.role
    PROVE  ApplyNegotiatedTransportDescription(c, role, TRUE) = Result(c, TRUE)
  <1>1. c.ssl_role = role /\ c.state # "NONE" /\ c.remoteFp
    BY DEF ChannelOK, IsSet
  <1>2. [c EXCEPT !.ssl_role = role] = c
    BY <1>1 DEF Channel
  <1>3. SetSslRole(c, role) = Result(c, TRUE)
    BY <1>1, <1>2 DEF SetSslRole
  <1>4. SetRemoteFingerprint(c, TRUE) = Result(c, TRUE)
    BY <1>1 DEF SetRemoteFingerprint
  <1> QED
    BY <1>3, <1>4, ApplyAfterRole

\* SetLocalIdentity is not refused: an end does DTLS from the start or never.
LEMMA IdentityIsTaken ==
    ASSUME NEW t, NEW c \in Channel, NEW i, NEW dtls \in BOOLEAN, NEW both,
           EndOK(t, c, i, dtls, both)
    PROVE  LET r == SetLocalIdentity(c, dtls)
           IN  /\ r.ok /\ r.c \in Channel
               /\ EndOK(t, r.c, i, dtls, both)
               /\ r.c.stream = c.stream
               /\ r.c.state = IF c.state = "NONE" /\ dtls THEN "OFFERED" ELSE c.state
  <1>1. CASE c.state # "NONE"
    <2>1. dtls = TRUE /\ c.identity = TRUE
      BY <1>1 DEF EndOK, ChannelOK
    <2>2. SetLocalIdentity(c, dtls) = Result(c, TRUE)
      BY <1>1, <2>1 DEF SetLocalIdentity
    <2> QED
      BY <1>1, <2>2, ResultFacts
  <1>2. CASE c.state = "NONE" /\ ~dtls
    <2>2. SetLocalIdentity(c, dtls) = Result(c, TRUE)
      BY <1>2 DEF SetLocalIdentity
    <2> QED
      BY <1>2, <2>2, ResultFacts
  <1>3. CASE c.state = "NONE" /\ dtls
    <2> DEFINE d == [c EXCEPT !.identity = TRUE, !.state = "OFFERED"]
    <2>1. SetLocalIdentity(c, dtls) = Result(d, TRUE)
      BY <1>3 DEF SetLocalIdentity
    <2>2. /\ d \in Channel /\ d.state = "OFFERED" /\ d.identity = TRUE /\ d.stream = c.stream
          /\ d.remoteFp = c.remoteFp /\ d.ssl_role = c.ssl_role /\ d.writable = c.writable
      BY DEF Channel, States
    <2> HIDE DEF d
    <2>3. EndOK(t, d, i, dtls, both)
      BY <1>3, <2>2 DEF EndOK, ChannelOK, IsSet
    <2>4. SetLocalIdentity(c, dtls).c = d /\ SetLocalIdentity(c, dtls).ok
      BY <2>1, ResultFacts
    <2> QED
      BY <1>3, <2>2, <2>3, <2>4
  <1> QED
    BY <1>1, <1>2, <1>3

-----------------------------------------------------------------------------
(* The handshake.                                                          *)

\* A step of the handshake at p, which keeps the roles of the streams.
LEMMA HandshakeStep ==
    ASSUME DtlsInv, NEW p \in Endpoints, NEW c \in Channel, NEW i \in IceChannel,
           ch' = [ch EXCEPT ![p] = c], ice' = [ice EXCEPT ![p] = i],
           UNCHANGED <<tr, policy, sig, cert>>, faults' \in 0 .. MaxFaults,
           c.stream.role = ch[p].stream.role, c.identity = ch[p].identity,
           EndOK(tr[p], c, i, policy[p] = "DTLS", Both), CertSeen(c, cert[Other(p)])
    PROVE  DtlsInv'
  <1>1. Typed'
    BY DEF DtlsInv, Typed
  <1>2. \A q \in Endpoints :
            /\ ch'[q] = IF q = p THEN c ELSE ch[q]
            /\ ice'[q] = IF q = p THEN i ELSE ice[q]
    BY DEF DtlsInv, Typed
  <1>3. Both' <=> Both
    BY DEF Both
  <1>4. EndsOK'
    <2> SUFFICES ASSUME NEW q \in Endpoints
                 PROVE  /\ EndOK(tr[q], ch'[q], ice'[q], policy[q] = "DTLS", Both)
                        /\ CertSeen(ch'[q], cert[Other(q)])
      BY <1>3 DEF EndsOK, EndOK
    <2>1. CASE q = p
      BY <1>2, <2>1
    <2>2. CASE q # p
      BY <1>2, <2>2 DEF DtlsInv, EndsOK
    <2> QED
      BY <2>1, <2>2
  <1>5. \A q \in Endpoints :
            ch'[q].stream.role = ch[q].stream.role /\ ch'[q].identity = ch[q].identity
    BY <1>2
  <1>6. SigOK'
    <2>1. sig.offerer \in Endpoints /\ Other(sig.offerer) \in Endpoints
      BY OtherFacts DEF DtlsInv, Typed, Signaling
    <2> QED
      BY <1>3, <1>5, <2>1 DEF DtlsInv, SigOK, IsSet, CreateOffer
  <1>7. RolesAreOpposite'
    BY <1>5 DEF DtlsInv, RolesAreOpposite, Endpoints
  <1> QED
    BY <1>1, <1>4, <1>6, <1>7 DEF DtlsInv

\* A step of the packets alone.
LEMMA PacketStep ==
    ASSUME DtlsInv, UNCHANGED <<tr, ch, ice, policy, sig, cert>>, faults' \in 0 .. MaxFaults
    PROVE  DtlsInv'
  <1>1. Typed'
    BY DEF DtlsInv, Typed
  <1>2. EndsOK' /\ SigOK'
    BY DEF DtlsInv, EndsOK, SigOK, Both, CreateOffer
  <1>3. RolesAreOpposite'
    BY DEF DtlsInv, RolesAreOpposite
  <1> QED
    BY <1>1, <1>2, <1>3 DEF DtlsInv

\* What the invariant says of one end.
LEMMA EndFacts ==
    ASSUME DtlsInv, NEW p \in Endpoints
    PROVE  /\ ch[p] \in Channel /\ ice[p] \in IceChannel /\ tr[p] \in Transport
           /\ EndOK(tr[p], ch[p], ice[p], policy[p] = "DTLS", Both)
           /\ CertSeen(ch[p], cert[Other(p)])
           /\ ch = [ch EXCEPT ![p] = ch[p]] /\ ice = [ice EXCEPT ![p] = ice[p]]
  BY DEF DtlsInv, Typed, EndsOK

\* The ICE channel becomes writable, or stops being so.
LEMMA OnWritableStateKeeps ==
    ASSUME DtlsInv, NEW p \in Endpoints, NEW value \in BOOLEAN, OnWritableState(p, value)
    PROVE  DtlsInv'
  <1> DEFINE i == [ice[p] EXCEPT !.writable = value]
  <1>1. /\ i \in IceChannel /\ i.negotiated = ice[p].negotiated
        /\ ice' = [ice EXCEPT ![p] = i]
    BY EndFacts DEF OnWritableState, IceChannel
  <1>2. faults' \in 0 .. MaxFaults
    <2>1. faults \in 0 .. MaxFaults
      BY DEF DtlsInv, Typed
    <2>2. faults' = faults \/ (faults < MaxFaults /\ faults' = faults + 1)
      BY DEF OnWritableState
    <2> QED
      BY <2>1, <2>2, DtlsConstantsOK
  <1>3. UNCHANGED <<tr, policy, sig, cert>> /\ ice[p].negotiated
    BY DEF OnWritableState
  <1> HIDE DEF i
  <1>4. CASE ch[p].state \in {"NONE", "OPEN"} /\ ch' = [ch EXCEPT ![p].writable = value]
    <2> DEFINE c == [ch[p] EXCEPT !.writable = value]
    <2>1. /\ c \in Channel /\ c.stream = ch[p].stream /\ c.state = ch[p].state
          /\ c.identity = ch[p].identity /\ c.remoteFp = ch[p].remoteFp
          /\ c.ssl_role = ch[p].ssl_role
      BY EndFacts DEF Channel
    <2>2. ch' = [ch EXCEPT ![p] = c]
      BY <1>4
    <2> HIDE DEF c
    <2>3. policy[p] = "DTLS" => ch[p].state = "OPEN"
      BY <1>3, <1>4, EndFacts DEF EndOK, ChannelOK
    <2>4. EndOK(tr[p], c, i, policy[p] = "DTLS", Both)
      BY <1>1, <2>1, <2>3, EndFacts DEF EndOK, ChannelOK, IsSet
    <2>5. CertSeen(c, cert[Other(p)])
      BY <2>1, EndFacts DEF CertSeen
    <2> QED
      BY <1>1, <1>2, <1>3, <2>1, <2>2, <2>4, <2>5, HandshakeStep
  <1>5. CASE /\ ch[p].state = "ACCEPTED"
             /\ ch' = [ch EXCEPT ![p].state = "STARTED",
                                 ![p].stream.sent = IF ch[p].stream.role = "CLIENT" THEN 1 ELSE 0]
    <2> DEFINE n == IF ch[p].stream.role = "CLIENT" THEN 1 ELSE 0
               st == [ch[p].stream EXCEPT !.sent = n]
               c == [ch[p] EXCEPT !.state = "STARTED", !.stream = st]
    <2>1. n \in 0 .. 5 /\ ~(n >= 3)
      OBVIOUS
    <2>2. ch' = [ch EXCEPT ![p] = c]
      BY <1>5
    <2> HIDE DEF n
    <2>3. st \in Stream /\ st.role = ch[p].stream.role /\ st.sent = n
      BY <2>1, EndFacts DEF Channel, Stream
    <2> HIDE DEF st
    <2>4. /\ c \in Channel /\ c.stream = st /\ c.state = "STARTED"
          /\ c.identity = ch[p].identity /\ c.remoteFp = ch[p].remoteFp
          /\ c.ssl_role = ch[p].ssl_role /\ c.writable = ch[p].writable
      BY <2>3, EndFacts DEF Channel, States
    <2> HIDE DEF c
    <2>5. EndOK(tr[p], c, i, policy[p] = "DTLS", Both)
      BY <1>1, <1>5, <2>3, <2>4, EndFacts DEF EndOK, ChannelOK, IsSet
    <2>6. CertSeen(c, cert[Other(p)])
      BY <2>1, <2>3, <2>4 DEF CertSeen
    <2> QED
      BY <1>1, <1>2, <1>3, <2>2, <2>3, <2>4, <2>5, <2>6, HandshakeStep
  <1>6. CASE UNCHANGED ch
    <2>1. EndOK(tr[p], ch[p], i, policy[p] = "DTLS", Both)
      BY <1>1, EndFacts DEF EndOK
    <2>2. ch' = [ch EXCEPT ![p] = ch[p]]
      BY <1>6, EndFacts
    <2> QED
      BY <1>1, <1>2, <1>3, <2>1, <2>2, EndFacts, HandshakeStep
  <1>7. \/ ch[p].state \in {"NONE", "OPEN"} /\ ch' = [ch EXCEPT ![p].writable = value]
        \/ /\ ch[p].state = "ACCEPTED"
           /\ ch' = [ch EXCEPT ![p].state = "STARTED",
                               ![p].stream.sent = IF ch[p].stream.role = "CLIENT" THEN 1 ELSE 0]
        \/ UNCHANGED ch
    BY DEF OnWritableState
  <1> QED
    BY <1>4, <1>5, <1>6, <1>7

\* The ICE channel becomes readable.
LEMMA OnReadableStateKeeps ==
    ASSUME DtlsInv, NEW p \in Endpoints, OnReadableState(p)
    PROVE  DtlsInv'
  <1> DEFINE i == [ice[p] EXCEPT !.readable = TRUE]
             c == IF ch[p].state \in {"NONE", "OPEN"} THEN [ch[p] EXCEPT !.readable = TRUE] ELSE ch[p]
  <1>1. /\ i \in IceChannel /\ i.negotiated = ice[p].negotiated
        /\ ice' = [ice EXCEPT ![p] = i]
    BY EndFacts DEF OnReadableState, IceChannel
  <1>2. ch' = [ch EXCEPT ![p] = c]
    BY EndFacts DEF OnReadableState
  <1>3. /\ c \in Channel /\ c.stream = ch[p].stream /\ c.state = ch[p].state
        /\ c.identity = ch[p].identity /\ c.remoteFp = ch[p].remoteFp
        /\ c.ssl_role = ch[p].ssl_role /\ c.writable = ch[p].writable
    BY EndFacts DEF Channel
  <1> HIDE DEF c, i
  <1>4. EndOK(tr[p], c, i, policy[p] = "DTLS", Both)
    BY <1>1, <1>3, EndFacts DEF EndOK, ChannelOK, IsSet
  <1>5. CertSeen(c, cert[Other(p)])
    BY <1>3, EndFacts DEF CertSeen
  <1>6. UNCHANGED <<tr, policy, sig, cert>> /\ faults' \in 0 .. MaxFaults
    BY DEF OnReadableState, DtlsInv, Typed
  <1> QED
    BY <1>1, <1>2, <1>3, <1>4, <1>5, <1>6, HandshakeStep

\* Channel c whose stream has read flight k, which it waited for.
Advanced(c, k) ==
    IF k \in {3, 4} THEN Opened([c EXCEPT !.stream.sent = k + 1])
                    ELSE [c EXCEPT !.stream.sent = k + 1]

\* It opens only after it has seen the certificate of its peer.
LEMMA AdvanceKeeps ==
    ASSUME NEW c \in Channel, NEW t, NEW i, NEW dtls, NEW both, NEW good \in BOOLEAN,
           EndOK(t, c, i, dtls, both), CertSeen(c, good),
           c.state \in {"STARTED", "OPEN"}, NEW k \in 1 .. 4, k = c.stream.sent + 1,
           k \in {2, 4} <=> c.stream.role = "CLIENT", k \in {2, 3} => good
    PROVE  LET d == Advanced(c, k)
           IN  /\ d \in Channel /\ d.stream.role = c.stream.role /\ d.identity = c.identity
               /\ EndOK(t, d, i, dtls, both) /\ CertSeen(d, good)
  <1> DEFINE n == k + 1
             st == [c.stream EXCEPT !.sent = n]
             next == [c EXCEPT !.stream.sent = n]
             d == IF k \in {3, 4} THEN Opened(next) ELSE next
  <1>1. c.stream \in Stream
    BY DEF Channel
  <1>2. n \in 0 .. 5
    OBVIOUS
  <1>3. st \in Stream /\ st.role = c.stream.role /\ st.sent = n
    <2> HIDE DEF n
    <2> QED
      BY <1>1, <1>2 DEF Stream
  <1>4. /\ next \in Channel /\ next.stream = st /\ next.state = c.state
        /\ next.identity = c.identity /\ next.remoteFp = c.remoteFp
        /\ next.ssl_role = c.ssl_role /\ next.writable = c.writable
    <2> HIDE DEF n
    <2>1. next = [c EXCEPT !.stream = st]
      BY DEF Channel
    <2> HIDE DEF st, next
    <2> QED
      BY <1>3, <2>1 DEF Channel
  <1> HIDE DEF next, st
  <1>5. /\ d \in Channel /\ d.stream = st
        /\ d.identity = c.identity /\ d.remoteFp = c.remoteFp /\ d.ssl_role = c.ssl_role
        /\ d.state = IF k \in {3, 4} THEN "OPEN" ELSE c.state
        /\ d.writable = IF k \in {3, 4} THEN TRUE ELSE c.writable
    BY <1>4 DEF Opened, Channel, States
  <1> HIDE DEF d
  <1>6. EndOK(t, d, i, dtls, both)
    BY <1>3, <1>5 DEF EndOK, ChannelOK, IsSet
  <1>7. k = 4 => good
    <2>1. c.stream.sent \in 0 .. 5
      BY <1>1 DEF Stream
    <2>2. k = 4 => c.stream.sent >= 3 /\ c.stream.role = "CLIENT"
      BY <2>1
    <2> QED
      BY <2>2 DEF CertSeen
  <1>8. CertSeen(d, good)
    BY <1>3, <1>5, <1>7 DEF CertSeen
  <1>9. d = Advanced(c, k)
    BY DEF d, next, Advanced
  <1> QED
    BY <1>3, <1>5, <1>6, <1>8, <1>9

\* A handshake that ends in an alert.
LEMMA ClosedKeeps ==
    ASSUME NEW c \in Channel, NEW t, NEW i, NEW dtls, NEW both, NEW good,
           EndOK(t, c, i, dtls, both), CertSeen(c, good), c.state \in {"STARTED", "OPEN"}
    PROVE  LET d == Closed(c)
           IN  /\ d \in Channel /\ d.stream.role = c.stream.role /\ d.identity = c.identity
               /\ EndOK(t, d, i, dtls, both) /\ CertSeen(d, good)
  <1> DEFINE d == Closed(c)
  <1>1. /\ d \in Channel /\ d.stream = c.stream
        /\ d.identity = c.identity /\ d.remoteFp = c.remoteFp /\ d.ssl_role = c.ssl_role
        /\ d.state = "CLOSED" /\ d.writable = FALSE
    BY DEF Closed, Channel, States
  <1> HIDE DEF d
  <1>2. EndOK(t, d, i, dtls, both) /\ CertSeen(d, good)
    BY <1>1 DEF EndOK, ChannelOK, IsSet, CertSeen
  <1> QED
    BY <1>1, <1>2 DEF d

\* A packet is read.
LEMMA OnReadPacketKeeps ==
    ASSUME DtlsInv, NEW p \in Endpoints, NEW m \in net, OnReadPacket(p, m)
    PROVE  DtlsInv'
  <1>1. UNCHANGED <<tr, ice, policy, sig, cert>> /\ faults' \in 0 .. MaxFaults
    BY DEF OnReadPacket, DtlsInv, Typed
  <1>2. ASSUME NEW c \in Channel, ch' = [ch EXCEPT ![p] = c], c.stream.role = ch[p].stream.role,
               c.identity = ch[p].identity,
               EndOK(tr[p], c, ice[p], policy[p] = "DTLS", Both), CertSeen(c, cert[Other(p)])
        PROVE  DtlsInv'
    <2>1. ice' = [ice EXCEPT ![p] = ice[p]]
      BY <1>1, EndFacts
    <2> QED
      BY <1>1, <1>2, <2>1, EndFacts, HandshakeStep
  <1>3. CASE UNCHANGED ch
    BY <1>1, <1>3, PacketStep
  <1>4. CASE ch[p].state \in {"STARTED", "OPEN"} /\ ch' = [ch EXCEPT ![p] = Closed(ch[p])]
    <2> DEFINE c == Closed(ch[p])
    <2>1. /\ c \in Channel /\ c.stream.role = ch[p].stream.role /\ c.identity = ch[p].identity
          /\ EndOK(tr[p], c, ice[p], policy[p] = "DTLS", Both) /\ CertSeen(c, cert[Other(p)])
      BY <1>4, EndFacts, ClosedKeeps
    <2> QED
      BY <1>2, <1>4, <2>1
  <1>5. ASSUME ch[p].state \in {"STARTED", "OPEN"}, NEW k \in DOMAIN Flights,
               Handshake(p, k, net \ {m})
        PROVE  DtlsInv'
    <2>1. k \in 1 .. 4
      BY <1>5 DEF Flights
    <2> DEFINE d == Advanced(ch[p], k)
               expected == k = ch[p].stream.sent + 1 /\ (k \in {2, 4} <=> ch[p].stream.role = "CLIENT")
               refused == k \in {2, 3} /\ ~cert[Other(p)]
    <2>2. \/ expected /\ ~refused /\ ch' = [ch EXCEPT ![p] = d]
          \/ ch' = [ch EXCEPT ![p] = Closed(ch[p])]
          \/ UNCHANGED ch
      BY <1>5 DEF Handshake, Advanced
    <2>3. CASE expected /\ ~refused /\ ch' = [ch EXCEPT ![p] = d]
      <3>1. cert[Other(p)] \in BOOLEAN
        BY OtherFacts DEF DtlsInv, Typed
      <3>2. /\ d \in Channel /\ d.stream.role = ch[p].stream.role /\ d.identity = ch[p].identity
            /\ EndOK(tr[p], d, ice[p], policy[p] = "DTLS", Both) /\ CertSeen(d, cert[Other(p)])
        <4>1. k = ch[p].stream.sent + 1 /\ (k \in {2, 4} <=> ch[p].stream.role = "CLIENT")
          BY <2>3
        <4>2. k \in {2, 3} => cert[Other(p)]
          BY <2>3
        <4>3. ch[p].state \in {"STARTED", "OPEN"}
          BY <1>5
        <4> QED
          BY <2>1, <3>1, <4>1, <4>2, <4>3, EndFacts, AdvanceKeeps
      <3> HIDE DEF d
      <3> QED
        BY <1>2, <2>3, <3>2
    <2> QED
      BY <1>3, <1>4, <1>5, <2>2, <2>3
  <1>6. \/ UNCHANGED ch
        \/ /\ ch[p].state \in {"STARTED", "OPEN"}
           /\ \E k \in DOMAIN Flights : Handshake(p, k, net \ {m})
        \/ ch[p].state \in {"STARTED", "OPEN"} /\ ch' = [ch EXCEPT ![p] = Closed(ch[p])]
    BY DEF OnReadPacket
  <1> QED
    BY <1>3, <1>4, <1>5, <1>6

\* The timer sends a flight again.
LEMMA RetransmitKeeps ==
    ASSUME DtlsInv, NEW p \in Endpoints, Retransmit(p)
    PROVE  DtlsInv'
  <1>1. UNCHANGED <<tr, ch, ice, policy, sig, cert>> /\ faults' \in 0 .. MaxFaults
    BY DEF Retransmit, DtlsInv, Typed
  <1> QED
    BY <1>1, PacketStep

\* A packet is lost.
LEMMA LoseKeeps ==
    ASSUME DtlsInv, NEW m \in net, Lose(m)
    PROVE  DtlsInv'
  <1>1. UNCHANGED <<tr, ch, ice, policy, sig, cert>>
    BY DEF Lose
  <1>2. faults' \in 0 .. MaxFaults
    <2>1. faults \in 0 .. MaxFaults
      BY DEF DtlsInv, Typed
    <2>2. faults < MaxFaults /\ faults' = faults + 1
      BY DEF Lose
    <2> QED
      BY <2>1, <2>2, DtlsConstantsOK
  <1> QED
    BY <1>1, <1>2, PacketStep

-----------------------------------------------------------------------------
(* Negotiation.                                                            *)

\* What negotiation n makes of transport t and channel c without DTLS.
Unchanged(n, t, c, j, both, good) ==
    /\ n.t = t /\ n.r.ok /\ n.r.c \in Channel
    /\ EndOK(t, n.r.c, j, FALSE, both) /\ CertSeen(n.r.c, good)
    /\ n.r.c.stream = c.stream

\* Without DTLS at this end a negotiation changes nothing but ssl_role_.
LEMMA NegotiatePlain ==
    ASSUME NEW t \in Transport, NEW c \in Channel, NEW i, NEW j, NEW both, NEW good, NEW lr,
           EndOK(t, c, i, FALSE, both), CertSeen(c, good), t.local.crypto # "DTLS"
    PROVE  Unchanged(Negotiate(t, c, lr), t, c, j, both, good)
  <1> DEFINE d == [c EXCEPT !.ssl_role = t.secure_role]
  <1>1. c.state = "NONE" /\ ~Fp(t.local) /\ t.secure_role \in SslRole
    BY DEF EndOK, Fp, Transport
  <1>2. [t EXCEPT !.secure_role = t.secure_role] = t
    BY DEF Transport
  <1>3. ApplyNegotiatedTransportDescription(c, t.secure_role, FALSE) = Result(d, TRUE)
    BY <1>1, ApplyPlain
  <1>4. Negotiate(t, c, lr) = [t |-> t, r |-> Result(d, TRUE)]
    <2>1. (Fp(t.local) /\ Fp(t.remote)) = FALSE
      BY <1>1
    <2> QED
      BY <1>1, <1>2, <1>3, <2>1 DEF Negotiate
  <1>5. /\ d \in Channel /\ d.stream = c.stream /\ d.state = c.state
        /\ d.identity = c.identity /\ d.remoteFp = c.remoteFp /\ d.writable = c.writable
    BY <1>1 DEF Channel
  <1> HIDE DEF d
  <1>6. EndOK(t, d, j, FALSE, both) /\ CertSeen(d, good)
    BY <1>1, <1>5 DEF EndOK, ChannelOK, IsSet, CertSeen
  <1>7. Negotiate(t, c, lr).t = t /\ Negotiate(t, c, lr).r = Result(d, TRUE)
    BY <1>4
  <1>8. Result(d, TRUE).c = d /\ Result(d, TRUE).ok = TRUE
    BY ResultFacts
  <1> QED
    BY <1>5, <1>6, <1>7, <1>8 DEF Unchanged

\* What negotiation n makes of transport t with DTLS at both ends: a stream of the role.
StreamIs(n, t, role, j, good) ==
    /\ n.t = [t EXCEPT !.secure_role = role] /\ n.r.ok /\ n.r.c \in Channel
    /\ EndOK(n.t, n.r.c, j, TRUE, TRUE) /\ CertSeen(n.r.c, good)
    /\ n.r.c.stream.role = role

\* With DTLS at both ends the channel sets its stream up, once, and a negotiation of the same
\* role is not refused later.
LEMMA NegotiateDtls ==
    ASSUME NEW t \in Transport, NEW c \in Channel, NEW i, NEW j, j.negotiated, NEW good, NEW lr,
           NEW role \in SslRole,
           EndOK(t, c, i, TRUE, TRUE), CertSeen(c, good), c.state # "NONE",
           Fp(t.local), Fp(t.remote), RolesAreLegal(t, lr),
           role = (IF IsRemoteServer(t, lr) THEN "CLIENT" ELSE "SERVER"),
           IsSet(c) => role = c.stream.role
    PROVE  StreamIs(Negotiate(t, c, lr), t, role, j, good)
  <1> DEFINE u == [t EXCEPT !.secure_role = role]
  <1>1. u \in Transport /\ u.secure_role = role /\ u.identity = t.identity
    BY DEF Transport
  <1>2. ASSUME NEW d \in Channel,
               ApplyNegotiatedTransportDescription(c, role, TRUE) = Result(d, TRUE)
        PROVE  LET n == Negotiate(t, c, lr) IN n.t = u /\ n.r.ok /\ n.r.c = d
    <2>1. (Fp(t.local) /\ Fp(t.remote)) = TRUE
      BY DEF Fp
    <2>2. Negotiate(t, c, lr) = [t |-> u, r |-> Result(d, TRUE)]
      BY <1>2, <2>1 DEF Negotiate
    <2>3. Negotiate(t, c, lr).t = u /\ Negotiate(t, c, lr).r = Result(d, TRUE)
      BY <2>2
    <2>4. Result(d, TRUE).c = d /\ Result(d, TRUE).ok = TRUE
      BY ResultFacts
    <2> QED
      BY <2>3, <2>4
  <1> HIDE DEF u
  <1>3. CASE IsSet(c)
    <2>1. ApplyNegotiatedTransportDescription(c, role, TRUE) = Result(c, TRUE)
      BY <1>3, ApplyAgain DEF EndOK
    <2>2. EndOK(u, c, j, TRUE, TRUE) /\ c.stream.role = role
      BY <1>1, <1>3 DEF EndOK
    <2> QED
      BY <1>2, <2>1, <2>2 DEF u, StreamIs
  <1>4. CASE ~IsSet(c)
    <2>1. c.state = "OFFERED"
      BY <1>4 DEF EndOK, ChannelOK, Channel, States
    <2> DEFINE st == [role |-> role, sent |-> 0]
               d == [c EXCEPT !.ssl_role = role, !.stream = st,
                              !.remoteFp = TRUE, !.state = "ACCEPTED"]
    <2>2. ApplyNegotiatedTransportDescription(c, role, TRUE) = Result(d, TRUE)
      BY <2>1, ApplyFirst DEF EndOK
    <2>3. st \in Stream /\ st.role = role /\ st.sent = 0
      BY DEF Stream
    <2> HIDE DEF st
    <2>4. /\ d \in Channel /\ d.stream = st /\ d.state = "ACCEPTED" /\ d.remoteFp = TRUE
          /\ d.identity = c.identity /\ d.ssl_role = role /\ d.writable = c.writable
      BY <2>3 DEF Channel, States
    <2> HIDE DEF d
    <2>5. role # "NONE"
      BY DEF SslRole
    <2>6. EndOK(u, d, j, TRUE, TRUE)
      BY <1>1, <2>1, <2>3, <2>4, <2>5 DEF EndOK, ChannelOK, IsSet
    <2>7. CertSeen(d, good)
      BY <2>3, <2>4 DEF CertSeen
    <2> QED
      BY <1>2, <2>2, <2>3, <2>4, <2>6, <2>7 DEF u, StreamIs
  <1> QED
    BY <1>3, <1>4

\* A step of the negotiation at p, as far as the ends are concerned: transport, channel and
\* ICE channel become t, c and i, which agree.
EndBecomes(p, t, c, i) ==
    /\ t \in Transport /\ c \in Channel /\ i \in IceChannel /\ sig' \in Signaling
    /\ tr' = [tr EXCEPT ![p] = t] /\ ch' = [ch EXCEPT ![p] = c] /\ ice' = [ice EXCEPT ![p] = i]
    /\ policy' = policy /\ cert' = cert /\ faults' = faults
    /\ EndOK(t, c, i, policy[p] = "DTLS", Both) /\ CertSeen(c, cert[Other(p)])

\* After it the ends are in order.
LEMMA EndStep ==
    ASSUME DtlsInv, NEW p \in Endpoints, NEW t, NEW c, NEW i, EndBecomes(p, t, c, i)
    PROVE  /\ Typed' /\ EndsOK' /\ (Both' <=> Both) /\ policy' = policy
           /\ tr'[p] = t /\ ch'[p] = c
           /\ tr'[Other(p)] = tr[Other(p)] /\ ch'[Other(p)] = ch[Other(p)]
  <1>0. /\ t \in Transport /\ c \in Channel /\ i \in IceChannel /\ sig' \in Signaling
        /\ tr' = [tr EXCEPT ![p] = t] /\ ch' = [ch EXCEPT ![p] = c] /\ ice' = [ice EXCEPT ![p] = i]
        /\ policy' = policy /\ cert' = cert /\ faults' = faults
        /\ EndOK(t, c, i, policy[p] = "DTLS", Both) /\ CertSeen(c, cert[Other(p)])
    BY DEF EndBecomes
  <1>1. Typed'
    BY <1>0 DEF DtlsInv, Typed
  <1>2. \A q \in Endpoints :
            /\ tr'[q] = IF q = p THEN t ELSE tr[q]
            /\ ch'[q] = IF q = p THEN c ELSE ch[q]
            /\ ice'[q] = IF q = p THEN i ELSE ice[q]
    BY <1>0 DEF DtlsInv, Typed
  <1>3. Both' <=> Both
    BY <1>0 DEF Both
  <1>4. EndsOK'
    <2> SUFFICES ASSUME NEW q \in Endpoints
                 PROVE  /\ EndOK(tr'[q], ch'[q], ice'[q], policy[q] = "DTLS", Both)
                        /\ CertSeen(ch'[q], cert[Other(q)])
      BY <1>0, <1>3 DEF EndsOK, EndOK
    <2>1. CASE q = p
      BY <1>0, <1>2, <2>1
    <2>2. CASE q # p
      BY <1>2, <2>2 DEF DtlsInv, EndsOK
    <2> QED
      BY <2>1, <2>2
  <1> QED
    BY <1>0, <1>1, <1>2, <1>3, <1>4, OtherFacts

\* The descriptions an end makes.
LEMMA DescriptionFacts ==
    ASSUME DtlsInv, NEW p \in Endpoints
    PROVE  /\ CreateOffer(p) \in Description /\ CreateAnswer(p) \in Description
           /\ CreateOffer(p).crypto = policy[p] /\ CreateAnswer(p).crypto = policy[p]
           /\ policy[p] = "DTLS" => CreateOffer(p).role = "ACTPASS"
  <1>1. policy[p] \in Crypto
    BY DEF DtlsInv, Typed
  <1> QED
    BY <1>1 DEF CreateOffer, CreateAnswer, Description

\* WithLocal keeps the identity of an end that describes what it does.
LEMMA WithLocalKeeps ==
    ASSUME DtlsInv, NEW p \in Endpoints, NEW desc \in Description, desc.crypto = policy[p]
    PROVE  LET t == WithLocal(tr[p], desc)
           IN  /\ t \in Transport /\ t.local = desc /\ t.remote = tr[p].remote
               /\ t.secure_role = tr[p].secure_role /\ t.identity = (policy[p] = "DTLS")
               /\ EndOK(t, ch[p], ice[p], policy[p] = "DTLS", Both)
  <1> DEFINE b == tr[p].identity /\ Fp(desc)
             t == [tr[p] EXCEPT !.local = desc, !.identity = b]
  <1>1. tr[p] \in Transport /\ tr[p].identity = (policy[p] = "DTLS")
    BY EndFacts DEF EndOK
  <1>2. b = (policy[p] = "DTLS")
    BY <1>1 DEF Fp
  <1>3. WithLocal(tr[p], desc) = t
    BY DEF WithLocal
  <1> HIDE DEF b
  <1>4. /\ t \in Transport /\ t.local = desc /\ t.remote = tr[p].remote
        /\ t.secure_role = tr[p].secure_role /\ t.identity = b
    BY <1>1, <1>2 DEF Transport
  <1> HIDE DEF t
  <1>5. EndOK(t, ch[p], ice[p], policy[p] = "DTLS", Both)
    BY <1>2, <1>4, EndFacts DEF EndOK
  <1> QED
    BY <1>2, <1>3, <1>4, <1>5

\* An offer.
LEMMA SetLocalOfferKeeps ==
    ASSUME DtlsInv, NEW p \in Endpoints, SetLocalOffer(p)
    PROVE  DtlsInv'
  <1> DEFINE t == WithLocal(tr[p], CreateOffer(p))
             r == SetLocalIdentity(ch[p], policy[p] = "DTLS")
             exchange == [phase |-> "offered", offerer |-> p, final |-> FALSE,
                          offers |-> sig.offers + 1]
  <1>0. sig \in Signaling /\ sig.phase = "stable" /\ sig.offerer \in Endpoints
    BY DEF DtlsInv, Typed, SetLocalOffer, Signaling
  <1>1. /\ t \in Transport /\ t.local = CreateOffer(p) /\ t.identity = (policy[p] = "DTLS")
        /\ EndOK(t, ch[p], ice[p], policy[p] = "DTLS", Both)
    BY DescriptionFacts, WithLocalKeeps
  <1>2. /\ r.ok /\ r.c \in Channel
        /\ EndOK(t, r.c, ice[p], policy[p] = "DTLS", Both)
        /\ r.c.stream = ch[p].stream
        /\ r.c.state = IF ch[p].state = "NONE" /\ policy[p] = "DTLS" THEN "OFFERED"
                                                                    ELSE ch[p].state
    <2> HIDE DEF t
    <2> QED
      BY <1>1, EndFacts, IdentityIsTaken, ZenonT(60)
  <1>3. CertSeen(r.c, cert[Other(p)])
    BY <1>2, EndFacts DEF CertSeen
  <1>4. /\ tr' = [tr EXCEPT ![p] = t] /\ ch' = [ch EXCEPT ![p] = r.c] /\ sig' = exchange
        /\ ice' = [ice EXCEPT ![p] = ice[p]] /\ UNCHANGED <<policy, cert, faults>>
    <2>1. Applied(p, t, SetLocalIdentity(ch[p], t.identity), exchange)
      BY DEF SetLocalOffer
    <2>2. Applied(p, t, r, exchange)
      BY <1>1, <2>1
    <2>3. UNCHANGED <<ice, policy, cert, faults>>
      BY DEF SetLocalOffer
    <2> QED
      BY <1>2, <2>2, <2>3, EndFacts DEF Applied
  <1>5. exchange \in Signaling
    <2>1. sig.offers \in Nat
      BY <1>0 DEF Signaling
    <2>2. sig.offers + 1 \in Nat
      BY <2>1
    <2> QED
      BY <2>2 DEF Signaling, Phases
  <1> HIDE DEF t, r, exchange
  <1>a. EndBecomes(p, t, r.c, ice[p])
    BY <1>1, <1>2, <1>3, <1>4, <1>5, EndFacts DEF EndBecomes
  <1>6. /\ Typed' /\ EndsOK' /\ (Both' <=> Both)
        /\ tr'[p] = t /\ ch'[p] = r.c
        /\ tr'[Other(p)] = tr[Other(p)] /\ ch'[Other(p)] = ch[Other(p)]
    BY <1>a, EndStep
  <1>7. \A q \in Endpoints : ch'[q].stream = ch[q].stream
    BY <1>2, <1>6, OtherFacts
  <1>8. RolesAreOpposite'
    BY <1>7 DEF DtlsInv, RolesAreOpposite, Endpoints
  <1>9. SigOK'
    <2>1. sig'.phase = "offered" /\ sig'.offerer = p
      BY <1>4 DEF exchange
    <2>2. tr'[p].local = CreateOffer(p) /\ CreateOffer(p)' = CreateOffer(p)
      BY <1>1, <1>4, <1>6 DEF CreateOffer
    <2>3. Both => (IsSet(ch[p]) <=> IsSet(ch[Other(p)]))
      BY <1>0, OtherFacts DEF DtlsInv, SigOK
    <2>4. Both' => (IsSet(ch'[p]) <=> IsSet(ch'[Other(p)]))
      BY <1>6, <1>7, <2>3, OtherFacts DEF IsSet
    <2>5. policy'[p] = "DTLS" => ch'[p].identity
      BY <1>2, <1>4, <1>6 DEF EndOK, ChannelOK
    <2> QED
      BY <2>1, <2>2, <2>4, <2>5 DEF SigOK
  <1> QED
    BY <1>6, <1>8, <1>9 DEF DtlsInv

\* An offer is received.
LEMMA SetRemoteOfferKeeps ==
    ASSUME DtlsInv, NEW p \in Endpoints, SetRemoteOffer(p)
    PROVE  DtlsInv'
  <1> PICK o \in Endpoints : o = sig.offerer
    BY DEF DtlsInv, Typed, Signaling
  <1>0. /\ sig \in Signaling /\ sig.phase = "offered" /\ o = sig.offerer /\ p = Other(o)
        /\ o # p /\ o = Other(p) /\ tr[o].local = CreateOffer(o)
        /\ policy[o] = "DTLS" => ch[o].identity
    BY OtherFacts DEF DtlsInv, Typed, SetRemoteOffer, SigOK
  <1>1. UNCHANGED <<ch, ice, policy, cert, faults>>
    BY DEF SetRemoteOffer
  <1>2. tr[o].local.crypto = policy[o] /\ tr[o].local \in Description
    BY <1>0, DescriptionFacts
  <1>3. CASE /\ VerifyCrypto(p, tr[o].local)
             /\ tr' = [tr EXCEPT ![p].remote = tr[o].local]
             /\ sig' = [sig EXCEPT !.phase = "received"]
    <2> DEFINE desc == tr[o].local
               t == [tr[p] EXCEPT !.remote = desc]
    <2>1. tr' = [tr EXCEPT ![p] = t]
      BY <1>3
    <2> HIDE DEF desc
    <2>2. /\ t \in Transport /\ t.remote = desc /\ t.identity = tr[p].identity
          /\ t.secure_role = tr[p].secure_role /\ t.local = tr[p].local
      BY <1>2, EndFacts DEF Transport, desc
    <2> HIDE DEF t
    <2>3. EndOK(t, ch[p], ice[p], policy[p] = "DTLS", Both)
      BY <2>2, EndFacts DEF EndOK
    <2>4. /\ sig' \in Signaling /\ sig'.phase = "received" /\ sig'.offerer = o
      BY <1>0, <1>3 DEF Signaling, Phases
    <2>5. ch' = [ch EXCEPT ![p] = ch[p]] /\ ice' = [ice EXCEPT ![p] = ice[p]]
      BY <1>1, EndFacts
    <2>a. EndBecomes(p, t, ch[p], ice[p])
      BY <1>1, <2>1, <2>2, <2>3, <2>4, <2>5, EndFacts DEF EndBecomes
    <2>6. Typed' /\ EndsOK' /\ (Both' <=> Both) /\ tr'[p] = t /\ tr'[o] = tr[o]
      BY <1>0, <2>a, EndStep
    <2>7. RolesAreOpposite'
      BY <1>1 DEF DtlsInv, RolesAreOpposite
    <2>8. policy[p] = "DTLS" => Both
      <3>1. policy[p] = "DTLS" => policy[o] = "DTLS"
        BY <1>2, <1>3 DEF VerifyCrypto
      <3> QED
        BY <1>0, <3>1, OtherFacts
    <2>9. SigOK'
      <3>1. tr'[o].local = CreateOffer(o) /\ CreateOffer(o)' = CreateOffer(o)
        BY <1>0, <1>1, <2>6 DEF CreateOffer
      <3>2. tr'[p].remote = tr'[o].local
        BY <1>0, <2>2, <2>6 DEF desc
      <3>3. policy'[p] = "DTLS" => Both'
        BY <1>1, <2>6, <2>8
      <3>4. Both' => (IsSet(ch'[o]) <=> IsSet(ch'[p]))
        BY <1>0, <1>1, <2>6 DEF DtlsInv, SigOK
      <3>5. policy'[o] = "DTLS" => ch'[o].identity
        BY <1>0, <1>1
      <3> QED
        BY <1>0, <2>4, <3>1, <3>2, <3>3, <3>4, <3>5 DEF SigOK
    <2> QED
      BY <2>6, <2>7, <2>9 DEF DtlsInv
  <1>4. CASE /\ ~VerifyCrypto(p, tr[o].local)
             /\ sig' = [sig EXCEPT !.phase = "refused"]
             /\ UNCHANGED tr
    <2>1. /\ sig' \in Signaling /\ sig'.phase = "refused" /\ sig'.offerer = o
      BY <1>0, <1>4 DEF Signaling, Phases
    <2>2. Typed'
      BY <1>1, <1>4, <2>1 DEF DtlsInv, Typed
    <2>3. EndsOK' /\ RolesAreOpposite' /\ (Both' <=> Both)
      BY <1>1, <1>4 DEF DtlsInv, EndsOK, RolesAreOpposite, Both
    <2>4. policy'["L"] # policy'["R"]
      BY <1>0, <1>1, <1>2, <1>4 DEF VerifyCrypto, Endpoints, Other
    <2>5. SigOK'
      BY <2>1, <2>4 DEF SigOK, Both
    <2> QED
      BY <2>2, <2>3, <2>5 DEF DtlsInv
  <1> QED
    BY <1>0, <1>3, <1>4 DEF SetRemoteOffer

\* An answer takes the role of the stream there is, or makes the answerer the client.
LEMMA SetLocalAnswerKeeps ==
    ASSUME DtlsInv, NEW p \in Endpoints, NEW action \in {"PRANSWER", "ANSWER"},
           SetLocalAnswer(p, action)
    PROVE  DtlsInv'
  <1> PICK o \in Endpoints : o = sig.offerer
    BY DEF DtlsInv, Typed, Signaling
  <1>0. /\ sig \in Signaling /\ sig.phase = "received" /\ o = sig.offerer /\ p = Other(o)
        /\ o # p /\ o = Other(p) /\ tr[o].local = CreateOffer(o) /\ tr[p].remote = tr[o].local
        /\ policy[o] = "DTLS" => ch[o].identity
        /\ policy[p] = "DTLS" => Both
        /\ Both => (IsSet(ch[o]) <=> IsSet(ch[p]))
    BY OtherFacts DEF DtlsInv, Typed, SetLocalAnswer, SigOK
  <1> DEFINE t == WithLocal(tr[p], CreateAnswer(p))
             r == SetLocalIdentity(ch[p], policy[p] = "DTLS")
             n == Negotiate(t, r.c, action)
             i == [ice[p] EXCEPT !.negotiated = TRUE]
             exchange == [sig EXCEPT !.phase = "answered", !.final = (action = "ANSWER")]
  <1>1. /\ t \in Transport /\ t.local = CreateAnswer(p) /\ t.identity = (policy[p] = "DTLS")
        /\ t.remote = tr[p].remote /\ t.secure_role = tr[p].secure_role
        /\ EndOK(t, ch[p], ice[p], policy[p] = "DTLS", Both)
    BY DescriptionFacts, WithLocalKeeps
  <1>2. /\ r.ok /\ r.c \in Channel
        /\ EndOK(t, r.c, ice[p], policy[p] = "DTLS", Both)
        /\ r.c.stream = ch[p].stream
        /\ r.c.state = IF ch[p].state = "NONE" /\ policy[p] = "DTLS" THEN "OFFERED"
                                                                    ELSE ch[p].state
    <2> HIDE DEF t, n, i, exchange
    <2>1. (policy[p] = "DTLS") \in BOOLEAN /\ ch[p] \in Channel
      BY EndFacts
    <2>2. EndOK(t, ch[p], ice[p], policy[p] = "DTLS", Both)
      BY <1>1
    <2> QED
      BY <2>1, <2>2, IdentityIsTaken, ZenonT(60)
  <1>3. CertSeen(r.c, cert[Other(p)])
    BY <1>2, EndFacts DEF CertSeen
  <1>4. Applied(p, n.t, n.r, exchange) /\ ice' = [ice EXCEPT ![p] = i]
    <2>1. SetLocalIdentity(ch[p], t.identity) = r
      BY <1>1
    <2> DEFINE q == SetLocalIdentity(ch[p], t.identity)
               m == IF q.ok THEN Negotiate(t, q.c, action) ELSE [t |-> t, r |-> q]
    <2>2. Applied(p, m.t, m.r, exchange) /\ ice' = [ice EXCEPT ![p].negotiated = TRUE]
      BY DEF SetLocalAnswer
    <2>3. m = n
      <3> HIDE DEF t, r
      <3> QED
        BY <1>2, <2>1
    <2>4. ice' = [ice EXCEPT ![p] = i]
      BY <2>2
    <2> HIDE DEF m, n, exchange
    <2> QED
      BY <2>2, <2>3, <2>4
  <1>5. policy' = policy /\ cert' = cert /\ faults' = faults
    BY DEF SetLocalAnswer
  <1>6. i \in IceChannel /\ i.negotiated
    BY EndFacts DEF IceChannel
  <1>7. exchange \in Signaling /\ exchange.phase = "answered" /\ exchange.offerer = o
    BY <1>0 DEF Signaling, Phases
  <1> HIDE DEF t, r, i, exchange
  <1>8. \A c : IsSet(c) = (c.stream.role # "NONE")
    BY DEF IsSet
  <1>9. ASSUME EndBecomes(p, n.t, n.r.c, i), n.t.local.crypto = policy[p], sig' = exchange,
               Both => /\ IsSet(n.r.c) /\ n.t.local.role = AnswerRole(n.r.c.stream.role)
                       /\ IsSet(ch[p]) => n.r.c.stream.role = ch[p].stream.role,
               n.t.remote = tr[p].remote, ~Both => n.r.c.stream = ch[p].stream
        PROVE  DtlsInv'
    <2> HIDE DEF n
    <2>1. /\ Typed' /\ EndsOK' /\ (Both' <=> Both) /\ policy' = policy
          /\ tr'[p] = n.t /\ ch'[p] = n.r.c /\ tr'[o] = tr[o] /\ ch'[o] = ch[o]
      BY <1>0, <1>9, EndStep
    <2>2. RolesAreOpposite'
      <3>1. IsSet(ch[p]) /\ IsSet(ch[o]) => ch[p].stream.role # ch[o].stream.role
        BY <1>0, OppositeFrom DEF DtlsInv
      <3>2. IsSet(ch'[p]) /\ IsSet(ch'[o]) => ch'[p].stream.role # ch'[o].stream.role
        BY <1>0, <1>8, <1>9, <2>1, <3>1
      <3> QED
        BY <1>0, <1>8, <3>2 DEF RolesAreOpposite, Endpoints, Other
    <2>3. SigOK'
      <3>1. tr'[o].local = CreateOffer(o) /\ CreateOffer(o)' = CreateOffer(o)
        BY <1>0, <2>1 DEF CreateOffer
      <3>2. sig'.phase = "answered" /\ sig'.offerer = o
        BY <1>7, <1>9
      <3>3. tr'[p].remote = tr'[o].local /\ (policy'[p] = "DTLS" => Both')
        BY <1>0, <1>9, <2>1
      <3>4. policy'[o] = "DTLS" => ch'[o].identity
        BY <1>0, <2>1
      <3>5. tr'[p].local.crypto = policy'[p]
        BY <1>9, <2>1
      <3>6. Both' => IsSet(ch'[p]) /\ tr'[p].local.role = AnswerRole(ch'[p].stream.role)
        BY <1>9, <2>1
      <3> QED
        BY <1>0, <3>1, <3>2, <3>3, <3>4, <3>5, <3>6 DEF SigOK
    <2> QED
      BY <2>1, <2>2, <2>3 DEF DtlsInv
  <1>10. CASE policy[p] # "DTLS"
    <2>1. (policy[p] = "DTLS") = FALSE /\ ~Both /\ t.local.crypto = policy[p]
      BY <1>1, <1>10, OtherFacts, DescriptionFacts
    <2>a. EndOK(t, r.c, ice[p], FALSE, Both)
      BY <1>2, <2>1 DEF EndOK
    <2>b. t.local.crypto # "DTLS"
      BY <1>10, <2>1
    <2>2. Unchanged(n, t, r.c, i, Both, cert[Other(p)])
      BY <1>1, <1>2, <1>3, <2>a, <2>b, NegotiatePlain
    <2> HIDE DEF n
    <2>c. /\ n.t = t /\ n.r.ok /\ n.r.c \in Channel
          /\ EndOK(t, n.r.c, i, FALSE, Both) /\ CertSeen(n.r.c, cert[Other(p)])
          /\ n.r.c.stream = r.c.stream
      BY <2>2 DEF Unchanged
    <2>3. sig' = exchange /\ tr' = [tr EXCEPT ![p] = t] /\ ch' = [ch EXCEPT ![p] = n.r.c]
      BY <1>4, <2>c DEF Applied
    <2>d. EndOK(t, n.r.c, i, policy[p] = "DTLS", Both)
      BY <2>1, <2>c DEF EndOK
    <2>4. EndBecomes(p, n.t, n.r.c, i)
      BY <1>1, <1>4, <1>5, <1>6, <1>7, <2>c, <2>3, <2>d DEF EndBecomes
    <2> QED
      BY <1>1, <1>2, <1>9, <2>1, <2>c, <2>3, <2>4 DEF n
  <1>11. CASE policy[p] = "DTLS"
    <2>0. Both /\ policy[o] = "DTLS"
      BY <1>0, <1>11, OtherFacts
    <2> DEFINE role == IF IsRemoteServer(t, action) THEN "CLIENT" ELSE "SERVER"
    <2>1. EndOK(t, r.c, ice[p], TRUE, TRUE)
      BY <1>2, <1>11, <2>0 DEF EndOK
    <2>2. r.c.state # "NONE"
      BY <1>2, <1>11
    <2>3. /\ t.local.crypto = "DTLS" /\ t.remote.crypto = "DTLS" /\ t.remote.role = "ACTPASS"
      <3>1. CreateOffer(o).crypto = "DTLS" /\ CreateOffer(o).role = "ACTPASS"
        BY <2>0, DescriptionFacts
      <3>2. CreateAnswer(p).crypto = "DTLS"
        BY <1>11, DescriptionFacts
      <3> QED
        BY <1>0, <1>1, <3>1, <3>2
    <2>4. t.local.role = IF ice[p].negotiated /\ tr[p].secure_role = "SERVER" THEN "PASSIVE"
                                                                            ELSE "ACTIVE"
      BY <1>1, <1>11 DEF CreateAnswer
    <2>5. RolesAreLegal(t, action)
      BY <2>3, <2>4 DEF RolesAreLegal
    <2>6. role \in SslRole /\ t.local.role = AnswerRole(role)
      BY <2>4 DEF SslRole, AnswerRole, IsRemoteServer
    <2>7. IsSet(ch[p]) => role = ch[p].stream.role
      <3>1. IsSet(ch[p]) => ice[p].negotiated /\ tr[p].secure_role = ch[p].stream.role
        BY <1>11, EndFacts DEF EndOK
      <3>2. tr[p].secure_role \in SslRole
        BY EndFacts DEF Transport
      <3> QED
        BY <2>4, <3>1, <3>2 DEF IsRemoteServer, SslRole
    <2>8. IsSet(r.c) <=> IsSet(ch[p])
      BY <1>2, <1>8
    <2> HIDE DEF role
    <2>9. /\ n.t = [t EXCEPT !.secure_role = role] /\ n.r.ok /\ n.r.c \in Channel
          /\ EndOK(n.t, n.r.c, i, TRUE, TRUE) /\ CertSeen(n.r.c, cert[Other(p)])
          /\ n.r.c.stream.role = role
      <3>1. Fp(t.local) /\ Fp(t.remote)
        BY <2>3 DEF Fp
      <3>2. role = (IF IsRemoteServer(t, action) THEN "CLIENT" ELSE "SERVER")
        BY DEF role
      <3>3. IsSet(r.c) => role = r.c.stream.role
        BY <1>2, <2>7, <2>8
      <3>4. StreamIs(Negotiate(t, r.c, action), t, role, i, cert[Other(p)])
        BY <1>1, <1>2, <1>3, <1>6, <2>1, <2>2, <2>5, <2>6, <3>1, <3>2, <3>3, NegotiateDtls
      <3> QED
        BY <3>4 DEF StreamIs
    <2>10. n.t \in Transport /\ n.t.local = t.local /\ n.t.remote = t.remote
      BY <1>1, <2>6, <2>9 DEF Transport
    <2> HIDE DEF n
    <2>11. sig' = exchange /\ tr' = [tr EXCEPT ![p] = n.t] /\ ch' = [ch EXCEPT ![p] = n.r.c]
      BY <1>4, <2>9 DEF Applied
    <2>12. EndOK(n.t, n.r.c, i, policy[p] = "DTLS", Both)
      BY <1>11, <2>0, <2>9 DEF EndOK
    <2>13. EndBecomes(p, n.t, n.r.c, i)
      BY <1>4, <1>5, <1>6, <1>7, <2>9, <2>10, <2>11, <2>12 DEF EndBecomes
    <2>14. /\ IsSet(n.r.c) /\ n.t.local.role = AnswerRole(n.r.c.stream.role)
           /\ IsSet(ch[p]) => n.r.c.stream.role = ch[p].stream.role
           /\ n.t.local.crypto = policy[p]
      BY <1>8, <1>11, <2>3, <2>6, <2>7, <2>9, <2>10 DEF SslRole
    <2> QED
      BY <1>1, <1>9, <2>0, <2>10, <2>11, <2>13, <2>14 DEF n
  <1> QED
    BY <1>10, <1>11

\* The offerer takes the opposite role.
LEMMA SetRemoteAnswerKeeps ==
    ASSUME DtlsInv, NEW p \in Endpoints, SetRemoteAnswer(p)
    PROVE  DtlsInv'
  <1> PICK a \in Endpoints : a = Other(p)
    BY OtherFacts
  <1>0. /\ sig \in Signaling /\ sig.phase = "answered" /\ p = sig.offerer /\ a = Other(p)
        /\ a # p /\ p = Other(a) /\ tr[p].local = CreateOffer(p)
        /\ policy[p] = "DTLS" => ch[p].identity
        /\ tr[a].remote = tr[p].local /\ (policy[a] = "DTLS" => Both)
        /\ tr[a].local.crypto = policy[a] /\ tr[a].local \in Description
        /\ Both => IsSet(ch[a]) /\ tr[a].local.role = AnswerRole(ch[a].stream.role)
    BY OtherFacts, EndFacts DEF DtlsInv, Typed, SetRemoteAnswer, SigOK, Transport
  <1>1. policy' = policy /\ cert' = cert /\ faults' = faults
    BY DEF SetRemoteAnswer
  <1>2. CASE ~VerifyCrypto(p, tr[a].local) /\ UNCHANGED <<tr, ch, ice>>
             /\ sig' = [sig EXCEPT !.phase = "refused"]
    <2>1. /\ sig' \in Signaling /\ sig'.phase = "refused"
      BY <1>0, <1>2 DEF Signaling, Phases
    <2>2. Typed'
      BY <1>1, <1>2, <2>1 DEF DtlsInv, Typed
    <2>3. EndsOK' /\ RolesAreOpposite' /\ (Both' <=> Both)
      BY <1>1, <1>2 DEF DtlsInv, EndsOK, RolesAreOpposite, Both
    <2>4. policy'["L"] # policy'["R"]
      BY <1>0, <1>1, <1>2 DEF VerifyCrypto, Endpoints, Other
    <2>5. SigOK'
      BY <2>1, <2>4 DEF SigOK, Both
    <2> QED
      BY <2>2, <2>3, <2>5 DEF DtlsInv
  <1> DEFINE t == [tr[p] EXCEPT !.remote = tr[a].local]
             n == Negotiate(t, ch[p], "OFFER")
             i == [ice[p] EXCEPT !.negotiated = TRUE]
             exchange == [sig EXCEPT !.phase = IF sig.final THEN "stable" ELSE "received"]
  <1>3. CASE /\ VerifyCrypto(p, tr[a].local) /\ Applied(p, n.t, n.r, exchange)
             /\ ice' = [ice EXCEPT ![p] = i]
    <2>1. /\ t \in Transport /\ t.local = tr[p].local /\ t.remote = tr[a].local
          /\ t.secure_role = tr[p].secure_role /\ t.identity = tr[p].identity
      BY <1>0, EndFacts DEF Transport
    <2>2. EndOK(t, ch[p], ice[p], policy[p] = "DTLS", Both)
      BY <2>1, EndFacts DEF EndOK
    <2>3. i \in IceChannel /\ i.negotiated
      BY EndFacts DEF IceChannel
    <2>4. exchange \in Signaling /\ exchange.phase \in {"stable", "received"}
          /\ exchange.offerer = p
      BY <1>0 DEF Signaling, Phases
    <2>5. policy[p] = "DTLS" => Both
      <3>1. policy[p] = "DTLS" => policy[a] = "DTLS"
        BY <1>0, <1>3 DEF VerifyCrypto
      <3> QED
        BY <1>0, <3>1, OtherFacts
    <2> HIDE DEF t, i, exchange
    <2>6. \A c : IsSet(c) = (c.stream.role # "NONE")
      BY DEF IsSet
    <2>7. ASSUME EndBecomes(p, n.t, n.r.c, i), n.t.local = t.local, sig' = exchange,
                 Both => IsSet(n.r.c) /\ n.r.c.stream.role # ch[a].stream.role,
                 ~Both => n.r.c.stream = ch[p].stream
          PROVE  DtlsInv'
      <3> HIDE DEF n
      <3>1. /\ Typed' /\ EndsOK' /\ (Both' <=> Both) /\ policy' = policy
            /\ tr'[p] = n.t /\ ch'[p] = n.r.c /\ tr'[a] = tr[a] /\ ch'[a] = ch[a]
        BY <1>0, <2>7, EndStep
      <3>2. RolesAreOpposite'
        <4>1. IsSet(ch[p]) /\ IsSet(ch[a]) => ch[p].stream.role # ch[a].stream.role
          BY <1>0, OppositeFrom DEF DtlsInv
        <4>2. IsSet(ch'[p]) /\ IsSet(ch'[a]) => ch'[p].stream.role # ch'[a].stream.role
          BY <2>6, <2>7, <3>1, <4>1
        <4> QED
          BY <1>0, <2>6, <4>2 DEF RolesAreOpposite, Endpoints, Other
      <3>3. SigOK'
        <4>1. tr'[p].local = CreateOffer(p) /\ CreateOffer(p)' = CreateOffer(p)
          BY <1>0, <2>1, <2>7, <3>1 DEF CreateOffer
        <4>2. sig'.phase \in {"stable", "received"} /\ sig'.offerer = p
          BY <2>4, <2>7
        <4>3. tr'[a].remote = tr'[p].local /\ (policy'[a] = "DTLS" => Both')
          BY <1>0, <2>1, <2>7, <3>1
        <4>4. Both' => (IsSet(ch'[p]) <=> IsSet(ch'[a]))
          BY <1>0, <2>7, <3>1
        <4>5. policy'[p] = "DTLS" => ch'[p].identity
          <5>1. EndOK(tr'[p], ch'[p], ice'[p], policy'[p] = "DTLS", Both')
            BY <3>1 DEF EndsOK
          <5>2. policy'[p] = "DTLS" => IsSet(ch'[p])
            BY <2>5, <2>7, <3>1
          <5> QED
            BY <5>1, <5>2 DEF EndOK, ChannelOK
        <4> QED
          BY <1>0, <4>1, <4>2, <4>3, <4>4, <4>5 DEF SigOK
      <3> QED
        BY <3>1, <3>2, <3>3 DEF DtlsInv
    <2>8. CASE policy[p] # "DTLS"
      <3>1. (policy[p] = "DTLS") = FALSE /\ ~Both /\ t.local.crypto # "DTLS"
        BY <1>0, <2>1, <2>8, OtherFacts, DescriptionFacts
      <3>2. EndOK(t, ch[p], ice[p], FALSE, Both)
        BY <2>2, <3>1 DEF EndOK
      <3>3. Unchanged(n, t, ch[p], i, Both, cert[Other(p)])
        BY <2>1, <3>1, <3>2, EndFacts, NegotiatePlain
      <3> HIDE DEF n
      <3>4. /\ n.t = t /\ n.r.ok /\ n.r.c \in Channel
            /\ EndOK(t, n.r.c, i, FALSE, Both) /\ CertSeen(n.r.c, cert[Other(p)])
            /\ n.r.c.stream = ch[p].stream
        BY <3>3 DEF Unchanged
      <3>5. sig' = exchange /\ tr' = [tr EXCEPT ![p] = t] /\ ch' = [ch EXCEPT ![p] = n.r.c]
        BY <1>3, <3>4 DEF Applied
      <3>6. EndOK(t, n.r.c, i, policy[p] = "DTLS", Both)
        BY <3>1, <3>4 DEF EndOK
      <3>7. EndBecomes(p, n.t, n.r.c, i)
        BY <1>1, <1>3, <2>1, <2>3, <2>4, <3>4, <3>5, <3>6 DEF EndBecomes
      <3> QED
        BY <2>7, <3>1, <3>4, <3>5, <3>7 DEF n
    <2>9. CASE policy[p] = "DTLS"
      <3>1. Both
        BY <2>5, <2>9
      <3> DEFINE role == IF IsRemoteServer(t, "OFFER") THEN "CLIENT" ELSE "SERVER"
                 other == ch[a].stream.role
      <3>2. EndOK(t, ch[p], ice[p], TRUE, TRUE)
        BY <2>2, <2>9, <3>1 DEF EndOK
      <3>3. ch[p].state # "NONE"
        BY <1>0, <2>9, <3>2 DEF EndOK, ChannelOK
      <3>4. t.local.crypto = "DTLS" /\ t.local.role = "ACTPASS" /\ t.remote.crypto = "DTLS"
        <4>1. CreateOffer(p).crypto = "DTLS" /\ CreateOffer(p).role = "ACTPASS"
          BY <2>9, DescriptionFacts
        <4>2. policy[a] = "DTLS"
          BY <1>0, <3>1, OtherFacts
        <4> QED
          BY <1>0, <2>1, <4>1, <4>2
      <3>5. other \in SslRole /\ t.remote.role = AnswerRole(other)
        <4>1. ch[a].stream \in Stream /\ IsSet(ch[a])
          BY <1>0, <3>1, EndFacts DEF Channel
        <4>2. other \in SslRole
          BY <2>6, <4>1 DEF Stream
        <4> QED
          BY <1>0, <2>1, <3>1, <4>2
      <3>6. RolesAreLegal(t, "OFFER") /\ Fp(t.local) /\ Fp(t.remote)
        BY <3>4, <3>5 DEF RolesAreLegal, Fp, AnswerRole
      <3>7. role \in SslRole /\ role # other
        BY <3>5 DEF SslRole, AnswerRole, IsRemoteServer
      <3>8. IsSet(ch[p]) => role = ch[p].stream.role
        <4>1. IsSet(ch[p]) => ch[p].stream.role # other
          BY <1>0, <3>1, OppositeFrom DEF DtlsInv
        <4>2. ch[p].stream \in Stream
          BY EndFacts DEF Channel
        <4>3. IsSet(ch[p]) => ch[p].stream.role \in SslRole
          BY <2>6, <4>2 DEF Stream
        <4> HIDE DEF role, other
        <4> QED
          BY <3>5, <3>7, <4>1, <4>3 DEF SslRole
      <3>9. StreamIs(n, t, role, i, cert[Other(p)])
        <4>1. role = (IF IsRemoteServer(t, "OFFER") THEN "CLIENT" ELSE "SERVER")
          OBVIOUS
        <4> HIDE DEF role
        <4> QED
          BY <2>1, <2>3, <3>2, <3>3, <3>6, <3>7, <3>8, <4>1, EndFacts, NegotiateDtls
      <3> HIDE DEF n, role
      <3>10. /\ n.t = [t EXCEPT !.secure_role = role] /\ n.r.ok /\ n.r.c \in Channel
             /\ EndOK(n.t, n.r.c, i, TRUE, TRUE) /\ CertSeen(n.r.c, cert[Other(p)])
             /\ n.r.c.stream.role = role
        BY <3>9 DEF StreamIs
      <3>11. n.t \in Transport /\ n.t.local = t.local
        BY <2>1, <3>7, <3>10 DEF Transport
      <3>12. sig' = exchange /\ tr' = [tr EXCEPT ![p] = n.t] /\ ch' = [ch EXCEPT ![p] = n.r.c]
        BY <1>3, <3>10 DEF Applied
      <3>13. EndOK(n.t, n.r.c, i, policy[p] = "DTLS", Both)
        BY <2>9, <3>1, <3>10 DEF EndOK
      <3>14. EndBecomes(p, n.t, n.r.c, i)
        BY <1>1, <1>3, <2>3, <2>4, <3>10, <3>11, <3>12, <3>13 DEF EndBecomes
      <3>15. IsSet(n.r.c) /\ n.r.c.stream.role # other
        BY <2>6, <3>7, <3>10 DEF SslRole
      <3> QED
        BY <2>7, <3>1, <3>11, <3>12, <3>14, <3>15 DEF n
    <2> QED
      BY <2>8, <2>9
  <1> QED
    BY <1>0, <1>2, <1>3 DEF SetRemoteAnswer

-----------------------------------------------------------------------------
(* The theorems.                                                           *)

\* Before the first offer no end has a stream.
LEMMA InitIsGood == Init => DtlsInv
  <1> SUFFICES ASSUME Init PROVE DtlsInv
    OBVIOUS
  <1>1. policy \in [Endpoints -> Crypto] /\ cert \in [Endpoints -> BOOLEAN]
    BY DtlsConstantsOK DEF Init
  <1>2. faults \in 0 .. MaxFaults
    BY DtlsConstantsOK DEF Init
  <1>4. NoDescription \in Description /\ NoStream \in Stream /\ NoStream.role = "NONE"
        /\ NoStream.sent = 0
    BY DEF NoDescription, Description, NoStream, Stream, Crypto
  <1>3. ASSUME NEW p \in Endpoints
        PROVE  /\ tr[p] \in Transport /\ ch[p] \in Channel /\ ice[p] \in IceChannel
               /\ ch[p].state = "NONE" /\ ~IsSet(ch[p]) /\ ch[p].stream.sent = 0
               /\ ch[p].stream.role = "NONE" /\ ch[p].identity = FALSE
               /\ ch[p].remoteFp = FALSE /\ ch[p].writable = FALSE
               /\ ice[p].negotiated = FALSE /\ tr[p].identity = (policy[p] = "DTLS")
    <2> DEFINE d == policy[p] = "DTLS"
               t == [identity |-> d, local |-> NoDescription, remote |-> NoDescription,
                     secure_role |-> "CLIENT"]
               c == [state |-> "NONE", ssl_role |-> "CLIENT", identity |-> FALSE,
                     remoteFp |-> FALSE, stream |-> NoStream, writable |-> FALSE,
                     readable |-> FALSE]
    <2>1. tr[p] = t /\ ch[p] = c
          /\ ice[p] = [writable |-> FALSE, readable |-> FALSE, negotiated |-> FALSE]
      BY DEF Init
    <2>2. d \in BOOLEAN
      OBVIOUS
    <2> HIDE DEF d
    <2>3. t \in Transport /\ t.identity = d
      BY <1>4, <2>2 DEF Transport, SslRole
    <2>4. /\ c \in Channel /\ c.state = "NONE" /\ c.identity = FALSE /\ c.remoteFp = FALSE
          /\ c.stream = NoStream /\ c.writable = FALSE
      BY <1>4 DEF Channel, SslRole, States
    <2>5. ice[p] \in IceChannel /\ ice[p].negotiated = FALSE
      BY <2>1 DEF IceChannel
    <2> HIDE DEF t, c
    <2> QED
      BY <1>4, <2>1, <2>3, <2>4, <2>5 DEF IsSet, d
  <1>5. Typed
    <2>2. sig \in Signaling
      BY DEF Init, Signaling, Phases, Endpoints
    <2>3. tr \in [Endpoints -> Transport] /\ ch \in [Endpoints -> Channel]
          /\ ice \in [Endpoints -> IceChannel]
      BY <1>3 DEF Init
    <2> QED
      BY <1>1, <1>2, <2>2, <2>3 DEF Typed
  <1>6. \A p \in Endpoints : ~IsSet(ch[p]) /\ ch[p].stream.role = "NONE"
    BY <1>3
  <1>7. EndsOK
    <2> SUFFICES ASSUME NEW p \in Endpoints
                 PROVE  /\ EndOK(tr[p], ch[p], ice[p], policy[p] = "DTLS", Both)
                        /\ CertSeen(ch[p], cert[Other(p)])
      BY DEF EndsOK
    <2>1. ChannelOK(ch[p])
      BY <1>3 DEF ChannelOK, IsSet
    <2>2. EndOK(tr[p], ch[p], ice[p], policy[p] = "DTLS", Both)
      BY <1>3, <2>1 DEF EndOK
    <2>3. CertSeen(ch[p], cert[Other(p)])
      BY <1>3 DEF CertSeen
    <2> QED
      BY <2>2, <2>3
  <1>8. SigOK
    <2>1. sig.phase = "stable" /\ sig.offerer = "L"
      BY DEF Init
    <2> QED
      BY <1>6, <2>1 DEF SigOK, Endpoints, Other
  <1>9. RolesAreOpposite
    BY <1>6 DEF RolesAreOpposite, Endpoints
  <1> QED
    BY <1>5, <1>7, <1>8, <1>9 DEF DtlsInv

\* Every step of the negotiation and of the handshake keeps the invariant.
LEMMA NextKeeps == DtlsInv /\ [Next]_vars => DtlsInv'
  <1> SUFFICES ASSUME DtlsInv, [Next]_vars PROVE DtlsInv'
    OBVIOUS
  <1>1. ASSUME NEW p \in Endpoints, SetLocalOffer(p) PROVE DtlsInv'
    BY <1>1, SetLocalOfferKeeps
  <1>2. ASSUME NEW p \in Endpoints, NEW action \in {"PRANSWER", "ANSWER"},
               SetLocalAnswer(p, action)
        PROVE  DtlsInv'
    BY <1>2, SetLocalAnswerKeeps
  <1>3. ASSUME NEW p \in Endpoints, SetRemoteOffer(p) PROVE DtlsInv'
    BY <1>3, SetRemoteOfferKeeps
  <1>4. ASSUME NEW p \in Endpoints, SetRemoteAnswer(p) PROVE DtlsInv'
    BY <1>4, SetRemoteAnswerKeeps
  <1>5. ASSUME NEW p \in Endpoints, NEW value \in BOOLEAN, OnWritableState(p, value)
        PROVE  DtlsInv'
    BY <1>5, OnWritableStateKeeps
  <1>6. ASSUME NEW p \in Endpoints, OnReadableState(p) PROVE DtlsInv'
    BY <1>6, OnReadableStateKeeps
  <1>7. ASSUME NEW p \in Endpoints, NEW m \in net, OnReadPacket(p, m) PROVE DtlsInv'
    BY <1>7, OnReadPacketKeeps
  <1>8. ASSUME NEW p \in Endpoints, Retransmit(p) PROVE DtlsInv'
    BY <1>8, RetransmitKeeps
  <1>9. ASSUME NEW m \in net, Lose(m) PROVE DtlsInv'
    BY <1>9, LoseKeeps
  <1>10. CASE UNCHANGED vars
    <2>1. faults \in 0 .. MaxFaults
      BY DEF DtlsInv, Typed
    <2> QED
      BY <1>10, <2>1, PacketStep DEF vars
  <1> QED
    BY <1>1, <1>2, <1>3, <1>4, <1>5, <1>6, <1>7, <1>8, <1>9, <1>10 DEF Next

\* The inductive invariant: whatever is offered again and by whom, and whenever the ICE
\* channel breaks, each end's transport, wrapper and stream agree on what was negotiated.
THEOREM DtlsInvariance == Spec => []DtlsInv
  <1> QED
    BY InitIsGood, NextKeeps, PTL DEF Spec

\* One stream is the client and the other the server (NegotiateTransportDescription_w).
THEOREM RolesAreAlwaysOpposite == Spec => []RolesAreOpposite
  <1>1. DtlsInv => RolesAreOpposite
    BY DEF DtlsInv
  <1> QED
    BY <1>1, DtlsInvariance, PTL

\* GetSslRole answers with the role that the stream plays, since SetupDtls.
THEOREM ReportedRoleIsAlwaysReal == Spec => []ReportedRoleIsReal
  <1>1. DtlsInv => ReportedRoleIsReal
    <2> SUFFICES ASSUME DtlsInv, NEW p \in Endpoints, ch[p].stream # NoStream
                 PROVE  tr[p].secure_role = ch[p].stream.role /\ ch[p].ssl_role = ch[p].stream.role
      BY DEF ReportedRoleIsReal
    <2>1. ch[p].stream \in Stream
      BY EndFacts DEF Channel
    <2>2. EndOK(tr[p], ch[p], ice[p], policy[p] = "DTLS", Both)
      BY EndFacts
    <2>3. IsSet(ch[p])
      <3>1. ch[p].stream = [role |-> ch[p].stream.role, sent |-> ch[p].stream.sent]
        BY <2>1 DEF Stream
      <3>2. ~IsSet(ch[p]) => ch[p].stream.role = "NONE" /\ ch[p].stream.sent = 0
        BY <2>2 DEF EndOK, ChannelOK, IsSet
      <3> QED
        BY <3>1, <3>2 DEF NoStream
    <2> QED
      BY <2>2, <2>3 DEF EndOK, ChannelOK
  <1> QED
    BY <1>1, DtlsInvariance, PTL

\* No setter of the channel returns false to the description of an endpoint with the same
\* policy, at any stage of the handshake.
THEOREM DtlsNeverRefused == Spec => []NeverRefused
  <1>1. DtlsInv => NeverRefused
    BY DEF DtlsInv, SigOK, NeverRefused
  <1> QED
    BY <1>1, DtlsInvariance, PTL

\* With DTLS enabled a channel is writable only after the handshake, with a peer whose
\* certificate is the one of its fingerprint.
THEOREM NothingIsSentInTheClear == Spec => []NothingInTheClear
  <1>1. DtlsInv => NothingInTheClear
    BY EndFacts DEF NothingInTheClear, EndOK, CertSeen
  <1> QED
    BY <1>1, DtlsInvariance, PTL

=============================================================================
