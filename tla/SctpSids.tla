------------------------------ MODULE SctpSids ------------------------------
(***************************************************************************)
(* How one peer hands out SCTP stream ids: the list of SCTP data channels  *)
(* and the two counters of MediaStreamSignaling                            *)
(* (talk/app/webrtc/mediastreamsignaling.cc), with the calls of            *)
(* WebRtcSession that use them.  All of it runs on the signaling thread.   *)
(*                                                                         *)
(* A channel is its id, -1 while it has none.                              *)
(***************************************************************************)
EXTENDS Integers, Sequences

CONSTANTS kMaxSctpSid,
          InvalidConfigs,       \* DataChannel::Init may refuse a configuration
          EngineCloses,         \* negotiation may reject the data section
          MaxChannels,          \* bound on the length of the list
          MaxLastId             \* bound on the counters

VARIABLES
    sctp_data_channels,   \* the ids of the listed channels
    last_allocated,       \* last_allocated_sctp_even_sid_ and ..._odd_sid_
    role,                 \* the DTLS role the peer gets
    roleKnown,            \* GetSslRole succeeds
    dropped               \* ids given up by other means than RemoveSctpDataChannel

vars == <<sctp_data_channels, last_allocated, role, roleKnown, dropped>>

ASSUME SidsConstantsOK ==
    /\ kMaxSctpSid \in Nat
    /\ InvalidConfigs \subseteq BOOLEAN /\ EngineCloses \in BOOLEAN
    /\ MaxChannels \in Nat /\ MaxLastId \in Nat

Sid == 0 .. kMaxSctpSid
Parity(sid) == IF sid % 2 = 0 THEN "even" ELSE "odd"

\* SSL_CLIENT takes even ids.
RoleParity == IF role = "SSL_CLIENT" THEN "even" ELSE "odd"

Used(channels) == {channels[i] : i \in {j \in DOMAIN channels : channels[j] >= 0}}

IsSctpSidAvailable(sid) == sid \in Sid /\ sid \notin Used(sctp_data_channels)

\* Mutant: only the next id is tried.
AllocateSctpSid_NextOnly(last_id, taken, n) == n = last_id + 2

\* The do-while loop leaves last_id at n: the first id after it that is not taken.  An
\* n above kMaxSctpSid is kept in the counter and refused.
AllocateSctpSid(last_id, taken, n) ==
    /\ n > last_id /\ Parity(n) = Parity(last_id)
    /\ n \notin taken
    /\ \A m \in last_id + 1 .. n - 1 : Parity(m) = Parity(n) => m \in taken

-----------------------------------------------------------------------------
Init ==
    /\ sctp_data_channels = <<>>
    /\ last_allocated = [p \in {"even", "odd"} |-> IF p = "even" THEN -2 ELSE -1]
    /\ role \in {"SSL_CLIENT", "SSL_SERVER"}
    /\ roleKnown = FALSE
    /\ dropped = {}

\* DataChannel::Create, and AddDataChannel if it succeeds.
Listed(id, valid) ==
    /\ sctp_data_channels' = IF valid THEN Append(sctp_data_channels, id) ELSE sctp_data_channels
    /\ dropped' = IF valid THEN dropped \ {id} ELSE dropped \cup ({id} \cap Sid)

\* A configuration with an id: the application's, or that of the peer's OPEN message.
CreateWithSid(sid) ==
    /\ Len(sctp_data_channels) < MaxChannels
    /\ IsSctpSidAvailable(sid)
    /\ Listed(sid, TRUE)
    /\ UNCHANGED <<last_allocated, role, roleKnown>>

\* A configuration without one: an id is allocated, once the role is known.
CreateWithoutRole ==
    /\ Len(sctp_data_channels) < MaxChannels
    /\ ~roleKnown
    /\ Listed(-1, TRUE)
    /\ UNCHANGED <<last_allocated, role, roleKnown>>

CreateAllocated(n, valid) ==
    /\ Len(sctp_data_channels) < MaxChannels
    /\ roleKnown
    /\ AllocateSctpSid(last_allocated[RoleParity], Used(sctp_data_channels), n)
    /\ last_allocated' = [last_allocated EXCEPT ![RoleParity] = n]
    /\ IF n <= kMaxSctpSid THEN Listed(n, valid) ELSE UNCHANGED <<sctp_data_channels, dropped>>
    /\ UNCHANGED <<role, roleKnown>>

Idless == {i \in DOMAIN sctp_data_channels : sctp_data_channels[i] < 0}

\* Each channel without an id gets the next one that the channels before it have left;
\* lasts[i] is the counter after channel i.
OnDtlsRoleReadyForSctp(lasts) ==
    /\ \A i \in Idless :
         AllocateSctpSid(last_allocated[RoleParity],
                         Used(sctp_data_channels) \cup {lasts[j] : j \in {h \in Idless : h < i}},
                         lasts[i])
    /\ sctp_data_channels' =
         [i \in DOMAIN sctp_data_channels |->
            IF i \notin Idless THEN sctp_data_channels[i]
            ELSE IF lasts[i] <= kMaxSctpSid THEN lasts[i] ELSE -1]
    /\ \E k \in Idless :
         /\ \A i \in Idless : i <= k
         /\ last_allocated' = [last_allocated EXCEPT ![RoleParity] = lasts[k]]
    /\ dropped' = dropped \ {lasts[i] : i \in Idless}

\* SetLocalDescription and SetRemoteDescription, once both have been applied.
DtlsRoleReady ==
    /\ roleKnown' = TRUE
    /\ IF Idless = {} THEN UNCHANGED <<sctp_data_channels, last_allocated, dropped>>
       ELSE \E lasts \in [Idless -> 0 .. MaxLastId] : OnDtlsRoleReadyForSctp(lasts)
    /\ UNCHANGED role

Without(channels, i) == SubSeq(channels, 1, i - 1) \o SubSeq(channels, i + 1, Len(channels))

\* Mutant: the counter stays where it is.
Lowered_Never(last, sid) == last

\* The search starts again at an id that has become free.
Lowered(last, sid) ==
    IF sid <= last[Parity(sid)] THEN [last EXCEPT ![Parity(sid)] = sid - 2] ELSE last

\* A connected channel closes.
RemoveSctpDataChannel(i) ==
    /\ sctp_data_channels[i] >= 0
    /\ sctp_data_channels' = Without(sctp_data_channels, i)
    /\ last_allocated' = Lowered(last_allocated, sctp_data_channels[i])
    /\ UNCHANGED <<role, roleKnown, dropped>>

\* The list is emptied first, so that the closing channels' RemoveSctpDataChannel finds
\* nothing; the role may go with the transport.
OnDataChannelClose ==
    /\ EngineCloses
    /\ sctp_data_channels' = <<>>
    /\ dropped' = dropped \cup Used(sctp_data_channels)
    /\ roleKnown' \in {roleKnown, FALSE}
    /\ UNCHANGED <<last_allocated, role>>

-----------------------------------------------------------------------------
Next ==
    \/ \E sid \in 0 .. kMaxSctpSid + 1 : CreateWithSid(sid)
    \/ CreateWithoutRole
    \/ \E n \in 0 .. MaxLastId, valid \in {TRUE} \cup InvalidConfigs : CreateAllocated(n, valid)
    \/ DtlsRoleReady
    \/ \E i \in DOMAIN sctp_data_channels : RemoveSctpDataChannel(i)
    \/ OnDataChannelClose

Spec == Init /\ [][Next]_vars

-----------------------------------------------------------------------------
\* The list holds ids in range and the counters keep the parity of their name.
SidsTypeOK ==
    /\ sctp_data_channels \in Seq(Sid \cup {-1})
    /\ last_allocated \in [{"even", "odd"} -> Int]
    /\ \A p \in {"even", "odd"} : last_allocated[p] >= -2 /\ Parity(last_allocated[p]) = p
    /\ role \in {"SSL_CLIENT", "SSL_SERVER"}
    /\ roleKnown \in BOOLEAN
    /\ dropped \subseteq Sid

\* No two listed channels share a stream, whether the application, the peer's OPEN
\* message, CreateDataChannel or OnDtlsRoleReadyForSctp chose their ids.
SidsAreUnique ==
    \A i, j \in DOMAIN sctp_data_channels :
      sctp_data_channels[i] >= 0 /\ sctp_data_channels[i] = sctp_data_channels[j] => i = j

\* The search of AllocateSctpSid, which only goes upwards, does not miss an id that has
\* been freed: RemoveSctpDataChannel lowers the counter far enough, in any order of
\* removals, and every id below the counter is used or was given up without it.
NoFreeSidIsMissed ==
    \A sid \in Sid :
      sid <= last_allocated[Parity(sid)] => sid \in Used(sctp_data_channels) \cup dropped
=============================================================================
