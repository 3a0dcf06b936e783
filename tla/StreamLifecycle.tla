-------------------------- MODULE StreamLifecycle --------------------------
(***************************************************************************)
(* What the SCTP engine promises the channels above it about each stream,  *)
(* whatever the two ends and the network do: a stream that is being closed *)
(* is closed before it can be opened again, closing ends, and a stream     *)
(* that its owner has not closed is never taken away silently.             *)
(***************************************************************************)
CONSTANTS Endpoints, Sids

VARIABLE st     \* st[e][s]: the stream s as the endpoint e sees it

StreamState == {"closed", "open", "closing", "closed_remotely"}

Init == st = [e \in Endpoints |-> [s \in Sids |-> "closed"]]

\* What may become of one stream.
MayBecome(old, new) ==
    \/ new = old
    \/ old \in {"closed", "closed_remotely"} /\ new = "open"
    \/ old = "open" /\ new \in {"closing", "closed_remotely"}
    \/ old = "closing" /\ new = "closed"

\* One endpoint acts; an event of the association may concern several streams.
Move(e) ==
    \E new \in [Sids -> StreamState] :
      /\ \A s \in Sids : MayBecome(st[e][s], new[s])
      /\ st' = [st EXCEPT ![e] = new]

Next == \E e \in Endpoints : Move(e)

Closed(e, s) == st[e][s] = "closing" /\ Move(e) /\ st'[e][s] = "closed"

Safety == Init /\ [][Next]_st
Fairness == \A e \in Endpoints, s \in Sids : WF_st(Closed(e, s))
Spec == Safety /\ Fairness
=============================================================================
