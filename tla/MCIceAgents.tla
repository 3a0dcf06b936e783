----------------------------- MODULE MCIceAgents -----------------------------
(* The roles the agents of IceAgents start with. *)
EXTENDS IceAgents

\* As signaled: one offers, the other answers.
Agreed == {[a \in Agents |-> IF a = "L" THEN "CONTROLLING" ELSE "CONTROLLED"]}
\* Offers that crossed, or an answerer that takes the offerer for a lite agent.
Clash == {[a \in Agents |-> role] : role \in Roles}
=============================================================================
