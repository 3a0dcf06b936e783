--------------------------- MODULE IceAgentsProofs ---------------------------
(***************************************************************************)
(* Machine-checked proofs about IceAgents, for every finite set of         *)
(* candidate pairs, all initial roles and all bounds on pings and faults.  *)
(***************************************************************************)
EXTENDS IceAgents, FiniteSetTheorems, WellFoundedInduction, TLAPS

WriteStates == {"WRITABLE", "UNRELIABLE", "INIT", "TIMEOUT"}

Connection == [read : {"INIT", "READABLE"}, write : WriteStates, pruned : BOOLEAN,
               pings : 0 .. CONNECTION_WRITE_CONNECT_FAILURES, request : BOOLEAN]

Channel == [conns : SUBSET Conns, conn : [Conns -> Connection], best : Conns \cup {NULL},
            pending : Conns \cup {NULL}, dirty : BOOLEAN, sorts : Nat,
            deletes : SUBSET Conns, writable : BOOLEAN, readable : BOOLEAN]

Agent == [role : Roles, role_switch : BOOLEAN, posted : BOOLEAN]

\* A channel that refers to connections it has.
Live(s) ==
    /\ s \in Channel
    /\ s.deletes \subseteq s.conns
    /\ s.best \in s.conns \cup {NULL} /\ s.pending \in s.conns \cup {NULL}

\* sort_dirty_ says the truth: a MSG_SORT is posted.
DirtyIsPosted(s) == s.dirty => s.sorts > 0

\* The channel reports what its best connection is, or will sort.
Follows(s) == s.writable # ConnWritable(s, s.best) => s.sorts > 0

\* A controlled agent has switched to a nominated connection that is writable.
Taken(s, role) == role = "CONTROLLED" => ~ConnWritable(s, s.pending)

\* An agent that controls from the start is never told what to use.
NotNominated(s, i) == i.role = "CONTROLLING" /\ ~i.role_switch => s.pending = NULL

Good(s, i) == Live(s) /\ DirtyIsPosted(s) /\ Follows(s) /\ Taken(s, i.role) /\ NotNominated(s, i)

PacketOK(m) == m.conn \in Conns

\* The inductive invariant.
IceInv ==
    /\ ch \in [Agents -> Channel] /\ ice \in [Agents -> Agent]
    /\ \A a \in Agents : Good(ch[a], ice[a])
    /\ \A m \in net : PacketOK(m)
    /\ faults \in 0 .. MaxFaults

-----------------------------------------------------------------------------
(* Lemmas about the operators.                                             *)

\* 0 stands for no connection.
LEMMA NullIsNoConn == NULL \notin Conns
  BY IceConstantsOK DEF NULL

\* The ranks of the write states are numbers.
LEMMA RankIsNat == \A w \in WriteStates : WriteRank[w] \in Nat
  BY DEF WriteStates, WriteRank

\* SortConnections' order is total: of two connections, one comes first.
LEMMA BetterIsTotal ==
    ASSUME NEW s \in Channel, NEW c \in Conns, NEW d \in Conns, c # d
    PROVE  Better(s, c, d) \/ Better(s, d, c)
  <1>1. /\ WriteRank[s.conn[c].write] \in Nat /\ WriteRank[s.conn[d].write] \in Nat
        /\ c \in Nat /\ d \in Nat
    BY RankIsNat, IceConstantsOK DEF Channel, Connection
  <1> QED
    BY <1>1 DEF Better

\* ... and transitive.
LEMMA BetterIsTransitive ==
    ASSUME NEW s \in Channel, NEW c \in Conns, NEW d \in Conns, NEW e \in Conns,
           Better(s, c, d), Better(s, d, e)
    PROVE  Better(s, c, e)
  <1>1. /\ WriteRank[s.conn[c].write] \in Nat /\ WriteRank[s.conn[d].write] \in Nat
        /\ WriteRank[s.conn[e].write] \in Nat
        /\ c \in Nat /\ d \in Nat /\ e \in Nat
    BY RankIsNat, IceConstantsOK DEF Channel, Connection
  <1> QED
    BY <1>1 DEF Better

\* Every set of connections has one that comes before all others: a smallest set without one
\* would have one after all.
LEMMA TopExists ==
    ASSUME NEW s \in Channel, NEW C \in SUBSET Conns, C # {}
    PROVE  \E c \in C : \A d \in C \ {c} : Better(s, c, d)
  <1> DEFINE HasTop(D) == \E c \in D : \A d \in D \ {c} : Better(s, c, d)
             Bad == {D \in SUBSET Conns : D # {} /\ ~HasTop(D)}
             Order == StrictSubsetOrdering(Conns)
  <1>1. IsWellFoundedOn(Order, SUBSET Conns)
    BY FS_StrictSubsetOrderingWellFounded, FS_FiniteSubsetsOfFinite, IceConstantsOK
  <1>2. ASSUME Bad # {} PROVE FALSE
    <2>1. PICK D \in Bad : \A E \in Bad : <<E, D>> \notin Order
      <3> HIDE DEF Bad, Order
      <3>1. Bad \subseteq SUBSET Conns
        BY DEF Bad
      <3> QED
        BY <1>1, <1>2, <3>1, WFMin
    <2>2. PICK x \in D : TRUE
      OBVIOUS
    <2> DEFINE E == D \ {x}
    <2>3. CASE E = {}
      BY <2>3
    <2>4. CASE E # {}
      <3>1. <<E, D>> \in Order
        BY DEF StrictSubsetOrdering
      <3>2. HasTop(E)
        BY <2>1, <2>4, <3>1
      <3>3. PICK y \in E : \A d \in E \ {y} : Better(s, y, d)
        BY <3>2
      <3>4. CASE Better(s, y, x)
        BY <3>3, <3>4
      <3>5. CASE Better(s, x, y)
        <4>1. \A d \in D \ {x} : Better(s, x, d)
          BY <3>3, <3>5, BetterIsTransitive
        <4> QED
          BY <4>1
      <3> QED
        BY <3>4, <3>5, BetterIsTotal
    <2> QED
      BY <2>3, <2>4
  <1> QED
    BY <1>2

\* So the first connection after sorting is one of them.
LEMMA TopIsMember ==
    ASSUME NEW s \in Channel, NEW C \in SUBSET Conns
    PROVE  TopOf(s, C) \in C \cup {NULL}
  BY TopExists DEF TopOf

-----------------------------------------------------------------------------
(* The handlers keep a channel live; what they do to the rest of it.       *)

\* RequestSort only posts a sort, and after it one is posted.
LEMMA RequestSortKeeps ==
    ASSUME NEW s, Live(s)
    PROVE  LET t == RequestSort(s)
           IN  /\ Live(t)
               /\ t.conns = s.conns /\ t.conn = s.conn /\ t.best = s.best
               /\ t.pending = s.pending /\ t.writable = s.writable
               /\ DirtyIsPosted(s) => DirtyIsPosted(t) /\ t.sorts > 0
  <1>1. s \in Channel
    BY DEF Live
  <1>2. CASE s.dirty
    <2>1. RequestSort(s) = s
      BY <1>2 DEF RequestSort
    <2> QED
      BY <1>2, <2>1 DEF DirtyIsPosted
  <1>3. CASE ~s.dirty
    <2> DEFINE n == s.sorts + 1
               t == [s EXCEPT !.dirty = TRUE, !.sorts = n]
    <2>1. n \in Nat /\ n > 0
      BY <1>1 DEF Channel
    <2>2. RequestSort(s) = t
      BY <1>3 DEF RequestSort
    <2> HIDE DEF n
    <2>3. /\ t \in Channel /\ t.sorts = n
          /\ t.conns = s.conns /\ t.conn = s.conn /\ t.best = s.best
          /\ t.pending = s.pending /\ t.writable = s.writable /\ t.deletes = s.deletes
      BY <1>1, <2>1 DEF Channel
    <2> HIDE DEF t
    <2> QED
      BY <2>1, <2>2, <2>3 DEF Live, DirtyIsPosted
  <1> QED
    BY <1>2, <1>3

\* OnConnectionStateChange takes a nominated connection that has become writable.
LEMMA StateChangeKeeps ==
    ASSUME NEW s, Live(s), NEW role, NEW c \in s.conns
    PROVE  LET t == OnConnectionStateChange(s, role, c)
           IN  /\ Live(t)
               /\ t.conns = s.conns /\ t.conn = s.conn /\ t.writable = s.writable
               /\ t.pending \in {s.pending, NULL}
               /\ c = s.pending => Taken(t, role)
               /\ DirtyIsPosted(s) => DirtyIsPosted(t) /\ t.sorts > 0
  <1> DEFINE u == IF role = "CONTROLLED" /\ c = s.pending /\ ConnWritable(s, c)
                  THEN [s EXCEPT !.pending = NULL, !.best = c] ELSE s
  <1>1. /\ Live(u) /\ u.conns = s.conns /\ u.conn = s.conn /\ u.writable = s.writable
        /\ u.pending \in {s.pending, NULL} /\ u.dirty = s.dirty /\ u.sorts = s.sorts
        /\ c = s.pending => Taken(u, role)
    BY DEF Live, Channel, Taken, ConnWritable
  <1>2. OnConnectionStateChange(s, role, c) = RequestSort(u)
    BY DEF OnConnectionStateChange
  <1> HIDE DEF u
  <1> QED
    BY <1>1, <1>2, RequestSortKeeps DEF DirtyIsPosted, Taken, ConnWritable

\* CheckTimeout only posts a deletion of the connection.
LEMMA CheckTimeoutKeeps ==
    ASSUME NEW s, Live(s), NEW c \in s.conns
    PROVE  LET t == CheckTimeout(s, c)
           IN  /\ Live(t)
               /\ t.conns = s.conns /\ t.conn = s.conn /\ t.best = s.best
               /\ t.pending = s.pending /\ t.writable = s.writable
               /\ t.dirty = s.dirty /\ t.sorts = s.sorts
  BY DEF CheckTimeout, Live, Channel

\* What one connection's change of state amounts to for its channel: everything is kept but
\* that connection, a nomination that can now be taken is taken, and a sort is posted.
Changed(s, t, role, c) ==
    /\ Live(t) /\ t.conns = s.conns /\ t.writable = s.writable
    /\ \A d \in Conns \ {c} : t.conn[d] = s.conn[d]
    /\ t.pending \in {s.pending, NULL}
    /\ c = s.pending => Taken(t, role)
    /\ DirtyIsPosted(s) => DirtyIsPosted(t) /\ t.sorts > 0

\* A changed channel still does not sit on a nomination.
LEMMA ChangedTaken ==
    ASSUME NEW s, NEW t, NEW role, NEW c \in s.conns, Live(s), Changed(s, t, role, c),
           Taken(s, role)
    PROVE  Taken(t, role)
  BY NullIsNoConn DEF Changed, Taken, ConnWritable, Live, Channel

\* set_read_state and set_write_state.
LEMMA SetStateKeeps ==
    ASSUME NEW s, Live(s), NEW role, NEW c \in s.conns
    PROVE  /\ \A v \in {"INIT", "READABLE"} :
                LET t == set_read_state(s, role, c, v)
                IN  /\ t = s \/ Changed(s, t, role, c)
                    /\ t.conn = [s.conn EXCEPT ![c].read = v]
           /\ \A v \in WriteStates :
                LET t == set_write_state(s, role, c, v)
                IN  /\ t = s \/ Changed(s, t, role, c)
                    /\ t.conn = [s.conn EXCEPT ![c].write = v]
  <1>0. /\ c \in Conns /\ s.conn \in [Conns -> Connection] /\ s \in Channel
        /\ s.conn[c] \in Connection
    BY DEF Live, Channel
  <1>1. ASSUME NEW k \in Connection, NEW u, u = [s EXCEPT !.conn[c] = k]
        PROVE  LET t == CheckTimeout(OnConnectionStateChange(u, role, c), c)
               IN  Changed(s, t, role, c) /\ t.conn = [s.conn EXCEPT ![c] = k]
    <2>1. /\ Live(u) /\ u.conns = s.conns /\ u.conn = [s.conn EXCEPT ![c] = k]
          /\ u.pending = s.pending /\ u.writable = s.writable
          /\ u.dirty = s.dirty /\ u.sorts = s.sorts
      BY <1>0, <1>1 DEF Live, Channel
    <2> DEFINE v == OnConnectionStateChange(u, role, c)
               t == CheckTimeout(v, c)
    <2>2. /\ Live(v) /\ v.conns = s.conns /\ v.conn = [s.conn EXCEPT ![c] = k]
          /\ v.writable = s.writable
          /\ v.pending \in {s.pending, NULL}
          /\ c = s.pending => Taken(v, role)
          /\ DirtyIsPosted(s) => DirtyIsPosted(v) /\ v.sorts > 0
      BY <2>1, StateChangeKeeps DEF DirtyIsPosted
    <2> HIDE DEF v
    <2>3. /\ Live(t) /\ t.conns = v.conns /\ t.conn = v.conn /\ t.best = v.best
          /\ t.pending = v.pending /\ t.writable = v.writable
          /\ t.dirty = v.dirty /\ t.sorts = v.sorts
      BY <2>2, CheckTimeoutKeeps
    <2> HIDE DEF t
    <2>4. \A d \in Conns \ {c} : t.conn[d] = s.conn[d]
      BY <1>0, <2>2, <2>3
    <2> QED
      BY <2>2, <2>3, <2>4 DEF Changed, Taken, ConnWritable, DirtyIsPosted, t, v
  <1>2. ASSUME NEW x \in {"INIT", "READABLE"}
        PROVE  LET t == set_read_state(s, role, c, x)
               IN  /\ t = s \/ Changed(s, t, role, c)
                   /\ t.conn = [s.conn EXCEPT ![c].read = x]
    <2> DEFINE k == [s.conn[c] EXCEPT !.read = x]
               u == [s EXCEPT !.conn[c].read = x]
    <2>1. k \in Connection /\ u = [s EXCEPT !.conn[c] = k]
          /\ [s.conn EXCEPT ![c].read = x] = [s.conn EXCEPT ![c] = k]
      BY <1>0 DEF Connection, Channel
    <2>2. CASE s.conn[c].read = x
      <3>1. s.conn = [s.conn EXCEPT ![c].read = x]
        BY <1>0, <2>2 DEF Connection
      <3> QED
        BY <2>2, <3>1 DEF set_read_state
    <2>3. CASE s.conn[c].read # x
      BY <1>1, <2>1, <2>3 DEF set_read_state
    <2> QED
      BY <2>2, <2>3
  <1>3. ASSUME NEW x \in WriteStates
        PROVE  LET t == set_write_state(s, role, c, x)
               IN  /\ t = s \/ Changed(s, t, role, c)
                   /\ t.conn = [s.conn EXCEPT ![c].write = x]
    <2> DEFINE k == [s.conn[c] EXCEPT !.write = x]
               u == [s EXCEPT !.conn[c].write = x]
    <2>1. k \in Connection /\ u = [s EXCEPT !.conn[c] = k]
          /\ [s.conn EXCEPT ![c].write = x] = [s.conn EXCEPT ![c] = k]
      BY <1>0 DEF Connection, Channel
    <2>2. CASE s.conn[c].write = x
      <3>1. s.conn = [s.conn EXCEPT ![c].write = x]
        BY <1>0, <2>2 DEF Connection
      <3> QED
        BY <2>2, <3>1 DEF set_write_state
    <2>3. CASE s.conn[c].write # x
      BY <1>1, <2>1, <2>3 DEF set_write_state
    <2> QED
      BY <2>2, <2>3
  <1> QED
    BY <1>2, <1>3

\* UpdateState never makes a connection writable.
LEMMA UpdateStateKeeps ==
    ASSUME NEW k \in Connection, NEW wait
    PROVE  LET u == UpdateState(k, wait)
           IN  u \in Connection /\ (u.write = "WRITABLE" => k.write = "WRITABLE")
  <1> DEFINE k1 == IF /\ k.write = "WRITABLE" /\ wait # ""
                      /\ k.pings >= CONNECTION_WRITE_CONNECT_FAILURES
                   THEN [k EXCEPT !.write = "UNRELIABLE"] ELSE k
             u == IF k1.write \in {"UNRELIABLE", "INIT"} /\ wait = "write" /\ k.pings > 0
                  THEN [k1 EXCEPT !.write = "TIMEOUT"] ELSE k1
  <1>1. k1 \in Connection /\ (k1.write = "WRITABLE" => k.write = "WRITABLE")
    BY DEF Connection, WriteStates
  <1> HIDE DEF k1
  <1>2. u \in Connection /\ (u.write = "WRITABLE" => k1.write = "WRITABLE")
    BY <1>1 DEF Connection, WriteStates
  <1>3. UpdateState(k, wait) = u
    BY DEF UpdateState, k1
  <1> HIDE DEF u
  <1> QED
    BY <1>1, <1>2, <1>3

\* No connection becomes writable between s and t.
NoneRevived(s, t) == \A d \in Conns : ConnWritable(t, d) => ConnWritable(s, d)

\* UpdateConnectionStates.
LEMMA UpdateConnectionStatesKeeps ==
    ASSUME NEW s, Live(s), NEW c, NEW wait
    PROVE  LET t == UpdateConnectionStates(s, c, wait)
           IN  /\ Live(t) /\ NoneRevived(s, t)
               /\ t.conns = s.conns /\ t.writable = s.writable
               /\ t.pending = s.pending /\ t.best = s.best
               /\ DirtyIsPosted(s) => DirtyIsPosted(t) /\ (t = s \/ t.sorts > 0)
  <1> DEFINE k == UpdateState(s.conn[c], wait)
             u == [s EXCEPT !.conn[c] = k]
             v == RequestSort(u)
             t == CheckTimeout(v, c)
  <1>1. CASE c \notin s.conns \/ k = s.conn[c]
    <2>1. UpdateConnectionStates(s, c, wait) = s
      BY <1>1 DEF UpdateConnectionStates
    <2> QED
      BY <2>1 DEF NoneRevived
  <1>2. CASE c \in s.conns /\ k # s.conn[c]
    <2>0. UpdateConnectionStates(s, c, wait) = t
      BY <1>2 DEF UpdateConnectionStates
    <2>1. c \in Conns /\ s.conn \in [Conns -> Connection] /\ s.conn[c] \in Connection
      BY <1>2 DEF Live, Channel
    <2>2. k \in Connection /\ (k.write = "WRITABLE" => s.conn[c].write = "WRITABLE")
      BY <2>1, UpdateStateKeeps
    <2> HIDE DEF k
    <2>3. /\ Live(u) /\ u.conns = s.conns /\ u.conn = [s.conn EXCEPT ![c] = k]
          /\ u.pending = s.pending /\ u.writable = s.writable /\ u.best = s.best
          /\ u.dirty = s.dirty /\ u.sorts = s.sorts
      BY <2>1, <2>2 DEF Live, Channel
    <2> HIDE DEF u
    <2>4. /\ Live(v) /\ v.conns = s.conns /\ v.conn = u.conn
          /\ v.pending = s.pending /\ v.writable = s.writable /\ v.best = s.best
          /\ DirtyIsPosted(s) => DirtyIsPosted(v) /\ v.sorts > 0
      BY <2>3, RequestSortKeeps DEF DirtyIsPosted
    <2> HIDE DEF v
    <2>5. /\ Live(t) /\ t.conns = s.conns /\ t.conn = u.conn
          /\ t.pending = s.pending /\ t.writable = s.writable /\ t.best = s.best
          /\ DirtyIsPosted(s) => DirtyIsPosted(t) /\ t.sorts > 0
      BY <1>2, <2>4, CheckTimeoutKeeps DEF DirtyIsPosted
    <2> HIDE DEF t
    <2>6. NoneRevived(s, t)
      BY <2>1, <2>2, <2>3, <2>5 DEF NoneRevived, ConnWritable
    <2> QED
      BY <2>0, <2>5, <2>6
  <1> QED
    BY <1>1, <1>2

\* The controlling agent's choice is one of its connections.
LEMMA ChooseKeeps ==
    ASSUME NEW s, Live(s), NEW role
    PROVE  LET t == Choose(s, role)
           IN  /\ Live(t) /\ t.conns = s.conns /\ t.conn = s.conn
               /\ t.pending = s.pending /\ ~t.dirty
  <1> DEFINE top == TopOf(s, s.conns)
  <1>1. s \in Channel /\ s.conns \in SUBSET Conns
    BY DEF Live, Channel
  <1>2. top \in s.conns \cup {NULL}
    BY <1>1, TopIsMember
  <1>3. Choose(s, role) \in {[s EXCEPT !.dirty = FALSE, !.best = top], [s EXCEPT !.dirty = FALSE]}
    BY DEF Choose
  <1> HIDE DEF top
  <1>4. ASSUME NEW t \in {[s EXCEPT !.dirty = FALSE, !.best = top], [s EXCEPT !.dirty = FALSE]}
        PROVE  /\ Live(t) /\ t.conns = s.conns /\ t.conn = s.conn
               /\ t.pending = s.pending /\ ~t.dirty
    BY <1>1, <1>2 DEF Live, Channel
  <1> QED
    BY <1>3, <1>4

\* Prune takes the connections of C out of use.
LEMMA PruneKeeps ==
    ASSUME NEW s, Live(s), NEW C \in SUBSET s.conns
    PROVE  LET t == Prune(s, C)
           IN  /\ Live(t) /\ NoneRevived(s, t)
               /\ t.conns = s.conns /\ t.pending = s.pending
               /\ DirtyIsPosted(s) => DirtyIsPosted(t)
  <1> DEFINE new == {c \in C : ~s.conn[c].pruned}
             changed == {c \in new : s.conn[c].write # "TIMEOUT"}
             conn == [c \in Conns |->
                        IF c \in new THEN [s.conn[c] EXCEPT !.pruned = TRUE, !.request = FALSE,
                                                            !.write = "TIMEOUT"]
                                     ELSE s.conn[c]]
             deletes == s.deletes \cup {c \in changed : s.conn[c].read = "INIT"}
             t == [s EXCEPT !.conn = conn, !.deletes = deletes]
  <1>1. /\ s \in Channel /\ s.conns \in SUBSET Conns /\ s.conn \in [Conns -> Connection]
        /\ s.deletes \subseteq s.conns
    BY DEF Live, Channel
  <1>2. conn \in [Conns -> Connection]
    BY <1>1 DEF Connection, WriteStates
  <1>3. \A c \in Conns : conn[c].write = "WRITABLE" => s.conn[c].write = "WRITABLE"
    BY <1>1 DEF Connection
  <1>4. deletes \subseteq s.conns /\ deletes \in SUBSET Conns
    BY <1>1
  <1>5. Prune(s, C) = IF changed = {} THEN t ELSE RequestSort(t)
    BY DEF Prune
  <1> HIDE DEF conn, deletes, changed, new
  <1>6. /\ t \in Channel /\ t.conn = conn /\ t.conns = s.conns /\ t.deletes = deletes
        /\ t.best = s.best /\ t.pending = s.pending /\ t.dirty = s.dirty /\ t.sorts = s.sorts
    BY <1>1, <1>2, <1>4 DEF Channel
  <1> HIDE DEF t
  <1>7. Live(t)
    BY <1>4, <1>6 DEF Live
  <1>8. NoneRevived(s, t)
    BY <1>3, <1>6 DEF NoneRevived, ConnWritable
  <1> QED
    BY <1>5, <1>6, <1>7, <1>8, RequestSortKeeps DEF DirtyIsPosted, NoneRevived, ConnWritable

\* UpdateChannelState ends the sort: whatever it finds, the channel is good afterwards.
LEMMA UpdateChannelStateKeeps ==
    ASSUME NEW s, Live(s), DirtyIsPosted(s)
    PROVE  LET t == UpdateChannelState(s)
           IN  /\ Live(t) /\ DirtyIsPosted(t) /\ Follows(t)
               /\ t.conn = s.conn /\ t.pending = s.pending
  <1> DEFINE w == ConnWritable(s, s.best)
             r == \E c \in s.conns : s.conn[c].read = "READABLE"
             t == [s EXCEPT !.writable = w, !.readable = r]
  <1>1. w \in BOOLEAN /\ r \in BOOLEAN /\ s \in Channel
    BY DEF ConnWritable, Live
  <1>2. UpdateChannelState(s) = t
    BY DEF UpdateChannelState
  <1> HIDE DEF w, r
  <1>3. /\ t \in Channel /\ t.writable = w /\ t.conns = s.conns /\ t.conn = s.conn
        /\ t.best = s.best /\ t.pending = s.pending /\ t.deletes = s.deletes
        /\ t.dirty = s.dirty /\ t.sorts = s.sorts
    BY <1>1 DEF Channel
  <1> HIDE DEF t
  <1>4. w = ConnWritable(t, t.best)
    BY <1>3 DEF w, ConnWritable
  <1> QED
    BY <1>2, <1>3, <1>4 DEF Live, DirtyIsPosted, Follows

\* If no connection becomes writable, no nomination becomes one to take.
LEMMA NoneRevivedTaken ==
    ASSUME NEW s, NEW t, NEW role, Live(t), NoneRevived(s, t), t.pending = s.pending,
           Taken(s, role)
    PROVE  Taken(t, role)
  BY DEF NoneRevived, Taken, ConnWritable, Live, Channel

\* The state of agent a's channel becomes t, which is good.
Becomes(a, t) == ch' = [ch EXCEPT ![a] = t] /\ Good(t, ice[a])

\* A sort, in whatever state it is made, leaves a good channel.
LEMMA SortKeeps ==
    ASSUME NEW a \in Agents, NEW s, Live(s), Taken(s, ice[a].role), NotNominated(s, ice[a]),
           SortConnections(a, s)
    PROVE  \E t : Becomes(a, t)
  <1> DEFINE s1 == Choose(s, ice[a].role)
             s2 == Prune(s1, Redundant(s1))
             t == UpdateChannelState(s2)
  <1>1. ch' = [ch EXCEPT ![a] = t]
    BY DEF SortConnections
  <1>2. /\ Live(s1) /\ s1.conns = s.conns /\ s1.conn = s.conn
        /\ s1.pending = s.pending /\ ~s1.dirty
    BY ChooseKeeps
  <1> HIDE DEF s1
  <1>3. Redundant(s1) \in SUBSET s1.conns
    BY DEF Redundant
  <1>4. /\ Live(s2) /\ NoneRevived(s1, s2) /\ s2.pending = s1.pending
        /\ DirtyIsPosted(s2)
    BY <1>2, <1>3, PruneKeeps DEF DirtyIsPosted
  <1> HIDE DEF s2
  <1>5. /\ Live(t) /\ DirtyIsPosted(t) /\ Follows(t)
        /\ t.conn = s2.conn /\ t.pending = s2.pending
    BY <1>4, UpdateChannelStateKeeps
  <1> HIDE DEF t
  <1>6. NoneRevived(s, t)
    BY <1>2, <1>4, <1>5 DEF NoneRevived, ConnWritable
  <1>7. Taken(t, ice[a].role)
    BY <1>2, <1>4, <1>5, <1>6, NoneRevivedTaken
  <1>8. Good(t, ice[a])
    BY <1>2, <1>4, <1>5, <1>7 DEF Good, NotNominated
  <1> QED
    BY <1>1, <1>8 DEF Becomes

\* A new connection is not yet writable.
LEMMA AddConnectionKeeps ==
    ASSUME NEW s, Live(s), NEW c \in Conns, c \notin s.conns
    PROVE  LET t == AddConnection(s, c)
           IN  /\ Live(t) /\ NoneRevived(s, t) /\ t.pending = s.pending
               /\ c \in t.conns
  <1> DEFINE conns == s.conns \cup {c}
             conn == [s.conn EXCEPT ![c] = NewConn]
             t == [s EXCEPT !.conns = conns, !.conn = conn]
  <1>1. s \in Channel /\ s.conn \in [Conns -> Connection] /\ s.conns \in SUBSET Conns
    BY DEF Live, Channel
  <1>2. NewConn \in Connection /\ NewConn.write = "INIT"
    BY IceConstantsOK DEF NewConn, Connection, WriteStates
  <1>3. /\ conns \in SUBSET Conns /\ conn \in [Conns -> Connection]
        /\ \A d \in Conns : conn[d] = IF d = c THEN NewConn ELSE s.conn[d]
    BY <1>1, <1>2
  <1>4. AddConnection(s, c) = t
    BY DEF AddConnection
  <1> HIDE DEF conn
  <1>5. /\ t \in Channel /\ t.conns = conns /\ t.conn = conn
        /\ t.best = s.best /\ t.pending = s.pending /\ t.deletes = s.deletes
    BY <1>1, <1>3 DEF Channel
  <1> HIDE DEF t
  <1>6. Live(t)
    BY <1>5 DEF Live
  <1>7. NoneRevived(s, t)
    BY <1>2, <1>3, <1>5 DEF NoneRevived, ConnWritable
  <1> QED
    BY <1>4, <1>5, <1>6, <1>7

\* A change of one connection's state leaves a good channel.
LEMMA ChangedGood ==
    ASSUME NEW s, NEW t, NEW i, NEW c \in s.conns, Good(s, i), Changed(s, t, i.role, c)
    PROVE  Good(t, i)
  <1>1. Taken(t, i.role)
    BY ChangedTaken DEF Good
  <1> QED
    BY <1>1 DEF Good, Changed, Follows, NotNominated

\* OnUseCandidate by a controlled agent.
LEMMA OnUseCandidateKeeps ==
    ASSUME NEW s, NEW i, NEW c \in s.conns, Good(s, i), i.role = "CONTROLLED"
    PROVE  Good(OnUseCandidate(s, c), i)
  <1>1. s \in Channel /\ c \in Conns
    BY DEF Good, Live, Channel
  <1>2. CASE ConnWritable(s, c) /\ s.best = c
    BY <1>2 DEF OnUseCandidate
  <1>3. CASE ConnWritable(s, c) /\ s.best # c
    <2> DEFINE u == [s EXCEPT !.pending = NULL, !.best = c]
               t == RequestSort(u)
    <2>1. OnUseCandidate(s, c) = t
      BY <1>3 DEF OnUseCandidate
    <2>2. /\ Live(u) /\ u.pending = NULL /\ u.dirty = s.dirty /\ u.sorts = s.sorts
      BY <1>1 DEF Good, Live, Channel
    <2> HIDE DEF u
    <2>3. Live(t) /\ t.pending = NULL /\ DirtyIsPosted(t) /\ t.sorts > 0
      BY <2>2, RequestSortKeeps DEF DirtyIsPosted, Good
    <2> HIDE DEF t
    <2> QED
      BY <2>1, <2>3 DEF Good, Follows, Taken, ConnWritable, NotNominated
  <1>4. CASE ~ConnWritable(s, c)
    <2> DEFINE t == [s EXCEPT !.pending = c]
    <2>1. OnUseCandidate(s, c) = t
      BY <1>4 DEF OnUseCandidate
    <2>2. /\ Live(t) /\ t.pending = c /\ t.dirty = s.dirty /\ t.sorts = s.sorts
          /\ t.conn = s.conn /\ t.best = s.best /\ t.writable = s.writable
      BY <1>1 DEF Good, Live, Channel
    <2> HIDE DEF t
    <2> QED
      BY <1>4, <2>1, <2>2 DEF Good, Follows, Taken, ConnWritable, NotNominated, DirtyIsPosted
  <1> QED
    BY <1>2, <1>3, <1>4

\* OnConnectionDestroyed: no pointer to the connection is left.
LEMMA OnConnectionDestroyedKeeps ==
    ASSUME NEW s, NEW i, NEW c \in Conns, Good(s, i)
    PROVE  Good(OnConnectionDestroyed(s, c), i)
  <1> DEFINE conns == s.conns \ {c}
             conn == [s.conn EXCEPT ![c] = NewConn]
             deletes == s.deletes \ {c}
             pending == IF s.pending = c THEN NULL ELSE s.pending
             t == [s EXCEPT !.conns = conns, !.conn = conn, !.deletes = deletes,
                            !.pending = pending]
  <1>1. /\ Live(s) /\ s \in Channel /\ s.conn \in [Conns -> Connection]
        /\ s.conns \in SUBSET Conns /\ s.deletes \in SUBSET Conns
        /\ s.pending \in Conns \cup {NULL}
    BY DEF Good, Live, Channel
  <1>2. NewConn \in Connection /\ NewConn.write = "INIT"
    BY IceConstantsOK DEF NewConn, Connection, WriteStates
  <1>3. /\ conns \in SUBSET Conns /\ conn \in [Conns -> Connection]
        /\ \A d \in Conns : conn[d] = IF d = c THEN NewConn ELSE s.conn[d]
        /\ deletes \in SUBSET Conns /\ pending \in Conns \cup {NULL}
        /\ deletes \subseteq conns /\ pending \in conns \cup {NULL}
    BY <1>1, <1>2 DEF Live
  <1>4. OnConnectionDestroyed(s, c) = IF s.best = c THEN RequestSort([t EXCEPT !.best = NULL]) ELSE t
    BY DEF OnConnectionDestroyed
  <1> HIDE DEF conn, conns, deletes, pending
  <1>5. /\ t \in Channel /\ t.conns = conns /\ t.conn = conn
        /\ t.best = s.best /\ t.pending = pending /\ t.deletes = deletes
        /\ t.dirty = s.dirty /\ t.sorts = s.sorts /\ t.writable = s.writable
    BY <1>1, <1>3 DEF Channel
  <1> HIDE DEF t
  <1>6. \A d \in Conns : conn[d].write = "WRITABLE" => d # c /\ s.conn[d].write = "WRITABLE"
    BY <1>2, <1>3
  <1>7. ASSUME NEW u, u.conn = conn, u.pending = pending
        PROVE  Taken(u, i.role) /\ NotNominated(u, i)
    BY <1>1, <1>6, <1>7 DEF Good, Taken, ConnWritable, NotNominated, pending
  <1>8. CASE s.best = c
    <2> DEFINE u == [t EXCEPT !.best = NULL]
               v == RequestSort(u)
    <2>1. /\ u \in Channel /\ u.conns = conns /\ u.conn = conn /\ u.best = NULL
          /\ u.pending = pending /\ u.deletes = deletes
          /\ u.dirty = s.dirty /\ u.sorts = s.sorts
      BY <1>5 DEF Channel
    <2> HIDE DEF u
    <2>2. Live(u)
      BY <1>3, <2>1 DEF Live
    <2>3. Live(v) /\ v.conn = conn /\ v.pending = pending /\ DirtyIsPosted(v) /\ v.sorts > 0
      BY <2>1, <2>2, RequestSortKeeps DEF DirtyIsPosted, Good
    <2>4. OnConnectionDestroyed(s, c) = v
      BY <1>4, <1>8 DEF u
    <2> HIDE DEF v
    <2> QED
      BY <1>7, <2>3, <2>4 DEF Good, Follows
  <1>9. CASE s.best # c
    <2>1. Live(t)
      BY <1>1, <1>3, <1>5, <1>9 DEF Live, conns
    <2>2. ConnWritable(t, t.best) <=> ConnWritable(s, s.best)
      BY <1>1, <1>3, <1>5, <1>9 DEF Live, ConnWritable, Channel
    <2>3. DirtyIsPosted(t) /\ Follows(t)
      BY <1>5, <2>2 DEF Good, DirtyIsPosted, Follows, Channel, ConnWritable
    <2> QED
      BY <1>4, <1>5, <1>7, <1>9, <2>1, <2>3 DEF Good
  <1> QED
    BY <1>8, <1>9

\* A change of a connection that leaves its write state alone leaves the channel good.
LEMMA SameWritesGood ==
    ASSUME NEW s, NEW i, Good(s, i), NEW f \in [Conns -> Connection],
           \A d \in Conns : f[d].write = s.conn[d].write
    PROVE  Good([s EXCEPT !.conn = f], i)
  <1> DEFINE t == [s EXCEPT !.conn = f]
  <1>1. s \in Channel /\ s.best \in Conns \cup {NULL} /\ s.pending \in Conns \cup {NULL}
    BY DEF Good, Live, Channel
  <1>2. /\ t \in Channel /\ t.conns = s.conns /\ t.conn = f /\ t.best = s.best
        /\ t.pending = s.pending /\ t.deletes = s.deletes
        /\ t.dirty = s.dirty /\ t.sorts = s.sorts /\ t.writable = s.writable
    BY <1>1 DEF Channel
  <1> HIDE DEF t
  <1>3. \A d \in Conns \cup {NULL} : ConnWritable(t, d) = ConnWritable(s, d)
    BY <1>2 DEF ConnWritable
  <1>4. Live(t)
    BY <1>2 DEF Good, Live
  <1>5. DirtyIsPosted(t) /\ Follows(t) /\ Taken(t, i.role) /\ NotNominated(t, i)
    BY <1>1, <1>2, <1>3 DEF Good, DirtyIsPosted, Follows, Taken, NotNominated
  <1> QED
    BY <1>4, <1>5 DEF Good, t

-----------------------------------------------------------------------------
(* One lemma per action.                                                   *)

\* The invariant's parts about ice, the packets and the faults.
RestOK ==
    /\ ice' \in [Agents -> Agent]
    /\ \A b \in Agents : ice'[b].role = ice[b].role /\ ice'[b].role_switch = ice[b].role_switch
    /\ \A m \in net' : PacketOK(m)
    /\ faults' \in 0 .. MaxFaults

\* A step that makes one channel good and keeps the roles keeps the invariant.
LEMMA BecomesKeeps ==
    ASSUME IceInv, RestOK, NEW a \in Agents, \E t : Becomes(a, t)
    PROVE  IceInv'
  <1>1. PICK t : Becomes(a, t)
    OBVIOUS
  <1>2. t \in Channel
    BY <1>1 DEF Becomes, Good, Live
  <1>3. /\ ch' \in [Agents -> Channel]
        /\ \A b \in Agents : ch'[b] = IF b = a THEN t ELSE ch[b]
    BY <1>1, <1>2 DEF IceInv, Becomes
  <1>4. \A b \in Agents : Good(ch'[b], ice[b])
    BY <1>1, <1>3 DEF IceInv, Becomes
  <1>5. ASSUME NEW b \in Agents
        PROVE  Good(ch'[b], ice'[b])
    BY <1>4 DEF RestOK, Good, NotNominated
  <1> QED
    BY <1>3, <1>5 DEF IceInv, RestOK

\* So does one that keeps the channels.
LEMMA UnchangedKeeps ==
    ASSUME IceInv, RestOK, UNCHANGED ch
    PROVE  IceInv'
  <1>1. ASSUME NEW b \in Agents
        PROVE  Good(ch'[b], ice'[b])
    BY DEF IceInv, RestOK, Good, NotNominated
  <1> QED
    BY <1>1 DEF IceInv, RestOK

\* A signaled role conflict changes no role yet.
LEMMA SignalKeeps ==
    ASSUME IceInv, NEW a \in Agents, NEW yes, SignalRoleConflict(a, yes)
    PROVE  /\ ice' \in [Agents -> Agent]
           /\ \A b \in Agents :
                ice'[b].role = ice[b].role /\ ice'[b].role_switch = ice[b].role_switch
  BY DEF IceInv, Agent, SignalRoleConflict

\* Receiving a packet, with or without a reply.
LEMMA ReceivedKeeps ==
    ASSUME IceInv, NEW m, NEW reply, \A r \in reply : PacketOK(r), Received(m, reply)
    PROVE  (\A n \in net' : PacketOK(n)) /\ faults' \in 0 .. MaxFaults
  BY IceConstantsOK DEF IceInv, Received

\* How long pings have waited is a matter of faults only.
LEMMA WaitsKeeps ==
    ASSUME IceInv, NEW a, NEW c, NEW wait, Waits(a, c, wait) \/ PingWaits(a, c, wait)
    PROVE  faults' \in 0 .. MaxFaults
  <1>1. faults \in 0 .. MaxFaults
    BY DEF IceInv
  <1>2. faults' = faults \/ (faults < MaxFaults /\ faults' = faults + 1)
    BY DEF Waits, PingWaits, Counted
  <1> QED
    BY <1>1, <1>2, IceConstantsOK

\* A sort that first updates the states of the connections.
LEMMA UpdateAndSortKeeps ==
    ASSUME NEW a \in Agents, NEW s, Live(s), Taken(s, ice[a].role), NotNominated(s, ice[a]),
           NEW c, NEW wait, SortConnections(a, UpdateConnectionStates(s, c, wait))
    PROVE  \E t : Becomes(a, t)
  <1> DEFINE t == UpdateConnectionStates(s, c, wait)
  <1>1. Live(t) /\ NoneRevived(s, t) /\ t.pending = s.pending
    BY UpdateConnectionStatesKeeps
  <1> HIDE DEF t
  <1>2. Taken(t, ice[a].role)
    BY <1>1, NoneRevivedTaken
  <1>3. NotNominated(t, ice[a])
    BY <1>1 DEF NotNominated
  <1>4. SortConnections(a, t)
    BY DEF t
  <1> QED
    BY <1>1, <1>2, <1>3, <1>4, SortKeeps

\* A candidate arrives and the connections are sorted.
LEMMA OnCandidateKeeps ==
    ASSUME IceInv, NEW a \in Agents, NEW c \in Conns, OnCandidate(a, c)
    PROVE  IceInv'
  <1> DEFINE s == IF c \in ch[a].conns THEN ch[a] ELSE AddConnection(ch[a], c)
  <1>1. PICK d \in Conns \cup {NULL}, wait \in {"", "connect", "write"} :
            Waits(a, d, wait) /\ SortConnections(a, UpdateConnectionStates(s, d, wait))
    BY DEF OnCandidate
  <1>2. Good(ch[a], ice[a])
    BY DEF IceInv
  <1>3. Live(s) /\ NoneRevived(ch[a], s) /\ s.pending = ch[a].pending
    BY <1>2, AddConnectionKeeps DEF Good, NoneRevived
  <1>4. Taken(s, ice[a].role)
    BY <1>2, <1>3, NoneRevivedTaken DEF Good
  <1>5. NotNominated(s, ice[a])
    BY <1>2, <1>3 DEF Good, NotNominated
  <1> HIDE DEF s
  <1>8. \E u : Becomes(a, u)
    BY <1>1, <1>3, <1>4, <1>5, UpdateAndSortKeeps
  <1>9. RestOK
    BY <1>1, WaitsKeeps DEF OnCandidate, RestOK, IceInv
  <1> QED
    BY <1>8, <1>9, BecomesKeeps

\* The posted sort.
LEMMA OnSortKeeps ==
    ASSUME IceInv, NEW a \in Agents, OnSort(a)
    PROVE  IceInv'
  <1> DEFINE n == ch[a].sorts - 1
             s == [ch[a] EXCEPT !.sorts = n]
  <1>2. Good(ch[a], ice[a]) /\ ch[a] \in Channel
    BY DEF IceInv
  <1>3. n \in Nat
    <2>1. ch[a].sorts \in Nat
      BY <1>2 DEF Channel
    <2>2. ch[a].sorts > 0
      BY DEF OnSort
    <2> QED
      BY <2>1, <2>2
  <1>1. PICK c \in Conns \cup {NULL}, wait \in {"", "connect", "write"} :
            Waits(a, c, wait) /\ SortConnections(a, UpdateConnectionStates(s, c, wait))
    BY DEF OnSort
  <1> HIDE DEF n
  <1>4. /\ Live(s) /\ s.pending = ch[a].pending /\ s.conn = ch[a].conn
    BY <1>2, <1>3 DEF Good, Live, Channel
  <1> HIDE DEF s
  <1>5. Taken(s, ice[a].role)
    BY <1>2, <1>4 DEF Good, Taken, ConnWritable
  <1>6. NotNominated(s, ice[a])
    BY <1>2, <1>4 DEF Good, NotNominated
  <1>9. \E u : Becomes(a, u)
    BY <1>1, <1>4, <1>5, <1>6, UpdateAndSortKeeps
  <1>10. RestOK
    BY <1>1, WaitsKeeps DEF OnSort, RestOK, IceInv
  <1> QED
    BY <1>9, <1>10, BecomesKeeps

\* The posted deletion.
LEMMA OnDeleteKeeps ==
    ASSUME IceInv, NEW a \in Agents, NEW c \in Conns, OnDelete(a, c)
    PROVE  IceInv'
  <1>1. ch' = [ch EXCEPT ![a] = OnConnectionDestroyed(ch[a], c)]
    BY DEF OnDelete
  <1>2. Good(OnConnectionDestroyed(ch[a], c), ice[a])
    BY OnConnectionDestroyedKeeps DEF IceInv
  <1>3. RestOK
    BY DEF OnDelete, RestOK, IceInv
  <1>4. Becomes(a, OnConnectionDestroyed(ch[a], c))
    BY <1>1, <1>2 DEF Becomes
  <1> QED
    BY <1>3, <1>4, BecomesKeeps

\* UpdateConnectionStates outside a sort posts one.
LEMMA UpdateGood ==
    ASSUME NEW s, NEW i, Good(s, i), NEW c, NEW wait
    PROVE  Good(UpdateConnectionStates(s, c, wait), i)
  <1> DEFINE t == UpdateConnectionStates(s, c, wait)
  <1>1. /\ Live(t) /\ NoneRevived(s, t) /\ t.writable = s.writable
        /\ t.pending = s.pending /\ t.best = s.best
        /\ DirtyIsPosted(t) /\ (t = s \/ t.sorts > 0)
    BY UpdateConnectionStatesKeeps DEF Good
  <1> HIDE DEF t
  <1>2. Taken(t, i.role)
    BY <1>1, NoneRevivedTaken DEF Good
  <1>3. Follows(t)
    BY <1>1 DEF Good, Follows
  <1>4. Good(t, i)
    BY <1>1, <1>2, <1>3 DEF Good, NotNominated
  <1> QED
    BY <1>4 DEF t

\* Sending a ping leaves the channel good.
LEMMA PingGood ==
    ASSUME NEW s, NEW i, Good(s, i), NEW c \in Conns
    PROVE  Good([s EXCEPT !.conn[c].request = TRUE,
                          !.conn[c].pings = IF @ = CONNECTION_WRITE_CONNECT_FAILURES
                                            THEN @ ELSE @ + 1], i)
  <1>0. s \in Channel /\ s.conn \in [Conns -> Connection]
    BY DEF Good, Live, Channel
  <1> DEFINE p == IF s.conn[c].pings = CONNECTION_WRITE_CONNECT_FAILURES
                  THEN s.conn[c].pings ELSE s.conn[c].pings + 1
             k == [s.conn[c] EXCEPT !.request = TRUE, !.pings = p]
             f == [s.conn EXCEPT ![c] = k]
             t == [s EXCEPT !.conn = f]
  <1>1. p \in 0 .. CONNECTION_WRITE_CONNECT_FAILURES
    <2>1. s.conn[c].pings \in 0 .. CONNECTION_WRITE_CONNECT_FAILURES
      BY <1>0 DEF Connection
    <2> QED
      BY <2>1, IceConstantsOK
  <1>2. k \in Connection /\ k.write = s.conn[c].write
    <2> HIDE DEF p
    <2> QED
      BY <1>0, <1>1 DEF Connection
  <1>3. f \in [Conns -> Connection] /\ \A e \in Conns : f[e].write = s.conn[e].write
    <2> HIDE DEF k
    <2> QED
      BY <1>0, <1>2
  <1>4. Good(t, i)
    <2> HIDE DEF f
    <2> QED
      BY <1>3, SameWritesGood
  <1>5. t = [s EXCEPT !.conn[c].request = TRUE,
                      !.conn[c].pings = IF @ = CONNECTION_WRITE_CONNECT_FAILURES
                                        THEN @ ELSE @ + 1]
    BY <1>0 DEF Channel, Connection
  <1> QED
    BY <1>4, <1>5

\* A ping.
LEMMA OnPingKeeps ==
    ASSUME IceInv, NEW a \in Agents, NEW c \in Conns \cup {NULL}, OnPing(a, c)
    PROVE  IceInv'
  <1>1. PICK d \in Conns \cup {NULL}, wait \in {"", "connect", "write"} :
            /\ PingWaits(a, d, wait)
            /\ LET s == UpdateConnectionStates(ch[a], d, wait)
               IN  \/ c \in s.conns /\ Ping(a, s, c)
                   \/ ch' = [ch EXCEPT ![a] = s] /\ UNCHANGED net
    BY DEF OnPing
  <1> DEFINE s == UpdateConnectionStates(ch[a], d, wait)
  <1>2. Good(s, ice[a])
    BY UpdateGood DEF IceInv
  <1>3. CASE c \in s.conns /\ Ping(a, s, c)
    <2> DEFINE t == [s EXCEPT !.conn[c].request = TRUE,
                              !.conn[c].pings = IF @ = CONNECTION_WRITE_CONNECT_FAILURES
                                                THEN @ ELSE @ + 1]
               p == Packet("request", Other(a), c, ice[a].role, UseCandidate(s, ice[a].role, c))
    <2>1. ch' = [ch EXCEPT ![a] = t] /\ net' = net \cup {p}
      BY <1>3 DEF Ping
    <2>2. c \in Conns
      BY <1>2, <1>3 DEF Good, Live, Channel
    <2>3. Good(t, ice[a])
      BY <1>2, <2>2, PingGood
    <2>4. PacketOK(p)
      BY <2>2 DEF PacketOK, Packet
    <2> HIDE DEF s, t, p
    <2>5. RestOK
      BY <1>1, <2>1, <2>4, WaitsKeeps DEF OnPing, RestOK, IceInv
    <2>6. Becomes(a, t)
      BY <2>1, <2>3 DEF Becomes
    <2> QED
      BY <2>5, <2>6, BecomesKeeps
  <1>4. CASE ch' = [ch EXCEPT ![a] = s] /\ UNCHANGED net
    <2>1. RestOK
      BY <1>1, <1>4, WaitsKeeps DEF OnPing, RestOK, IceInv
    <2>2. Becomes(a, s)
      BY <1>2, <1>4 DEF Becomes
    <2> QED
      BY <2>1, <2>2, BecomesKeeps
  <1> QED
    BY <1>1, <1>3, <1>4

\* Forgetting a request.
LEMMA ForgetGood ==
    ASSUME NEW s, NEW i, Good(s, i), NEW c \in Conns
    PROVE  Good([s EXCEPT !.conn[c].request = FALSE], i)
  <1>0. s \in Channel /\ s.conn \in [Conns -> Connection] /\ s.conn[c] \in Connection
    BY DEF Good, Live, Channel
  <1> DEFINE k == [s.conn[c] EXCEPT !.request = FALSE]
             f == [s.conn EXCEPT ![c] = k]
  <1>1. k \in Connection /\ k.write = s.conn[c].write
    BY <1>0 DEF Connection
  <1>2. [s EXCEPT !.conn[c].request = FALSE] = [s EXCEPT !.conn = f]
    BY <1>0 DEF Channel
  <1> HIDE DEF k
  <1>3. f \in [Conns -> Connection] /\ \A e \in Conns : f[e].write = s.conn[e].write
    BY <1>0, <1>1
  <1> HIDE DEF f
  <1> QED
    BY <1>2, <1>3, SameWritesGood

\* A request times out.
LEMMA OnRequestTimeoutKeeps ==
    ASSUME IceInv, NEW a \in Agents, NEW c \in Conns, OnRequestTimeout(a, c)
    PROVE  IceInv'
  <1> DEFINE t == [ch[a] EXCEPT !.conn[c].request = FALSE]
  <1>1. Good(t, ice[a])
    BY ForgetGood DEF IceInv
  <1>2. ch' = [ch EXCEPT ![a] = t]
    BY DEF OnRequestTimeout
  <1>3. RestOK
    BY IceConstantsOK DEF OnRequestTimeout, RestOK, IceInv
  <1> HIDE DEF t
  <1>4. Becomes(a, t)
    BY <1>1, <1>2 DEF Becomes
  <1> QED
    BY <1>3, <1>4, BecomesKeeps

\* set_read_state and set_write_state of a good channel.
LEMMA SetStateGood ==
    ASSUME NEW s, NEW i, Good(s, i), NEW c \in s.conns
    PROVE  /\ \A v \in {"INIT", "READABLE"} :
                /\ Good(set_read_state(s, i.role, c, v), i)
                /\ set_read_state(s, i.role, c, v).conns = s.conns
           /\ \A v \in WriteStates :
                /\ Good(set_write_state(s, i.role, c, v), i)
                /\ set_write_state(s, i.role, c, v).conns = s.conns
  <1>1. Live(s)
    BY DEF Good
  <1>2. ASSUME NEW t, t = s \/ Changed(s, t, i.role, c)
        PROVE  Good(t, i) /\ t.conns = s.conns
    BY <1>2, ChangedGood DEF Changed
  <1> QED
    BY <1>1, <1>2, SetStateKeeps

\* A binding request on a connection the channel has.
LEMMA OnBindingRequestKeeps ==
    ASSUME IceInv, NEW a \in Agents, NEW m, m.conn \in ch[a].conns, OnBindingRequest(a, m)
    PROVE  \E t : Becomes(a, t)
  <1> DEFINE c == m.conn
             role == ice[a].role
             s == ReceivedPing(ch[a], role, c)
             t == IF ~s.conn[c].pruned /\ s.conn[c].write = "TIMEOUT"
                  THEN set_write_state(s, role, c, "INIT") ELSE s
             u == IF role = "CONTROLLED" /\ m.use THEN OnUseCandidate(t, c) ELSE t
  <1>1. ch' = [ch EXCEPT ![a] = u]
    BY DEF OnBindingRequest
  <1>2. Good(s, ice[a]) /\ s.conns = ch[a].conns
    BY SetStateGood DEF IceInv, ReceivedPing
  <1> HIDE DEF s
  <1>3. Good(t, ice[a]) /\ t.conns = ch[a].conns
    BY <1>2, SetStateGood DEF WriteStates
  <1> HIDE DEF t
  <1>4. Good(u, ice[a])
    BY <1>3, OnUseCandidateKeeps
  <1> HIDE DEF u
  <1> QED
    BY <1>1, <1>4 DEF Becomes

\* A binding request from an unknown address.
LEMMA OnUnknownAddressKeeps ==
    ASSUME IceInv, NEW a \in Agents, NEW c \in Conns, c \notin ch[a].conns, OnUnknownAddress(a, c)
    PROVE  \E t : Becomes(a, t)
  <1> DEFINE r == AddConnection(ch[a], c)
             s == ReceivedPing(r, ice[a].role, c)
  <1>0. Good(ch[a], ice[a])
    BY DEF IceInv
  <1>1. Live(r) /\ NoneRevived(ch[a], r) /\ r.pending = ch[a].pending /\ c \in r.conns
    BY <1>0, AddConnectionKeeps DEF Good
  <1> HIDE DEF r
  <1>2. Taken(r, ice[a].role) /\ NotNominated(r, ice[a])
    BY <1>0, <1>1, NoneRevivedTaken DEF Good, NotNominated
  <1>3. s = r \/ Changed(r, s, ice[a].role, c)
    BY <1>1, SetStateKeeps DEF ReceivedPing
  <1>4. SortConnections(a, s)
    BY DEF OnUnknownAddress, r
  <1> HIDE DEF s
  <1>5. Live(s) /\ Taken(s, ice[a].role)
    BY <1>1, <1>2, <1>3, ChangedTaken DEF Changed
  <1>6. NotNominated(s, ice[a])
    BY <1>2, <1>3 DEF Changed, NotNominated
  <1> QED
    BY <1>4, <1>5, <1>6, SortKeeps

\* A binding request.
LEMMA ReceiveRequestKeeps ==
    ASSUME IceInv, NEW a \in Agents, NEW m \in net, ReceiveRequest(a, m)
    PROVE  IceInv'
  <1> DEFINE conflict == Conflict(a, m.role)
             reply(kind) == {Packet(kind, Other(a), m.conn, "", FALSE)}
  <1>0. m.conn \in Conns
    BY DEF IceInv, PacketOK
  <1>1. ASSUME NEW kind, NEW r \in reply(kind)
        PROVE  PacketOK(r)
    <2>1. r = Packet(kind, Other(a), m.conn, "", FALSE)
      OBVIOUS
    <2>2. r.conn = m.conn
      BY <2>1 DEF Packet
    <2> QED
      BY <1>0, <2>2 DEF PacketOK
  <1>2. \E kind : Received(m, reply(kind))
    BY DEF ReceiveRequest
  <1>3. (\A n \in net' : PacketOK(n)) /\ faults' \in 0 .. MaxFaults
    <2> HIDE DEF reply
    <2> QED
      BY <1>1, <1>2, ReceivedKeeps
  <1>4. ice' = ice \/ SignalRoleConflict(a, conflict = "switch")
    BY DEF ReceiveRequest
  <1>5. RestOK
    <2>1. CASE ice' = ice
      BY <1>3, <2>1 DEF RestOK, IceInv
    <2>2. CASE SignalRoleConflict(a, conflict = "switch")
      BY <1>3, <2>2, SignalKeeps DEF RestOK
    <2> QED
      BY <1>4, <2>1, <2>2
  <1>6. \/ UNCHANGED ch
        \/ m.conn \in ch[a].conns /\ OnBindingRequest(a, m)
        \/ m.conn \notin ch[a].conns /\ OnUnknownAddress(a, m.conn)
    BY DEF ReceiveRequest
  <1>7. CASE UNCHANGED ch
    BY <1>5, <1>7, UnchangedKeeps
  <1>8. CASE m.conn \in ch[a].conns /\ OnBindingRequest(a, m)
    BY <1>5, <1>8, OnBindingRequestKeeps, BecomesKeeps
  <1>9. CASE m.conn \notin ch[a].conns /\ OnUnknownAddress(a, m.conn)
    BY <1>0, <1>5, <1>9, OnUnknownAddressKeeps, BecomesKeeps
  <1> QED
    BY <1>6, <1>7, <1>8, <1>9

\* A response: the connection becomes writable.
LEMMA OnResponseGood ==
    ASSUME NEW s, NEW i, Good(s, i), NEW c \in s.conns
    PROVE  Good(OnConnectionRequestResponse(s, i.role, c), i)
  <1> DEFINE t == set_write_state(s, i.role, c, "WRITABLE")
  <1>1. Good(t, i)
    BY SetStateGood DEF WriteStates
  <1>2. OnConnectionRequestResponse(s, i.role, c)
          = [t EXCEPT !.conn[c].pings = 0, !.conn[c].request = FALSE]
    BY DEF OnConnectionRequestResponse
  <1> HIDE DEF t
  <1>3. /\ t \in Channel /\ t.conn \in [Conns -> Connection] /\ c \in Conns
        /\ t.conn[c] \in Connection
    BY <1>1 DEF Good, Live, Channel
  <1> DEFINE k == [t.conn[c] EXCEPT !.pings = 0, !.request = FALSE]
             f == [t.conn EXCEPT ![c] = k]
  <1>4. 0 \in 0 .. CONNECTION_WRITE_CONNECT_FAILURES
    BY IceConstantsOK
  <1>5. k \in Connection /\ k.write = t.conn[c].write
    BY <1>3, <1>4 DEF Connection
  <1>6. [t EXCEPT !.conn[c].pings = 0, !.conn[c].request = FALSE] = [t EXCEPT !.conn = f]
    BY <1>3 DEF Channel
  <1> HIDE DEF k
  <1>7. f \in [Conns -> Connection] /\ \A e \in Conns : f[e].write = t.conn[e].write
    BY <1>3, <1>5
  <1> HIDE DEF f
  <1> QED
    BY <1>1, <1>2, <1>6, <1>7, SameWritesGood

\* An answer to a request.
LEMMA ReceiveResponseKeeps ==
    ASSUME IceInv, NEW a \in Agents, NEW m \in net, ReceiveResponse(a, m)
    PROVE  IceInv'
  <1> DEFINE waiting == m.conn \in ch[a].conns /\ ch[a].conn[m.conn].request
  <1>0. m.conn \in Conns /\ Good(ch[a], ice[a])
    BY DEF IceInv, PacketOK
  <1>1. (\A n \in net' : PacketOK(n)) /\ faults' \in 0 .. MaxFaults
    BY ReceivedKeeps DEF ReceiveResponse
  <1>2. SignalRoleConflict(a, waiting /\ m.kind = "ROLE_CONFLICT")
    BY DEF ReceiveResponse
  <1>3. RestOK
    BY <1>1, <1>2, SignalKeeps DEF RestOK
  <1>4. CASE ~waiting
    BY <1>3, <1>4, UnchangedKeeps DEF ReceiveResponse
  <1>5. CASE waiting /\ m.kind = "response"
    <2> DEFINE t == OnConnectionRequestResponse(ch[a], ice[a].role, m.conn)
    <2>1. ch' = [ch EXCEPT ![a] = t]
      BY <1>5 DEF ReceiveResponse
    <2>2. Good(t, ice[a])
      BY <1>0, <1>5, OnResponseGood
    <2> HIDE DEF t
    <2>3. Becomes(a, t)
      BY <2>1, <2>2 DEF Becomes
    <2> QED
      BY <1>3, <2>3, BecomesKeeps
  <1>6. CASE waiting /\ m.kind # "response"
    <2> DEFINE t == [ch[a] EXCEPT !.conn[m.conn].request = FALSE]
    <2>1. ch' = [ch EXCEPT ![a] = t]
      BY <1>6 DEF ReceiveResponse
    <2>2. Good(t, ice[a])
      BY <1>0, ForgetGood
    <2> HIDE DEF t
    <2>3. Becomes(a, t)
      BY <2>1, <2>2 DEF Becomes
    <2> QED
      BY <1>3, <2>3, BecomesKeeps
  <1> QED
    BY <1>4, <1>5, <1>6

\* Data revives a connection that was given up.
LEMMA ReceiveDataKeeps ==
    ASSUME IceInv, NEW a \in Agents, NEW c \in Conns, ReceiveData(a, c)
    PROVE  IceInv'
  <1> DEFINE t == set_write_state(ch[a], ice[a].role, c, "INIT")
  <1>1. Good(t, ice[a])
    BY SetStateGood DEF IceInv, ReceiveData, WriteStates
  <1>2. ch' = [ch EXCEPT ![a] = t]
    BY DEF ReceiveData
  <1> HIDE DEF t
  <1>3. Becomes(a, t)
    BY <1>1, <1>2 DEF Becomes
  <1>4. RestOK
    BY DEF ReceiveData, RestOK, IceInv
  <1> QED
    BY <1>3, <1>4, BecomesKeeps

\* An agent that is made the controlled one controlled from the start, and was not nominated to.
LEMMA OnRoleConflictKeeps ==
    ASSUME IceInv, NEW a \in Agents, OnRoleConflict(a)
    PROVE  IceInv'
  <1> DEFINE i == [role |-> IF ice[a].role_switch THEN ice[a].role ELSE Opposite(ice[a].role),
                   role_switch |-> TRUE, posted |-> FALSE]
  <1>1. ice' = [ice EXCEPT ![a] = i] /\ UNCHANGED <<ch, known, net, faults>>
    BY DEF OnRoleConflict
  <1>2. ice[a] \in Agent /\ ice \in [Agents -> Agent]
    BY DEF IceInv
  <1>3. i \in Agent /\ i.role_switch
    BY <1>2 DEF Agent, Opposite, Roles
  <1>4. i.role = "CONTROLLED" => \/ ice[a].role = "CONTROLLED"
                                 \/ ice[a].role = "CONTROLLING" /\ ~ice[a].role_switch
    BY <1>2 DEF Opposite, Agent, Roles
  <1> HIDE DEF i
  <1>5. Good(ch[a], i)
    <2>1. Good(ch[a], ice[a])
      BY DEF IceInv
    <2>2. Taken(ch[a], i.role)
      BY <1>4, <2>1 DEF Good, Taken, NotNominated, ConnWritable
    <2> QED
      BY <1>3, <2>1, <2>2 DEF Good, NotNominated
  <1>6. \A b \in Agents : ice'[b] = IF b = a THEN i ELSE ice[b]
    BY <1>1, <1>2
  <1>7. \A b \in Agents : Good(ch'[b], ice'[b])
    BY <1>1, <1>5, <1>6 DEF IceInv
  <1> QED
    BY <1>1, <1>2, <1>3, <1>7 DEF IceInv

\* A packet is lost.
LEMMA LoseKeeps ==
    ASSUME IceInv, NEW m \in net, Lose(m)
    PROVE  IceInv'
  <1>1. faults' \in 0 .. MaxFaults
    BY IceConstantsOK DEF Lose, IceInv
  <1>2. RestOK
    BY <1>1 DEF Lose, RestOK, IceInv
  <1> QED
    BY <1>2, UnchangedKeeps DEF Lose

-----------------------------------------------------------------------------
(* The theorems.                                                           *)

\* A new channel is good in any role.
LEMMA InitIsGood == Init => IceInv
  <1> SUFFICES ASSUME Init PROVE IceInv
    OBVIOUS
  <1>1. NewConn \in Connection
    BY IceConstantsOK DEF NewConn, Connection, WriteStates
  <1>2. NewChannel \in Channel
    BY <1>1 DEF NewChannel, Channel
  <1>3. /\ NewChannel.best = NULL /\ NewChannel.pending = NULL /\ NewChannel.deletes = {}
        /\ ~NewChannel.dirty /\ NewChannel.writable = FALSE
    BY DEF NewChannel
  <1>4. ASSUME NEW i
        PROVE  Good(NewChannel, i)
    <2>1. Live(NewChannel)
      BY <1>2, <1>3 DEF Live
    <2>2. \A c : c = NULL => ConnWritable(NewChannel, c) = FALSE
      BY DEF ConnWritable
    <2>3. Follows(NewChannel) /\ Taken(NewChannel, i.role)
      BY <1>3, <2>2 DEF Follows, Taken
    <2> QED
      BY <1>3, <2>1, <2>3 DEF Good, DirtyIsPosted, NotNominated
  <1>5. ice \in [Agents -> Agent]
    <2>1. PICK role \in InitialRoles : ice = [a \in Agents |->
             [role |-> role[a], role_switch |-> FALSE, posted |-> FALSE]]
      BY DEF Init
    <2>2. role \in [Agents -> Roles]
      BY IceConstantsOK
    <2> QED
      BY <2>1, <2>2 DEF Agent
  <1>6. faults \in 0 .. MaxFaults
    BY IceConstantsOK DEF Init
  <1> QED
    BY <1>2, <1>4, <1>5, <1>6 DEF Init, IceInv

\* Every step of either agent, and of the network, preserves the invariant.
LEMMA NextKeeps == IceInv /\ [Next]_vars => IceInv'
  <1> SUFFICES ASSUME IceInv, [Next]_vars PROVE IceInv'
    OBVIOUS
  <1>1. ASSUME NEW a \in Agents, NEW c \in Conns, OnCandidate(a, c) PROVE IceInv'
    BY <1>1, OnCandidateKeeps
  <1>2. ASSUME NEW a \in Agents, NEW c \in Conns \cup {NULL}, OnPing(a, c) PROVE IceInv'
    BY <1>2, OnPingKeeps
  <1>3. ASSUME NEW a \in Agents, NEW c \in Conns, OnDelete(a, c) PROVE IceInv'
    BY <1>3, OnDeleteKeeps
  <1>4. ASSUME NEW a \in Agents, NEW c \in Conns, OnRequestTimeout(a, c) PROVE IceInv'
    BY <1>4, OnRequestTimeoutKeeps
  <1>5. ASSUME NEW a \in Agents, NEW c \in Conns, ReceiveData(a, c) PROVE IceInv'
    BY <1>5, ReceiveDataKeeps
  <1>6. ASSUME NEW a \in Agents, OnSort(a) PROVE IceInv'
    BY <1>6, OnSortKeeps
  <1>7. ASSUME NEW a \in Agents, OnRoleConflict(a) PROVE IceInv'
    BY <1>7, OnRoleConflictKeeps
  <1>8. ASSUME NEW a \in Agents, NEW m \in net, ReceiveRequest(a, m) PROVE IceInv'
    BY <1>8, ReceiveRequestKeeps
  <1>9. ASSUME NEW a \in Agents, NEW m \in net, ReceiveResponse(a, m) PROVE IceInv'
    BY <1>9, ReceiveResponseKeeps
  <1>10. ASSUME NEW m \in net, Lose(m) PROVE IceInv'
    BY <1>10, LoseKeeps
  <1>11. CASE UNCHANGED vars
    BY <1>11 DEF vars, IceInv
  <1> QED
    BY <1>1, <1>2, <1>3, <1>4, <1>5, <1>6, <1>7, <1>8, <1>9, <1>10, <1>11 DEF Next

\* The invariant holds in every state the agents reach.
THEOREM IceInvariance == Spec => []IceInv
  BY InitIsGood, NextKeeps, PTL DEF Spec

\* Only connections that exist are to be deleted, and the states, counters and roles of both
\* agents keep their types, whatever the network does.
THEOREM IceTypeCorrect == Spec => []IceTypeOK
  <1>1. IceInv => IceTypeOK
    <2> SUFFICES ASSUME IceInv PROVE IceTypeOK
      OBVIOUS
    <2>1. DOMAIN WriteRank = WriteStates
      BY DEF WriteRank, WriteStates
    <2>2. ASSUME NEW a \in Agents, NEW c \in Conns
          PROVE  /\ ch[a].conn[c].write \in DOMAIN WriteRank
                 /\ ch[a].conn[c].pings \in 0 .. CONNECTION_WRITE_CONNECT_FAILURES
      BY <2>1 DEF IceInv, Channel, Connection
    <2>3. ASSUME NEW a \in Agents
          PROVE  /\ ch[a].conns \subseteq Conns /\ ch[a].deletes \subseteq ch[a].conns
                 /\ ch[a].sorts \in Nat /\ ice[a].role \in Roles
      BY DEF IceInv, Good, Live, Channel, Agent
    <2> QED
      BY <2>2, <2>3 DEF IceTypeOK, IceInv
  <1> QED
    BY <1>1, IceInvariance, PTL

\* Neither agent ever keeps a pointer to a connection that has been deleted.
THEOREM BestIsAlwaysLive == Spec => []BestIsLive
  <1>1. IceInv => BestIsLive
    BY DEF IceInv, Good, Live, BestIsLive
  <1> QED
    BY <1>1, IceInvariance, PTL

\* A channel whose reported writability is wrong has a sort posted that corrects it.
THEOREM WritableAlwaysFollows == Spec => []WritableFollows
  <1>1. IceInv => WritableFollows
    BY DEF IceInv, Good, Follows, WritableFollows
  <1> QED
    BY <1>1, IceInvariance, PTL

\* A controlled agent never sits on a nomination it could take, through any change of roles.
THEOREM NominationIsAlwaysTaken == Spec => []NominationIsTaken
  <1>1. IceInv => NominationIsTaken
    BY DEF IceInv, Good, Taken, NominationIsTaken
  <1> QED
    BY <1>1, IceInvariance, PTL

=============================================================================
