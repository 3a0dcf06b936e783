------------------------------ MODULE PseudoTcp ------------------------------
(***************************************************************************)
(* PseudoTcp (webrtc/p2p/base/pseudotcp.cc): a reliable byte stream over   *)
(* packets that are lost, duplicated and reordered, as the tunnel's        *)
(* PseudoTcpChannel (webrtc/libjingle/session/tunnel/pseudotcpchannel.cc)  *)
(* drives it: two ends, each with an application that reads and writes     *)
(* only when an event tells it to.  Every call holds the channel's lock,   *)
(* so a call is one step.                                                  *)
(*                                                                         *)
(* A byte is the number of its place in its application's stream; sizes    *)
(* are scaled down.  Times are left out: a timer that is armed may fire,   *)
(* early ones within the budget.  Window scaling, round-trip estimates and *)
(* changes of the buffer sizes are not modelled, and no segment carries    *)
(* FLAG_RST because nothing in the code sends one.                         *)
(***************************************************************************)
EXTENDS Integers, Sequences, SequencesExt

CONSTANTS PacketMaximums,  \* PACKET_MAXIMUMS less the overhead, largest first
          Routes,          \* what NotifyMTU may be told, less the overhead
          RBufLen, SBufLen,
          ConnectLen,      \* length of the CONNECT message
          UseNagling,      \* m_use_nagling
          AckDelay,        \* m_ack_delay is not 0
          XmitLimit,       \* transmissions of a segment when established (15) and
          ConnectLimit,    \*   before (30)
          SeqSpace,        \* 2^32
          Connecting,      \* the ends that call Connect
          ReadLen,         \* bytes asked for by a Read
          Workloads        \* bounds: how many bytes each application writes, which of them
                           \*   close then, how many mishaps there are and of which kinds,
                           \*   the MTU advised at first and the one of the path

Ends == {"a", "b"}
Peer(e) == IF e = "a" THEN "b" ELSE "a"

\* Packets lost, repeated and overtaken; timers that run out early, sends that come
\* late, a change of route, a channel that fails for good.
Kinds == {"lose", "repeat", "overtake", "early", "late", "route", "break"}

ASSUME PseudoTcpConstantsOK ==
    /\ PacketMaximums \in Seq(Nat \ {0}) /\ PacketMaximums # <<>>
    /\ Routes \subseteq Nat \ {0}
    /\ RBufLen \in Nat \ {0} /\ SBufLen \in Nat \ {0}
    /\ ConnectLen \in 1..Last(PacketMaximums) /\ ConnectLen <= RBufLen
    /\ {UseNagling, AckDelay} \subseteq BOOLEAN
    /\ {XmitLimit, ConnectLimit, ReadLen, SeqSpace} \subseteq Nat
    /\ Connecting \subseteq Ends
    /\ Workloads \subseteq [writes : [Ends -> Nat], closing : SUBSET Ends,
                            mishaps : Nat, kinds : SUBSET Kinds,
                            mtu : Nat \ {0}, path : Nat \ {0}]
    /\ \A w \in Workloads, e \in Ends : SeqSpace > RBufLen + SBufLen + ConnectLen + w.writes[e]

VARIABLES tcp,      \* the PseudoTcpChannel of each end and its PseudoTcp
          net,      \* packets on their way to each end
          written,  \* how much each application has written
          got,      \* what each application has read
          plan      \* the workload, and how many mishaps are left of it

vars == <<tcp, net, written, got, plan>>

Smaller(m, n) == IF m < n THEN m ELSE n
Larger(m, n) == IF m > n THEN m ELSE n
Plus(m, n) == (m + n) % SeqSpace                            \* uint32
Minus(m, n) == (m - n) % SeqSpace
Junk == -1                                                \* memory nobody has written

Fresh(mtu, path) ==
    [state |-> "LISTEN", shutdown |-> FALSE, stream |-> TRUE,
     readEvent |-> FALSE, writeEvent |-> FALSE,           \* SE_READ and SE_WRITE posted
     readEnable |-> TRUE, writeEnable |-> FALSE,
     rcv_nxt |-> 0, rcv_wnd |-> RBufLen, rlist |-> <<>>,
     rbuf |-> <<>>, ahead |-> <<>>,                       \* m_rbuf, and what is written past it
     snd_nxt |-> 0, snd_una |-> 0, snd_wnd |-> 1, slist |-> <<>>, sbuf |-> <<>>,
     mss |-> Last(PacketMaximums), msslevel |-> 1, mtu |-> mtu,
     path |-> path,                                       \* longer packets are refused
     rto |-> FALSE, t_ack |-> FALSE,                      \* m_rto_base and m_t_ack are set
     cwnd |-> 2 * Last(PacketMaximums), ssthresh |-> RBufLen, dup_acks |-> 0, recover |-> 0,
     idle |-> FALSE,                                      \* nothing sent for m_rx_rto
     broken |-> FALSE,                                    \* TcpWritePacket fails
     out |-> <<>>]                                        \* packets written in this step

Init ==
    /\ net = [e \in Ends |-> <<>>]
    /\ written = [e \in Ends |-> 0]
    /\ got = [e \in Ends |-> <<>>]
    /\ plan \in Workloads
    /\ tcp = [e \in Ends |-> Fresh(plan.mtu, plan.path)]

InFlight(t) == Minus(t.snd_nxt, t.snd_una)
Room(t) == RBufLen - Len(t.rbuf)                          \* GetWriteRemaining of m_rbuf

\* The n values of s from offset on; past its end, whatever the memory holds.
Bytes(s, offset, n) ==
    [i \in 1..n |-> IF offset + i \in DOMAIN s THEN s[offset + i] ELSE Junk]

-----------------------------------------------------------------------------
(* Sending. *)

\* A packet the network takes; an ACK packet (len = 0) is never retried.
packet(t, seq, ctl, offset, len) ==
    LET p == [seq |-> seq, ctl |-> ctl, ack |-> t.rcv_nxt, wnd |-> t.rcv_wnd,
              data |-> Bytes(t.sbuf, offset, len)]
    IN [t EXCEPT !.out = IF t.broken THEN @ ELSE Append(@, p), !.t_ack = FALSE,
                 !.idle = @ /\ len = 0]

ackPacket(t) == packet(t, t.snd_nxt, FALSE, 0, 0)

closedown(t) == [t EXCEPT !.state = "CLOSED"]

\* The levels of the MTU that are left to try and that the path takes.
FittingLevels(t) ==
    {l \in DOMAIN PacketMaximums : l > t.msslevel /\ PacketMaximums[l] <= t.path}

\* TcpWritePacket refused len bytes as too large: go down the levels.
lowerMss(t, len) ==
    LET level == IF FittingLevels(t) = {} THEN Len(PacketMaximums)
                 ELSE CHOOSE l \in FittingLevels(t) : \A m \in FittingLevels(t) : l <= m
    IN IF len <= t.path \/ t.msslevel = Len(PacketMaximums) THEN t
       ELSE [t EXCEPT !.msslevel = level, !.mss = PacketMaximums[level],
                      !.cwnd = 2 * PacketMaximums[level]]

\* Sequence q with segs in place of its element i.
Splice(q, i, segs) == SubSeq(q, 1, i - 1) \o segs \o SubSeq(q, i + 1, Len(q))

\* transmit: send segment i, split if it is longer than a packet may be.
transmit(t, i) ==
    LET seg == t.slist[i]
        limit == IF t.state = "ESTABLISHED" THEN XmitLimit ELSE ConnectLimit
        asked == Smaller(seg.len, t.mss)
        low == lowerMss(t, asked)
        n == Smaller(asked, low.mss)
        sent == packet(low, seg.seq, seg.ctl, Minus(seg.seq, t.snd_una), n)
        first == [seg EXCEPT !.len = n, !.xmit = @ + 1]
        rest == [seg EXCEPT !.seq = Plus(@, n), !.len = @ - n]
    IN IF seg.xmit >= limit \/ t.broken THEN [ok |-> FALSE, tcp |-> t]
       ELSE IF n > t.path THEN [ok |-> FALSE, tcp |-> low]
       ELSE [ok |-> TRUE,
             tcp |-> [sent EXCEPT
                       !.slist = Splice(@, i, IF n < seg.len THEN <<first, rest>> ELSE <<first>>),
                       !.snd_nxt = IF seg.xmit = 0 THEN Plus(@, n) ELSE @,
                       !.rto = TRUE]]

\* How much attemptSend would send now.
Available(t) ==
    LET cwnd == IF t.dup_acks \in {1, 2} THEN t.cwnd + t.dup_acks * t.mss ELSE t.cwnd
        nWindow == Smaller(t.snd_wnd, cwnd)
        nUseable == IF InFlight(t) < nWindow THEN nWindow - InFlight(t) ELSE 0
        nAvailable == Smaller(Minus(Len(t.sbuf), InFlight(t)), t.mss)
    IN IF nAvailable <= nUseable THEN nAvailable
       ELSE IF nUseable * 4 < nWindow THEN 0 ELSE nUseable

\* The segment to send next, cut to what may be sent.
Cut(t, i, n) ==
    LET seg == t.slist[i]
    IN IF seg.len <= n THEN t
       ELSE [t EXCEPT !.slist = Splice(@, i, <<[seg EXCEPT !.len = n],
                                               [seg EXCEPT !.seq = Plus(@, n), !.len = @ - n]>>)]

\* One turn of attemptSend's loop.
SendTurn(s) ==
    LET t == s.tcp
        n == Available(t)
        next == SelectInSeq(t.slist, LAMBDA seg : seg.xmit = 0)
        r == transmit(Cut(t, next, n), next)
    IN IF s.done THEN s
       ELSE IF n = 0
            THEN [s EXCEPT !.done = TRUE,
                           !.tcp = CASE s.flags = "none" -> t
                                     [] s.flags = "immediate" \/ (s.flags = "delayed" /\ t.t_ack)
                                          -> ackPacket(t)
                                     [] OTHER -> [t EXCEPT !.t_ack = TRUE]]
       ELSE IF UseNagling /\ t.snd_nxt > t.snd_una /\ n < t.mss THEN [s EXCEPT !.done = TRUE]
       ELSE [tcp |-> r.tcp, flags |-> "none", done |-> ~r.ok]

\* attemptSend; when the last send is more than m_rx_rto ago the window starts over.
attemptSend(t, flags) ==
    LET turns[n \in 0..SBufLen + 1] ==
            IF n = 0
            THEN [tcp |-> IF t.idle THEN [t EXCEPT !.cwnd = t.mss] ELSE t,
                  flags |-> flags, done |-> FALSE]
            ELSE SendTurn(turns[n - 1])
    IN turns[SBufLen + 1].tcp

\* queue: what fits of data, joined to the last segment if that is unsent.
queue(t, data, ctl) ==
    LET d == SubSeq(data, 1, Smaller(Len(data), SBufLen - Len(t.sbuf)))
        n == Len(t.slist)
        joins == n > 0 /\ t.slist[n].ctl = ctl /\ t.slist[n].xmit = 0
        seg == [seq |-> Plus(t.snd_una, Len(t.sbuf)), len |-> Len(d), xmit |-> 0, ctl |-> ctl]
        longer == [t.slist EXCEPT ![n].len = @ + Len(d)]
    IN [t EXCEPT !.sbuf = @ \o d, !.slist = IF joins THEN longer ELSE Append(@, seg)]

queueConnectMessage(t) ==
    queue([t EXCEPT !.snd_wnd = ConnectLen], [i \in 1..ConnectLen |-> 0], TRUE)

-----------------------------------------------------------------------------
(* Receiving: process, part by part. *)

adjustMTU(t) ==
    LET fits == {l \in DOMAIN PacketMaximums : PacketMaximums[l] <= t.mtu}
        level == IF fits = {} THEN Len(PacketMaximums)
                 ELSE CHOOSE l \in fits : \A m \in fits : l <= m
    IN [t EXCEPT !.msslevel = level, !.mss = t.mtu,
                 !.ssthresh = Larger(@, 2 * t.mtu), !.cwnd = Larger(@, t.mtu)]

\* TCP_ESTABLISHED, and OnTcpOpen posts SE_OPEN | SE_READ | SE_WRITE.
Opened(t) ==
    adjustMTU([t EXCEPT !.state = "ESTABLISHED", !.readEvent = t.stream, !.writeEvent = t.stream])

\* A CONNECT message.
Connected(t, p) ==
    CASE p.ctl /\ t.state = "LISTEN" -> queueConnectMessage([t EXCEPT !.state = "SYN_RECEIVED"])
      [] p.ctl /\ t.state = "SYN_SENT" -> Opened(t)
      [] OTHER -> t

\* What an ack of acc.n bytes, counted from the segment's start, does to the segment:
\* it stays, loses as many bytes, or is dropped.
Free(acc, seg) ==
    CASE acc.n = 0                    -> [acc EXCEPT !.left = Append(@, seg)]
      [] acc.n # 0 /\ acc.n < seg.len -> [n |-> 0, left |-> Append(acc.left, [seg EXCEPT !.len = @ - acc.n])]
      [] OTHER                        -> [acc EXCEPT !.n = @ - seg.len]

\* The segments left when n bytes have been acknowledged.
FreeSegments(slist, n) ==
    LET freed[i \in 0..Len(slist)] ==
            IF i = 0 THEN [n |-> n, left |-> <<>>] ELSE Free(freed[i - 1], slist[i])
    IN freed[Len(slist)].left

\* Mutant: the retransmit timer goes on when everything is acknowledged.
NewAck_KeepsTimer(t, p) ==
    LET nAcked == Minus(p.ack, t.snd_una)
    IN [t EXCEPT !.snd_wnd = p.wnd, !.snd_una = p.ack, !.dup_acks = 0,
                 !.sbuf = SubSeq(@, nAcked + 1, Len(@)), !.slist = FreeSegments(@, nAcked)]

\* A valuable ack.
NewAck(t, p) ==
    LET nAcked == Minus(p.ack, t.snd_una)
        acked == [t EXCEPT !.snd_wnd = p.wnd, !.snd_una = p.ack, !.rto = p.ack # t.snd_nxt,
                           !.sbuf = SubSeq(@, nAcked + 1, Len(@)),
                           !.slist = FreeSegments(@, nAcked)]
        again == transmit(acked, 1)
    IN CASE t.dup_acks < 3 ->                             \* slow start, congestion avoidance
              [acked EXCEPT !.dup_acks = 0,
                            !.cwnd = @ + IF @ < t.ssthresh THEN t.mss
                                         ELSE Larger(1, (t.mss * t.mss) \div @)]
         [] t.dup_acks >= 3 /\ p.ack >= t.recover ->      \* exit recovery
              [acked EXCEPT !.dup_acks = 0,
                            !.cwnd = Smaller(t.ssthresh, InFlight(acked) + t.mss)]
         [] t.dup_acks >= 3 /\ p.ack < t.recover ->       \* recovery retransmit
              IF again.ok
              THEN [again.tcp EXCEPT !.cwnd = @ + again.tcp.mss - Smaller(nAcked, @)]
              ELSE closedown(again.tcp)

\* An ack of what is acknowledged already: it may open the window, and the
\* third one without data retransmits.
OldAck(t, p) ==
    LET opened == [t EXCEPT !.snd_wnd = p.wnd]
        dup == [opened EXCEPT !.dup_acks = (@ + 1) % 256]
        again == transmit(dup, 1)
        half == Larger(InFlight(again.tcp) \div 2, 2 * again.tcp.mss)
    IN CASE p.data # <<>> -> opened
         [] p.data = <<>> /\ t.snd_una = t.snd_nxt -> [opened EXCEPT !.dup_acks = 0]
         [] p.data = <<>> /\ t.snd_una # t.snd_nxt ->
              CASE dup.dup_acks = 3 ->
                     IF again.ok
                     THEN [again.tcp EXCEPT !.recover = again.tcp.snd_nxt, !.ssthresh = half,
                                            !.cwnd = half + 3 * again.tcp.mss]
                     ELSE closedown(again.tcp)
                [] dup.dup_acks > 3 -> [dup EXCEPT !.cwnd = @ + t.mss]
                [] OTHER -> dup

Acked(t, p) ==
    CASE p.ack > t.snd_una /\ p.ack <= t.snd_nxt -> NewAck(t, p)
      [] p.ack = t.snd_una -> OldAck(t, p)
      [] OTHER -> t

\* Any packet but a CONNECT opens the side that listened.
Confirmed(t, p) == IF t.state = "SYN_RECEIVED" /\ ~p.ctl THEN Opened(t) ELSE t

\* OnTcpWriteable, when the send buffer has run low enough.
Refilled(t) ==
    IF t.writeEnable /\ Len(t.sbuf) < (SBufLen + RBufLen) \div 2
    THEN [t EXCEPT !.writeEnable = FALSE, !.writeEvent = t.stream]
    ELSE t

\* The part of the segment that is new and fits the receive buffer.
Fitted(t, p) ==
    LET old == Minus(t.rcv_nxt, p.seq)
        new == IF p.seq >= t.rcv_nxt THEN p
               ELSE IF old < Len(p.data)
                    THEN [p EXCEPT !.seq = t.rcv_nxt, !.data = SubSeq(@, old + 1, Len(@))]
                    ELSE [p EXCEPT !.data = <<>>]
        end == Minus(Plus(new.seq, Len(new.data)), t.rcv_nxt)
        over == end - Room(t)
    IN IF over <= 0 THEN new
       ELSE IF over < Len(new.data) THEN [new EXCEPT !.data = SubSeq(@, 1, Len(@) - over)]
       ELSE [new EXCEPT !.data = <<>>]

\* WriteOffset into m_rbuf, past what can be read.
WriteOffset(t, offset, data) ==
    LET written_ == {offset + i : i \in 0..Len(data) - 1}
    IN [t EXCEPT !.ahead = [o \in DOMAIN @ \cup written_ |->
                              IF o \in written_ THEN data[o - offset + 1] ELSE @[o]]]

\* Mutant: m_rcv_wnd is not reduced.
Consume_KeepsWindow(t, n) ==
    [t EXCEPT
      !.rbuf = @ \o [i \in 1..n |-> IF i - 1 \in DOMAIN t.ahead THEN t.ahead[i - 1] ELSE Junk],
      !.ahead = [o \in {x - n : x \in {y \in DOMAIN @ : y >= n}} |-> @[o + n]],
      !.rcv_nxt = Plus(@, n)]

\* ConsumeWriteBuffer(n): n more bytes can be read; m_rcv_nxt and m_rcv_wnd follow.
Consume(t, n) ==
    [t EXCEPT
      !.rbuf = @ \o [i \in 1..n |-> IF i - 1 \in DOMAIN t.ahead THEN t.ahead[i - 1] ELSE Junk],
      !.ahead = [o \in {x - n : x \in {y \in DOMAIN @ : y >= n}} |-> @[o + n]],
      !.rcv_nxt = Plus(@, n), !.rcv_wnd = Minus(@, n)]

\* Mutant: a saved segment is taken though one before it is missing.
Recover_OverGap(t) ==
    LET taken[i \in 0..Len(t.rlist)] ==
            IF i = 0 THEN [t EXCEPT !.rlist = <<>>] ELSE Consume(taken[i - 1], t.rlist[i].len)
    IN taken[Len(t.rlist)]

\* A saved segment is taken if the stream has reached it.
Reach(t, seg) ==
    LET end == Plus(seg.seq, seg.len)
    IN IF seg.seq > t.rcv_nxt THEN [t EXCEPT !.rlist = Append(@, seg)]
       ELSE IF end > t.rcv_nxt THEN Consume(t, end - t.rcv_nxt)
       ELSE t

Recover(t) ==
    LET reached[i \in 0..Len(t.rlist)] ==
            IF i = 0 THEN [t EXCEPT !.rlist = <<>>] ELSE Reach(reached[i - 1], t.rlist[i])
    IN reached[Len(t.rlist)]

\* A segment that came too early is saved, in the order of the list.
Save(t, p) ==
    LET next == SelectInSeq(t.rlist, LAMBDA seg : seg.seq >= p.seq)
        place == IF next = 0 THEN Len(t.rlist) + 1 ELSE next
    IN [WriteOffset(t, Minus(p.seq, t.rcv_nxt), p.data) EXCEPT
          !.rlist = InsertAt(@, place, [seq |-> p.seq, len |-> Len(p.data)])]

\* The data of a segment: control data and data after Close are skipped.
Received(t, p) ==
    LET q == Fitted(t, p)
        n == Len(q.data)
    IN CASE n = 0 -> t
         [] n > 0 /\ (q.ctl \/ t.shutdown) ->
              IF q.seq = t.rcv_nxt THEN [t EXCEPT !.rcv_nxt = Plus(@, n)] ELSE t
         [] n > 0 /\ ~q.ctl /\ ~t.shutdown /\ q.seq = t.rcv_nxt ->
              Recover(Consume(WriteOffset(t, 0, q.data), n))
         [] n > 0 /\ ~q.ctl /\ ~t.shutdown /\ q.seq # t.rcv_nxt -> Save(t, q)

\* Which ack a segment asks for; one that fills a gap is acknowledged at once.
AckFor(t, p, after) ==
    CASE p.seq # t.rcv_nxt -> "immediate"
      [] p.seq = t.rcv_nxt /\ p.data = <<>> -> "none"
      [] p.seq = t.rcv_nxt /\ p.data # <<>> ->
           IF ~AckDelay \/ after.rcv_nxt > Plus(p.seq, Len(p.data)) THEN "immediate" ELSE "delayed"

\* OnTcpReadable, once until a Recv finds nothing.
Readable(t, new) ==
    IF new /\ t.readEnable THEN [t EXCEPT !.readEnable = FALSE, !.readEvent = t.stream] ELSE t

process(t, p) ==
    LET heard == Acked(Connected(t, p), p)
        ready == Refilled(Confirmed(heard, p))
        after == Received(ready, p)
    IN IF t.state = "CLOSED" THEN t
       ELSE IF heard.state = "CLOSED" THEN heard
       ELSE Readable(attemptSend(after, AckFor(ready, p, after)),
                     Len(after.rbuf) > Len(ready.rbuf))

-----------------------------------------------------------------------------
(* The channel: calls of the worker thread and of the stream's thread. *)

\* AdjustClock: GetNextClock says false when nothing is left to do after Close,
\* and tcp_ is deleted (failed is what the properties remember of it).
AdjustClock(t) ==
    IF t.shutdown /\ (t.state # "ESTABLISHED" \/ (t.sbuf = <<>> /\ ~t.t_ack))
    THEN [state |-> "DELETED", failed |-> t.state # "ESTABLISHED" \/ t.broken, out |-> t.out]
    ELSE t

Alive(e) == tcp[e].state # "DELETED"

\* The end of a call: what it wrote goes on the network.
StepFrom(e, t, packets) ==
    /\ tcp' = [tcp EXCEPT ![e] = [t EXCEPT !.out = <<>>]]
    /\ net' = [packets EXCEPT ![Peer(e)] = @ \o t.out]

Step(e, t) == StepFrom(e, t, net)

Mishap(kind) == kind \in plan.kinds /\ plan.mishaps > 0 /\ plan' = [plan EXCEPT !.mishaps = @ - 1]

\* OnChannelWritableState of an initiator.
Connect(e) ==
    /\ e \in Connecting /\ Alive(e) /\ tcp[e].state = "LISTEN"
    /\ LET syn == queueConnectMessage([tcp[e] EXCEPT !.state = "SYN_SENT"])
       IN Step(e, AdjustClock(attemptSend(syn, "none")))
    /\ UNCHANGED <<written, got, plan>>

\* OnChannelRead: packet i of those on their way, the first unless they are reordered.
NotifyPacket(e, i) ==
    /\ i \in DOMAIN net[e]
    /\ IF i = 1 THEN UNCHANGED plan ELSE Mishap("overtake")
    /\ LET rest == [net EXCEPT ![e] = RemoveAt(@, i)]
       IN IF ~Alive(e) THEN net' = rest /\ UNCHANGED tcp
          ELSE StepFrom(e, AdjustClock(process(tcp[e], net[e][i])), rest)
    /\ UNCHANGED <<written, got>>

\* Mutant: a closed window is not probed.
Armed_NoProbe(t) ==
    {x \in {"rto", "ack"} : CASE x = "rto" -> t.rto [] x = "ack" -> t.t_ack}

\* The timers that are set.
Armed(t) ==
    {x \in {"rto", "probe", "ack"} : CASE x = "rto" -> t.rto
                                       [] x = "probe" -> t.snd_wnd = 0
                                       [] x = "ack" -> t.t_ack}

\* NotifyClock, part by part, for the timers that are due.
Retransmit(t) ==
    LET again == transmit(t, 1)
    IN IF again.ok
       THEN [again.tcp EXCEPT !.ssthresh = Larger(InFlight(again.tcp) \div 2, 2 * again.tcp.mss),
                              !.cwnd = again.tcp.mss]
       ELSE closedown(again.tcp)

Probe(t) == [packet(t, Minus(t.snd_nxt, 1), FALSE, 0, 0) EXCEPT !.idle = FALSE]

Clocked(t, due, dead) ==
    LET resent == IF "rto" \in due THEN Retransmit(t) ELSE t
        probes == "probe" \in due /\ "rto" \notin due     \* a retransmission sets m_lastsend
        probed == IF probes THEN Probe(resent) ELSE resent
    IN CASE resent.state = "CLOSED" -> resent
         [] resent.state # "CLOSED" /\ dead /\ probes -> closedown(resent)
         [] OTHER -> IF "ack" \in due /\ probed.t_ack THEN ackPacket(probed) ELSE probed

NotifyClock(e, due, dead) ==
    /\ Alive(e) /\ tcp[e].state # "CLOSED"
    /\ due # {} /\ due \subseteq Armed(tcp[e])
    /\ Step(e, AdjustClock(Clocked(tcp[e], due, dead)))
    /\ UNCHANGED <<written, got>>

\* Timers run out when nothing is on its way any more; the delayed ack, the
\* shortest of them, when nothing is on its way to this end.
Clock(e) ==
    /\ Alive(e)
    /\ \A f \in Ends : net[f] = <<>>
    /\ NotifyClock(e, Armed(tcp[e]), FALSE)
    /\ UNCHANGED plan

AckClock(e) ==
    /\ Alive(e) /\ net[e] = <<>>
    /\ NotifyClock(e, {"ack"}, FALSE)
    /\ UNCHANGED plan

\* A timer that runs out while packets are on their way, and 15 seconds
\* without a packet (dead).
EarlyClock(e) ==
    /\ Mishap("early")
    /\ \E due \in SUBSET {"rto", "probe", "ack"}, dead \in BOOLEAN :
         /\ dead => "probe" \in due /\ "rto" \notin due
         /\ NotifyClock(e, due, dead)

\* OnChannelConnectionChanged: another route has another MTU.
NotifyMTU(e, mtu) ==
    /\ Mishap("route")
    /\ Alive(e)
    /\ LET t == [tcp[e] EXCEPT !.mtu = mtu]
       IN Step(e, AdjustClock(IF t.state = "ESTABLISHED" THEN adjustMTU(t) ELSE t))
    /\ UNCHANGED <<written, got>>

\* The application reads, told by SE_READ.
Read(e) ==
    /\ Alive(e) /\ tcp[e].readEvent
    /\ LET t == tcp[e]
           n == Smaller(ReadLen, Len(t.rbuf))
           read == [t EXCEPT !.rbuf = SubSeq(@, n + 1, Len(@))]
           wide == [read EXCEPT !.rcv_wnd = Room(read)]
           blocked == [t EXCEPT !.readEvent = FALSE, !.readEnable = TRUE]
       IN CASE t.state # "ESTABLISHED" -> Step(e, [t EXCEPT !.readEvent = FALSE]) /\ UNCHANGED got
            [] t.state = "ESTABLISHED" /\ n = 0 -> Step(e, blocked) /\ UNCHANGED got
            [] t.state = "ESTABLISHED" /\ n > 0 ->
                 /\ got' = [got EXCEPT ![e] = @ \o SubSeq(t.rbuf, 1, n)]
                 /\ IF Minus(Room(read), t.rcv_wnd) < Smaller(RBufLen \div 2, t.mss)
                    THEN Step(e, read)
                    ELSE IF t.rcv_wnd > 0 THEN Step(e, wide)
                    ELSE Step(e, attemptSend(wide, "immediate"))
    /\ UNCHANGED <<written, plan>>

\* The application writes what it has left, told by SE_WRITE.
Write(e) ==
    /\ Alive(e) /\ tcp[e].writeEvent
    /\ LET t == tcp[e]
           data == [i \in 1..plan.writes[e] - written[e] |-> written[e] + i]
           queued == queue(t, data, FALSE)
       IN CASE t.state # "ESTABLISHED" \/ data = <<>> ->
                 Step(e, [t EXCEPT !.writeEvent = FALSE]) /\ UNCHANGED written
            [] t.state = "ESTABLISHED" /\ data # <<>> /\ Len(t.sbuf) = SBufLen ->
                 /\ Step(e, [t EXCEPT !.writeEvent = FALSE, !.writeEnable = TRUE])
                 /\ UNCHANGED written
            [] t.state = "ESTABLISHED" /\ data # <<>> /\ Len(t.sbuf) < SBufLen ->
                 /\ written' = [written EXCEPT ![e] = @ + Len(queued.sbuf) - Len(t.sbuf)]
                 /\ Step(e, attemptSend(queued, "none"))
    /\ UNCHANGED <<got, plan>>

\* The application closes its stream when it has written everything.
Close(e) ==
    /\ e \in plan.closing /\ Alive(e) /\ tcp[e].stream /\ written[e] = plan.writes[e]
    /\ Step(e, AdjustClock([tcp[e] EXCEPT !.stream = FALSE, !.readEvent = FALSE,
                                          !.writeEvent = FALSE, !.shutdown = TRUE]))
    /\ UNCHANGED <<written, got, plan>>

\* The network loses or repeats a packet; the channel below fails for good.
Lose(e, i) ==
    /\ Mishap("lose")
    /\ i \in DOMAIN net[e]
    /\ net' = [net EXCEPT ![e] = RemoveAt(@, i)]
    /\ UNCHANGED <<tcp, written, got>>

Duplicate(e, i) ==
    /\ Mishap("repeat")
    /\ i \in DOMAIN net[e]
    /\ net' = [net EXCEPT ![e] = Append(@, @[i])]
    /\ UNCHANGED <<tcp, written, got>>

\* m_rx_rto passes since the last data was sent.
Rest(e) ==
    /\ Mishap("late")
    /\ Alive(e) /\ ~tcp[e].idle
    /\ tcp' = [tcp EXCEPT ![e].idle = TRUE]
    /\ UNCHANGED <<net, written, got>>

Break(e) ==
    /\ Mishap("break")
    /\ Alive(e) /\ ~tcp[e].broken
    /\ tcp' = [tcp EXCEPT ![e].broken = TRUE]
    /\ UNCHANGED <<net, written, got>>

EndStep(e) ==
    \/ Connect(e)
    \/ NotifyPacket(e, 1)
    \/ Clock(e)
    \/ AckClock(e)
    \/ Read(e)
    \/ Write(e)
    \/ Close(e)

Fault(e) ==
    \/ \E i \in DOMAIN net[e] : \/ i > 1 /\ NotifyPacket(e, i)
                                \/ Lose(e, i)
                                \/ Duplicate(e, i)
    \/ EarlyClock(e)
    \/ \E mtu \in Routes : NotifyMTU(e, mtu)
    \/ Rest(e)
    \/ Break(e)

Next == \E e \in Ends : EndStep(e) \/ Fault(e)

Spec == Init /\ [][Next]_vars

-----------------------------------------------------------------------------
(* Properties. *)

Established(e) == Alive(e) /\ tcp[e].state # "CLOSED"

\* The connection was given up, or its packets cannot be sent.
Failed(e) ==
    IF Alive(e) THEN tcp[e].state = "CLOSED" \/ tcp[e].broken ELSE tcp[e].failed

\* Only faults can happen at this end.
Idle(e) ==
    /\ net[e] = <<>>
    /\ Alive(e) => ~tcp[e].readEvent /\ ~tcp[e].writeEvent
    /\ Established(e) => Armed(tcp[e]) = {} /\ ~(e \in Connecting /\ tcp[e].state = "LISTEN")

\* What an application reads, with what waits for it in m_rbuf, is a prefix of
\* what the other one wrote, whatever is lost, repeated, reordered, split or
\* retransmitted.
StreamIsPrefix ==
    \A e \in Ends :
        LET s == got[e] \o (IF Alive(e) THEN tcp[e].rbuf ELSE <<>>)
        IN Len(s) <= written[Peer(e)] /\ \A i \in DOMAIN s : s[i] = i

\* The segments of m_slist lie end to end from m_snd_una over all of m_sbuf,
\* those sent before those not sent, the first of these at m_snd_nxt: what
\* transmit reads at m_slist.begin() is what m_snd_una points at.  The
\* retransmit timer runs exactly while something is in flight.
SendListTiles ==
    \A e \in Ends : Established(e) =>
        LET t == tcp[e]
            End(i) == IF i = 0 THEN t.snd_una ELSE t.slist[i].seq + t.slist[i].len
            sent == {i \in DOMAIN t.slist : t.slist[i].xmit > 0}
        IN /\ \A i \in DOMAIN t.slist : t.slist[i].seq = End(i - 1) /\ t.slist[i].len > 0
           /\ End(Len(t.slist)) = t.snd_una + Len(t.sbuf)
           /\ \A i \in DOMAIN t.slist : i \in sent <=> End(i) <= t.snd_nxt
           /\ \E i \in 0..Len(t.slist) : End(i) = t.snd_nxt
           /\ t.rto <=> sent # {}

\* No data on its way is more than its receiver has room for: process never
\* cuts a segment's end off, so an ack never falls inside a segment, and
\* m_rcv_wnd never promises more than is free.
WindowIsKept ==
    \A e \in Ends : Alive(e) =>
        /\ tcp[e].rcv_wnd <= Room(tcp[e])
        /\ \A i \in DOMAIN net[e] :
             net[e][i].seq + Len(net[e][i].data) <= tcp[e].rcv_nxt + Room(tcp[e])

\* When nothing is left to happen (no packet on its way, no event posted, no
\* timer set) everything that was written has been read, even if the writer
\* closed its stream right after its last Write: no ack, window update, timer
\* or event that somebody waits for has been left out.  A connection that was
\* given up, or whose packets cannot be sent, is excepted.
NeverStuck ==
    (\A e \in Ends : Idle(e)) =>
        \/ \E e \in Ends : Failed(e)
        \/ \A e \in Ends : Peer(e) \in plan.closing \/ Len(got[Peer(e)]) = plan.writes[e]
=============================================================================
