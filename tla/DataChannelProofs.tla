------------------------- MODULE DataChannelProofs -------------------------
(***************************************************************************)
(* Machine-checked proofs about DataChannel, for every size limit, every   *)
(* set of message sizes and both kinds of channel.                         *)
(*                                                                         *)
(* The member functions of the code are operators on the object's record,  *)
(* so the proof follows the code's call graph: one lemma for every         *)
(* function says that it preserves the record invariant Good, and the      *)
(* inductive step only has to look up the functions an action calls.       *)
(***************************************************************************)
EXTENDS DataChannelProperties, FiniteSetTheorems, SequenceTheorems, TLAPS

-----------------------------------------------------------------------------
(* The inductive invariant, as a predicate of the record and of heard.     *)

NoControl(s) == s.queued_control = 0 /\ ~ControlOnWire(s)

\* Only RTP channels have SSRCs, only SCTP channels queue anything to send.
ByType(s) ==
    /\ SCTP => ~s.send_ssrc_set /\ ~s.receive_ssrc_set
    /\ RTP => s.queued_control = 0 /\ s.queued_send.packets = <<>>

\* Nothing is sent or queued before the channel is writable the first time.
QuietBeforeReady(s) ==
    ~s.was_ever_writable =>
      /\ s.state # "kOpen"
      /\ s.queued_control = 0
      /\ s.wire = <<>>
      /\ s.queued_send.packets = <<>>

OneControl(s) ==
    /\ s.queued_control <= 1
    /\ \A i, j \in DOMAIN s.wire :
         s.wire[i].type = "CONTROL" /\ s.wire[j].type = "CONTROL" => i = j
    /\ s.queued_control > 0 => ~ControlOnWire(s)
    /\ s.role = "kNone" => NoControl(s)

Delivering(s) == s.state = "kOpen" /\ s.observer => s.queued_received.packets = <<>>

Reachable(s) == s.connected /\ s.state # "kClosed" => s.transport /\ s.listed

\* h: the channel has heard of its peer.
OrderedWhileWaiting(s, h) ==
    IsOpener(s) /\ ~h =>
      /\ ControlOnWire(s) => s.waiting_for_open_ack
      /\ \A i, j \in DOMAIN s.wire :
           i < j /\ s.wire[i].type = "CONTROL" => s.wire[j].ordered

AssertsHold(s) == s.asserts \cap {"OnChannelReady", "Send"} = {}

\* All of it but Delivering, which UpdateState breaks and restores.
Almost(s, h) ==
    /\ s \in DataChannelRecord
    /\ ByType(s)
    /\ QuietBeforeReady(s)
    /\ OneControl(s)
    /\ Reachable(s)
    /\ OrderedWhileWaiting(s, h)
    /\ AssertsHold(s)

Good(s, h) == Almost(s, h) /\ Delivering(s)

\* The inductive invariant of the specification.
IndInv ==
    /\ TypeOK
    /\ Good(dc, heard)
    /\ posted => SCTP

USE DEF SCTP, RTP
USE ConstantsOK
-----------------------------------------------------------------------------
(* Closing.                                                                *)

\* The members no close touches.
Untouched(s, t) ==
    /\ t.role = s.role /\ t.ordered = s.ordered /\ t.id = s.id
    /\ t.observer = s.observer /\ t.waiting_for_open_ack = s.waiting_for_open_ack
    /\ t.was_ever_writable = s.was_ever_writable
    /\ t.queued_control = s.queued_control /\ t.queued_received = s.queued_received
    /\ t.queued_send = s.queued_send
    /\ t.transport = s.transport
    /\ t.wire = s.wire /\ t.delivered = s.delivered /\ t.asserts = s.asserts

\* What ends a close: the channel is off the transport and on its way to kClosed.
Off(t) == ~t.connected /\ t.state \in {"kClosing", "kClosed"}

\* DisconnectFromTransport touches connected_to_provider_, the list and the stream.
LEMMA DisconnectContract ==
    ASSUME NEW s \in DataChannelRecord
    PROVE  LET t == DisconnectFromTransport(s)
           IN /\ t \in DataChannelRecord
              /\ Untouched(s, t) /\ ~t.connected /\ t.state = s.state
              /\ t.send_ssrc_set = s.send_ssrc_set
              /\ t.receive_ssrc_set = s.receive_ssrc_set
<1> DEFINE d == [s EXCEPT !.connected = FALSE]
<1>1. d \in DataChannelRecord /\ Untouched(s, d) /\ ~d.connected /\ d.state = s.state
      /\ d.send_ssrc_set = s.send_ssrc_set /\ d.receive_ssrc_set = s.receive_ssrc_set
  BY DEF DataChannelRecord, Untouched
<1> DEFINE v == IF d.stream = "open" THEN "closing" ELSE d.stream
<1>2. v \in StreamState
  BY <1>1 DEF DataChannelRecord, StreamState
<1> DEFINE e == [d EXCEPT !.listed = FALSE]
<1>3. e \in DataChannelRecord /\ Untouched(s, e) /\ ~e.connected /\ e.state = s.state
      /\ e.send_ssrc_set = s.send_ssrc_set /\ e.receive_ssrc_set = s.receive_ssrc_set
  <2> HIDE DEF d
  <2> QED BY <1>1 DEF DataChannelRecord, Untouched
<1> DEFINE f == [e EXCEPT !.stream = v]
<1>4. f \in DataChannelRecord /\ Untouched(s, f) /\ ~f.connected /\ f.state = s.state
      /\ f.send_ssrc_set = s.send_ssrc_set /\ f.receive_ssrc_set = s.receive_ssrc_set
  <2> HIDE DEF e, v
  <2> QED BY <1>2, <1>3 DEF DataChannelRecord, Untouched
<1>5. RemoveSctpDataStream(d) = f
  BY DEF RemoveSctpDataStream
<1>6. DisconnectFromTransport(s) \in {s, d, f} /\ (DisconnectFromTransport(s) = s => ~s.connected)
  <2> HIDE DEF f
  <2> QED BY <1>1, <1>4, <1>5 DEF DisconnectFromTransport
<1> HIDE DEF d, f
<1> QED BY <1>1, <1>4, <1>6 DEF Untouched

\* SetState changes the state and the record of having been closed, nothing else.
LEMMA SetStateContract ==
    ASSUME NEW s \in DataChannelRecord, NEW st \in DataState
    PROVE  LET t == SetState(s, st)
           IN /\ t \in DataChannelRecord
              /\ Untouched(s, t) /\ t.state = st
              /\ t.connected = s.connected /\ t.listed = s.listed
              /\ t.send_ssrc_set = s.send_ssrc_set
              /\ t.receive_ssrc_set = s.receive_ssrc_set
<1> DEFINE b == s.was_closed \/ st = "kClosed"
<1>1. b \in BOOLEAN OBVIOUS
<1>2. SetState(s, st) = [s EXCEPT !.state = st, !.was_closed = b]
  BY DEF SetState
<1> HIDE DEF b
<1> DEFINE u == [s EXCEPT !.state = st, !.was_closed = b]
<1>3. u \in DataChannelRecord
  BY <1>1 DEF DataChannelRecord
<1>4. /\ Untouched(s, u) /\ u.state = st
      /\ u.connected = s.connected /\ u.listed = s.listed
      /\ u.send_ssrc_set = s.send_ssrc_set
      /\ u.receive_ssrc_set = s.receive_ssrc_set
  BY DEF DataChannelRecord, Untouched
<1> QED BY <1>2, <1>3, <1>4

\* The kClosing case of UpdateState disconnects the channel and touches no queue.
LEMMA ClosingUpdateContract ==
    ASSUME NEW s \in DataChannelRecord, s.state = "kClosing"
    PROVE  LET t == ClosingUpdate(s)
           IN /\ t \in DataChannelRecord
              /\ Untouched(s, t) /\ Off(t)
              /\ t.send_ssrc_set = s.send_ssrc_set
              /\ t.receive_ssrc_set = s.receive_ssrc_set
              /\ ~s.send_ssrc_set /\ ~s.receive_ssrc_set => t.state = "kClosed"
<1> DEFINE d == DisconnectFromTransport(s)
<1>1. /\ d \in DataChannelRecord
      /\ Untouched(s, d) /\ ~d.connected /\ d.state = s.state
      /\ d.send_ssrc_set = s.send_ssrc_set
      /\ d.receive_ssrc_set = s.receive_ssrc_set
  BY DisconnectContract
<1> DEFINE c == SetState(d, "kClosed")
<1>2. /\ c \in DataChannelRecord
      /\ Untouched(d, c) /\ c.state = "kClosed" /\ c.connected = d.connected
      /\ c.send_ssrc_set = d.send_ssrc_set
      /\ c.receive_ssrc_set = d.receive_ssrc_set
  BY <1>1, SetStateContract DEF DataState
<1>3. ClosingUpdate(s) = IF ~d.send_ssrc_set /\ ~d.receive_ssrc_set THEN c ELSE d
  BY DEF ClosingUpdate
<1> HIDE DEF d, c
<1> QED BY <1>1, <1>2, <1>3 DEF Untouched, Off

\* A close leaves the queues and the history alone and takes the channel off the
\* transport; without a remote SSRC it ends in kClosed.
LEMMA CloseContract ==
    ASSUME NEW s \in DataChannelRecord
    PROVE  LET t == Close(s)
           IN /\ t \in DataChannelRecord
              /\ Untouched(s, t)
              /\ s.state = "kClosed" => t = s
              /\ s.state # "kClosed" => Off(t)
              /\ t.send_ssrc_set => s.send_ssrc_set
              /\ t.receive_ssrc_set = s.receive_ssrc_set
<1>1. CASE s.state = "kClosed"
  BY <1>1 DEF Close, Untouched
<1>2. CASE s.state # "kClosed"
  <2> DEFINE e == [s EXCEPT !.send_ssrc = 0, !.send_ssrc_set = FALSE]
             g == SetState(e, "kClosing")
  <2>1. e \in DataChannelRecord /\ Untouched(s, e) /\ ~e.send_ssrc_set
        /\ e.receive_ssrc_set = s.receive_ssrc_set
    BY DEF DataChannelRecord, Untouched
  <2>2. Close(s) = ClosingUpdate(g)
    BY <1>2 DEF Close
  <2> HIDE DEF e
  <2>3. g \in DataChannelRecord /\ Untouched(e, g) /\ g.state = "kClosing"
        /\ g.send_ssrc_set = e.send_ssrc_set /\ g.receive_ssrc_set = e.receive_ssrc_set
    BY <2>1, SetStateContract DEF DataState
  <2> HIDE DEF g
  <2>4. /\ ClosingUpdate(g) \in DataChannelRecord
        /\ Untouched(g, ClosingUpdate(g)) /\ Off(ClosingUpdate(g))
        /\ ClosingUpdate(g).send_ssrc_set = g.send_ssrc_set
        /\ ClosingUpdate(g).receive_ssrc_set = g.receive_ssrc_set
    BY <2>3, ClosingUpdateContract
  <2> QED BY <1>2, <2>1, <2>2, <2>3, <2>4 DEF Untouched
<1> QED BY <1>1, <1>2

\* DoClose disconnects the channel, clears both SSRC flags and touches no queue.
LEMMA DoCloseContract ==
    ASSUME NEW s \in DataChannelRecord
    PROVE  LET t == DoClose(s)
           IN /\ t \in DataChannelRecord
              /\ Untouched(s, t)
              /\ s.state = "kClosed" => t = s
              /\ s.state # "kClosed" => Off(t) /\ ~t.send_ssrc_set /\ ~t.receive_ssrc_set
              /\ t.state = "kClosed"
<1>1. CASE s.state = "kClosed"
  BY <1>1 DEF DoClose, Untouched
<1>2. CASE s.state # "kClosed"
  <2> DEFINE e == [s EXCEPT !.receive_ssrc_set = FALSE, !.send_ssrc_set = FALSE]
             g == SetState(e, "kClosing")
  <2>1. e \in DataChannelRecord /\ Untouched(s, e) /\ ~e.send_ssrc_set /\ ~e.receive_ssrc_set
    BY DEF DataChannelRecord, Untouched
  <2>2. DoClose(s) = ClosingUpdate(g)
    BY <1>2 DEF DoClose
  <2> HIDE DEF e
  <2>3. g \in DataChannelRecord /\ Untouched(e, g) /\ g.state = "kClosing"
        /\ g.send_ssrc_set = e.send_ssrc_set /\ g.receive_ssrc_set = e.receive_ssrc_set
    BY <2>1, SetStateContract DEF DataState
  <2> HIDE DEF g
  <2>4. /\ ClosingUpdate(g) \in DataChannelRecord
        /\ Untouched(g, ClosingUpdate(g)) /\ Off(ClosingUpdate(g))
        /\ ClosingUpdate(g).send_ssrc_set = g.send_ssrc_set
        /\ ClosingUpdate(g).receive_ssrc_set = g.receive_ssrc_set
        /\ ~g.send_ssrc_set /\ ~g.receive_ssrc_set => ClosingUpdate(g).state = "kClosed"
    BY <2>3, ClosingUpdateContract
  <2> QED BY <1>2, <2>1, <2>2, <2>3, <2>4 DEF Untouched
<1> QED BY <1>1, <1>2

\* A record that differs from a good one by a close is good.
LEMMA OffIsGood ==
    ASSUME NEW s, NEW t \in DataChannelRecord, NEW h \in BOOLEAN,
           Almost(s, h), Untouched(s, t), Off(t),
           t.send_ssrc_set => s.send_ssrc_set,
           t.receive_ssrc_set => s.receive_ssrc_set
    PROVE  Good(t, h)
<1>1. ByType(t)
  BY DEF Almost, ByType, Untouched
<1>2. QuietBeforeReady(t)
  BY DEF Almost, QuietBeforeReady, Untouched, Off
<1>3. OneControl(t)
  BY DEF Almost, OneControl, NoControl, ControlOnWire, Untouched
<1>4. Reachable(t) /\ Delivering(t)
  BY DEF Reachable, Delivering, Off
<1>5. OrderedWhileWaiting(t, h)
  BY DEF Almost, OrderedWhileWaiting, ControlOnWire, IsOpener, Untouched
<1>6. AssertsHold(t)
  BY DEF Almost, AssertsHold, Untouched
<1> QED BY <1>1, <1>2, <1>3, <1>4, <1>5, <1>6 DEF Good, Almost

\* Close, called by the application or after a failed send, preserves the invariant.
LEMMA CloseIsGood ==
    ASSUME NEW s, NEW h \in BOOLEAN, Good(s, h)
    PROVE  Good(Close(s), h)
<1> DEFINE t == Close(s)
<1>1. s \in DataChannelRecord /\ Almost(s, h)
  BY DEF Good, Almost
<1>2. /\ t \in DataChannelRecord
      /\ Untouched(s, t)
      /\ s.state = "kClosed" => t = s
      /\ s.state # "kClosed" => Off(t)
      /\ t.send_ssrc_set => s.send_ssrc_set
      /\ t.receive_ssrc_set = s.receive_ssrc_set
  BY <1>1, CloseContract
<1>3. Good(t, h)
  <2> HIDE DEF t
  <2> QED BY <1>1, <1>2, OffIsGood
<1> QED BY <1>3

\* DoClose, called when the engine or the remote description goes, preserves it.
LEMMA DoCloseIsGood ==
    ASSUME NEW s, NEW h \in BOOLEAN, Good(s, h)
    PROVE  Good(DoClose(s), h)
<1> DEFINE t == DoClose(s)
<1>1. s \in DataChannelRecord /\ Almost(s, h)
  BY DEF Good, Almost
<1>2. /\ t \in DataChannelRecord
      /\ Untouched(s, t)
      /\ s.state = "kClosed" => t = s
      /\ s.state # "kClosed" => Off(t) /\ ~t.send_ssrc_set /\ ~t.receive_ssrc_set
  BY <1>1, DoCloseContract
<1>3. Good(t, h)
  <2> HIDE DEF t
  <2> QED BY <1>1, <1>2, OffIsGood
<1> QED BY <1>3

-----------------------------------------------------------------------------
(* Sending.                                                                *)

AssertNames == {"SendControlMessage", "SendQueuedDataMessages",
                "OnChannelReady", "SetSctpSid", "Send"}

\* The members the invariant reads, the record of failed ASSERTs excepted.
Alike(s, t) ==
    /\ t.role = s.role
    /\ t.state = s.state /\ t.connected = s.connected /\ t.listed = s.listed
    /\ t.send_ssrc_set = s.send_ssrc_set /\ t.receive_ssrc_set = s.receive_ssrc_set
    /\ t.observer = s.observer /\ t.waiting_for_open_ack = s.waiting_for_open_ack
    /\ t.was_ever_writable = s.was_ever_writable /\ t.transport = s.transport
    /\ t.queued_control = s.queued_control /\ t.queued_received = s.queued_received
    /\ t.queued_send = s.queued_send /\ t.wire = s.wire

\* A record that differs only in members the invariant does not relate is good.
LEMMA AlikeIsGood ==
    ASSUME NEW s, NEW t \in DataChannelRecord, NEW h \in BOOLEAN,
           Good(s, h), Alike(s, t), AssertsHold(t)
    PROVE  Good(t, h)
<1>1. ByType(t) /\ QuietBeforeReady(t) /\ Reachable(t) /\ Delivering(t)
  BY DEF Good, Almost, Alike, ByType, QuietBeforeReady, Reachable, Delivering
<1>2. OneControl(t)
  BY DEF Good, Almost, Alike, OneControl, NoControl, ControlOnWire
<1>3. OrderedWhileWaiting(t, h)
  BY DEF Good, Almost, Alike, ControlOnWire, OrderedWhileWaiting, IsOpener
<1> QED BY <1>1, <1>2, <1>3 DEF Good, Almost

\* An ASSERT changes the record of failed ASSERTs only, so that one whose
\* condition holds, or of no concern to the invariant, keeps a record good.
LEMMA AssertedIsGood ==
    ASSUME NEW s, NEW h \in BOOLEAN, Good(s, h),
           NEW f \in AssertNames, NEW c \in BOOLEAN,
           c \/ f \notin {"OnChannelReady", "Send"}
    PROVE  Good(Asserted(s, f, c), h) /\ Alike(s, Asserted(s, f, c))
<1>1. s \in DataChannelRecord
  BY DEF Good, Almost
<1>2. CASE c
  BY <1>2 DEF Asserted, Alike
<1>3. CASE ~c
  <2> DEFINE v == s.asserts \cup {f}
             t == [s EXCEPT !.asserts = v]
  <2>1. v \in SUBSET AssertNames /\ v \cap {"OnChannelReady", "Send"} = {}
    BY <1>1, <1>3 DEF DataChannelRecord, AssertNames, Good, Almost, AssertsHold
  <2>2. Asserted(s, f, c) = t
    BY <1>3 DEF Asserted
  <2>3. t \in DataChannelRecord /\ t.asserts = v /\ Alike(s, t)
    <3> HIDE DEF v
    <3> QED BY <1>1, <2>1 DEF DataChannelRecord, AssertNames, Alike
  <2> HIDE DEF t
  <2>4. AssertsHold(t)
    BY <2>1, <2>3 DEF AssertsHold
  <2> QED BY <2>2, <2>3, <2>4, AlikeIsGood
<1> QED BY <1>2, <1>3

\* The channel's control message, sent while none is on the wire or queued, leaves
\* the record good: it is sent, queued, or the channel is closed.
LEMMA SendControlIsGood ==
    ASSUME NEW s, NEW h \in BOOLEAN, NEW r \in SendDataResult,
           Good(s, h), NoControl(s), SCTP, s.was_ever_writable, s.role # "kNone"
    PROVE  LET t == SendControlMessage(s, r)
           IN /\ Good(t, h)
              /\ t.was_ever_writable /\ t.queued_send = s.queued_send
              /\ t.state = s.state \/ ~t.connected \/ s.state = "kClosed"
<1> DEFINE c == SCTP /\ s.was_ever_writable /\ s.id >= 0
           a == Asserted(s, "SendControlMessage", c)
           m == [type |-> "CONTROL", n |-> 0, ordered |-> s.ordered \/ IsOpener(s)]
           w == a.waiting_for_open_ack \/ IsOpener(s)
           q == a.queued_control + 1
<1>1. Good(a, h) /\ Alike(s, a)
  <2>1. c \in BOOLEAN /\ "SendControlMessage" \in AssertNames
    BY DEF AssertNames
  <2> HIDE DEF c
  <2> QED BY <2>1, AssertedIsGood
<1> HIDE DEF a
<1>2. /\ a.role = s.role /\ a.was_ever_writable = s.was_ever_writable
      /\ a.wire = s.wire /\ a.queued_control = s.queued_control
      /\ a.queued_send = s.queued_send /\ a.state = s.state
      /\ NoControl(a) /\ a \in DataChannelRecord /\ s \in DataChannelRecord
  BY <1>1 DEF Good, Almost, Alike, NoControl, ControlOnWire
<1>3. m \in WireMessage /\ m.type = "CONTROL" /\ (IsOpener(s) => m.ordered)
  BY <1>2 DEF WireMessage, DataChannelRecord
<1>4. w \in BOOLEAN /\ (IsOpener(s) => w)
  OBVIOUS
<1>5. q \in Nat /\ q = 1
  BY <1>2 DEF DataChannelRecord, NoControl
<1>6. SendControlMessage(s, r) \in
        {[a EXCEPT !.wire = Append(a.wire, m), !.waiting_for_open_ack = w],
         [a EXCEPT !.queued_control = q], Close(a)}
  BY DEF SendControlMessage, a
<1> HIDE DEF m, w, q
<1>7. CASE SendControlMessage(s, r) =
             [a EXCEPT !.wire = Append(a.wire, m), !.waiting_for_open_ack = w]
  <2> DEFINE t == [a EXCEPT !.wire = Append(a.wire, m), !.waiting_for_open_ack = w]
  <2>1. /\ t \in DataChannelRecord
        /\ t.wire = Append(a.wire, m) /\ t.waiting_for_open_ack = w
        /\ t.role = a.role /\ t.was_ever_writable = a.was_ever_writable
        /\ t.queued_control = a.queued_control /\ t.queued_received = a.queued_received
        /\ t.queued_send = a.queued_send /\ t.transport = a.transport
        /\ t.observer = a.observer /\ t.asserts = a.asserts
        /\ t.state = a.state /\ t.connected = a.connected /\ t.listed = a.listed
        /\ t.send_ssrc_set = a.send_ssrc_set /\ t.receive_ssrc_set = a.receive_ssrc_set
    <3>1. Append(a.wire, m) \in Seq(WireMessage)
      BY <1>2, <1>3 DEF DataChannelRecord
    <3> QED BY <1>2, <1>4, <3>1 DEF DataChannelRecord
  <2>2. a.wire \in Seq(WireMessage)
    BY <1>2 DEF DataChannelRecord
  <2> HIDE DEF t
  <2>3. \A i \in DOMAIN t.wire : t.wire[i].type = "CONTROL" => i = Len(a.wire) + 1
    BY <1>2, <1>3, <2>1, <2>2 DEF NoControl, ControlOnWire
  <2>4. OneControl(t)
    BY <1>1, <1>2, <2>1, <2>2, <2>3 DEF Good, Almost, OneControl, NoControl, ControlOnWire
  <2>5. OrderedWhileWaiting(t, h)
    <3>1. Len(t.wire) = Len(a.wire) + 1
      BY <2>1, <2>2, <1>3
    <3>2. DOMAIN t.wire = 1 .. Len(t.wire)
      BY <2>1 DEF DataChannelRecord
    <3>3. \A i, j \in DOMAIN t.wire : ~(i < j /\ t.wire[i].type = "CONTROL")
      BY <2>2, <2>3, <3>1, <3>2
    <3> QED BY <1>2, <1>4, <2>1, <3>3 DEF OrderedWhileWaiting, IsOpener
  <2>6. ByType(t) /\ QuietBeforeReady(t) /\ Reachable(t) /\ Delivering(t) /\ AssertsHold(t)
    BY <1>1, <1>2, <2>1 DEF Good, Almost, ByType, QuietBeforeReady, Reachable,
                            Delivering, AssertsHold
  <2>7. Good(t, h)
    BY <2>1, <2>4, <2>5, <2>6 DEF Good, Almost
  <2> QED BY <1>2, <1>7, <2>1, <2>7 DEF t
<1>8. CASE SendControlMessage(s, r) = [a EXCEPT !.queued_control = q]
  <2> DEFINE t == [a EXCEPT !.queued_control = q]
  <2>1. /\ t \in DataChannelRecord
        /\ t.wire = a.wire /\ t.waiting_for_open_ack = a.waiting_for_open_ack
        /\ t.role = a.role /\ t.was_ever_writable = a.was_ever_writable
        /\ t.queued_control = 1 /\ t.queued_received = a.queued_received
        /\ t.queued_send = a.queued_send /\ t.transport = a.transport
        /\ t.observer = a.observer /\ t.asserts = a.asserts
        /\ t.state = a.state /\ t.connected = a.connected /\ t.listed = a.listed
        /\ t.send_ssrc_set = a.send_ssrc_set /\ t.receive_ssrc_set = a.receive_ssrc_set
    BY <1>2, <1>5 DEF DataChannelRecord
  <2> HIDE DEF t
  <2>2. OneControl(t) /\ OrderedWhileWaiting(t, h)
    BY <1>1, <1>2, <2>1 DEF Good, Almost, OneControl, NoControl, ControlOnWire,
                            OrderedWhileWaiting, IsOpener
  <2>3. ByType(t) /\ QuietBeforeReady(t) /\ Reachable(t) /\ Delivering(t) /\ AssertsHold(t)
    BY <1>1, <1>2, <2>1 DEF Good, Almost, ByType, QuietBeforeReady, Reachable,
                            Delivering, AssertsHold
  <2>4. Good(t, h)
    BY <2>1, <2>2, <2>3 DEF Good, Almost
  <2> QED BY <1>2, <1>8, <2>1, <2>4 DEF t
<1>9. CASE SendControlMessage(s, r) = Close(a)
  <2>1. Good(Close(a), h)
    BY <1>1, CloseIsGood
  <2>2. /\ Untouched(a, Close(a))
        /\ a.state = "kClosed" => Close(a) = a
        /\ a.state # "kClosed" => Off(Close(a))
    BY <1>2, CloseContract
  <2> QED BY <1>2, <1>9, <2>1, <2>2 DEF Untouched, Off
<1> QED BY <1>6, <1>7, <1>8, <1>9

\* Retrying the queued OPEN or OPEN_ACK keeps it single, queued or on the wire.
LEMMA SendQueuedControlIsGood ==
    ASSUME NEW s, NEW h \in BOOLEAN, NEW r \in SendDataResult,
           Good(s, h), s.was_ever_writable
    PROVE  LET t == SendQueuedControlMessages(s, r)
           IN /\ Good(t, h)
              /\ t.was_ever_writable /\ t.queued_send = s.queued_send
              /\ t.state = s.state \/ ~t.connected \/ s.state = "kClosed"
<1>1. CASE s.queued_control = 0
  BY <1>1 DEF SendQueuedControlMessages
<1>2. CASE s.queued_control # 0
  <2> DEFINE z == [s EXCEPT !.queued_control = 0]
  <2>0. s \in DataChannelRecord
    BY DEF Good, Almost
  <2>1. /\ z \in DataChannelRecord
        /\ z.wire = s.wire /\ z.waiting_for_open_ack = s.waiting_for_open_ack
        /\ z.role = s.role /\ z.was_ever_writable = s.was_ever_writable
        /\ z.queued_control = 0 /\ z.queued_received = s.queued_received
        /\ z.queued_send = s.queued_send /\ z.transport = s.transport
        /\ z.observer = s.observer /\ z.asserts = s.asserts
        /\ z.state = s.state /\ z.connected = s.connected /\ z.listed = s.listed
        /\ z.send_ssrc_set = s.send_ssrc_set /\ z.receive_ssrc_set = s.receive_ssrc_set
    BY <2>0 DEF DataChannelRecord
  <2>2. SCTP /\ s.role # "kNone" /\ ~ControlOnWire(s)
    BY <1>2, <2>0 DEF Good, Almost, ByType, OneControl, NoControl, DataChannelRecord
  <2>3. SendQueuedControlMessages(s, r) = SendControlMessage(z, r)
    BY <1>2 DEF SendQueuedControlMessages
  <2> HIDE DEF z
  <2>4. NoControl(z)
    BY <2>1, <2>2 DEF NoControl, ControlOnWire
  <2>5. OneControl(z) /\ OrderedWhileWaiting(z, h)
    BY <2>1, <2>4 DEF Good, Almost, OneControl, NoControl, ControlOnWire,
                      OrderedWhileWaiting, IsOpener
  <2>6. ByType(z) /\ QuietBeforeReady(z) /\ Reachable(z) /\ Delivering(z) /\ AssertsHold(z)
    BY <2>1 DEF Good, Almost, ByType, QuietBeforeReady, Reachable, Delivering, AssertsHold
  <2>7. Good(z, h)
    BY <2>1, <2>5, <2>6 DEF Good, Almost
  <2>8. /\ Good(SendControlMessage(z, r), h)
        /\ SendControlMessage(z, r).was_ever_writable
        /\ SendControlMessage(z, r).queued_send = z.queued_send
        /\ \/ SendControlMessage(z, r).state = z.state
           \/ ~SendControlMessage(z, r).connected
           \/ z.state = "kClosed"
    BY <2>1, <2>2, <2>4, <2>7, SendControlIsGood
  <2> QED BY <2>1, <2>3, <2>8
<1> QED BY <1>1, <1>2

\* Delivering what is queued restores what opening the channel or registering an
\* observer breaks.
LEMMA DeliverIsGood ==
    ASSUME NEW s, NEW h \in BOOLEAN, Almost(s, h)
    PROVE  Good(DeliverQueuedReceivedData(s), h)
<1>0. s \in DataChannelRecord
  BY DEF Almost
<1>1. CASE s.was_ever_writable /\ s.observer
  <2> DEFINE v == s.delivered \o s.queued_received.packets
             t == [s EXCEPT !.delivered = v, !.queued_received = EmptyQueue]
  <2>1. DeliverQueuedReceivedData(s) = t
    BY <1>1 DEF DeliverQueuedReceivedData
  <2>2. v \in Seq(Packet)
    BY <1>0 DEF DataChannelRecord, PacketQueue
  <2>3. EmptyQueue \in PacketQueue /\ EmptyQueue.packets = <<>>
    BY DEF EmptyQueue, PacketQueue
  <2>4. /\ t \in DataChannelRecord
        /\ t.wire = s.wire /\ t.waiting_for_open_ack = s.waiting_for_open_ack
        /\ t.role = s.role /\ t.was_ever_writable = s.was_ever_writable
        /\ t.queued_control = s.queued_control /\ t.queued_received = EmptyQueue
        /\ t.queued_send = s.queued_send /\ t.transport = s.transport
        /\ t.observer = s.observer /\ t.asserts = s.asserts
        /\ t.state = s.state /\ t.connected = s.connected /\ t.listed = s.listed
        /\ t.send_ssrc_set = s.send_ssrc_set /\ t.receive_ssrc_set = s.receive_ssrc_set
    <3> HIDE DEF v
    <3> QED BY <1>0, <2>2, <2>3 DEF DataChannelRecord
  <2> HIDE DEF t
  <2>5. OneControl(t) /\ OrderedWhileWaiting(t, h)
    BY <2>4 DEF Almost, OneControl, NoControl, ControlOnWire, OrderedWhileWaiting, IsOpener
  <2>6. ByType(t) /\ QuietBeforeReady(t) /\ Reachable(t) /\ Delivering(t) /\ AssertsHold(t)
    BY <2>3, <2>4 DEF Almost, ByType, QuietBeforeReady, Reachable, Delivering, AssertsHold
  <2> QED BY <2>1, <2>4, <2>5, <2>6 DEF Good, Almost
<1>2. CASE ~(s.was_ever_writable /\ s.observer)
  <2>1. DeliverQueuedReceivedData(s) = s
    BY <1>2 DEF DeliverQueuedReceivedData
  <2>2. Delivering(s)
    BY <1>2 DEF Almost, QuietBeforeReady, Delivering
  <2> QED BY <2>1, <2>2 DEF Good
<1> QED BY <1>1, <1>2

\* Opening sends the queued control message and delivers the queued data; a channel
\* that the control message closed is off the transport when it becomes kOpen.
LEMMA OpenedIsGood ==
    ASSUME NEW s, NEW h \in BOOLEAN, NEW r \in SendDataResult,
           Good(s, h), s.was_ever_writable, s.state = "kConnecting"
    PROVE  Good(Opened(s, r), h)
<1> DEFINE t == SendQueuedControlMessages(s, r)
           u == SetState(t, "kOpen")
<1>1. /\ Good(t, h) /\ t.was_ever_writable
      /\ t.state = s.state \/ ~t.connected \/ s.state = "kClosed"
  BY SendQueuedControlIsGood
<1> HIDE DEF t
<1>2. t \in DataChannelRecord
  BY <1>1 DEF Good, Almost
<1>3. /\ u \in DataChannelRecord
      /\ Untouched(t, u) /\ u.state = "kOpen"
      /\ u.connected = t.connected /\ u.listed = t.listed
      /\ u.send_ssrc_set = t.send_ssrc_set /\ u.receive_ssrc_set = t.receive_ssrc_set
  BY <1>2, SetStateContract DEF DataState
<1> HIDE DEF u
<1>4. OneControl(u) /\ OrderedWhileWaiting(u, h)
  BY <1>1, <1>3 DEF Untouched, Good, Almost, OneControl, NoControl, ControlOnWire,
                    OrderedWhileWaiting, IsOpener
<1>5. ByType(u) /\ QuietBeforeReady(u) /\ Reachable(u) /\ AssertsHold(u)
  BY <1>1, <1>3 DEF Untouched, Good, Almost, ByType, QuietBeforeReady, Reachable,
                    AssertsHold
<1>6. Almost(u, h)
  BY <1>3, <1>4, <1>5 DEF Almost
<1>7. Opened(s, r) = DeliverQueuedReceivedData(u)
  BY DEF Opened, t, u
<1> QED BY <1>6, <1>7, DeliverIsGood

-----------------------------------------------------------------------------
(* Queues.                                                                 *)

\* A queued packet has the size of a message.
LEMMA PacketSize ==
    ASSUME NEW p \in Packet
    PROVE  p.size \in Nat /\ p.size \in Int
<1>1. p.size \in Sizes
  BY DEF Packet
<1>2. Sizes \subseteq Nat \ {0}
  BY ConstantsOK
<1>3. p.size \in Nat
  BY <1>1, <1>2, Zenon
<1> QED BY <1>3

\* The size of a sequence of packets is a natural number.
LEMMA TotalSizeType ==
    ASSUME NEW p \in Seq(Packet)
    PROVE  IsFiniteSet(Bytes(p)) /\ TotalSize(p) \in Nat
<1> DEFINE f == [i \in DOMAIN p |-> {i} \X (1 .. p[i].size)]
           T == {{i} \X (1 .. p[i].size) : i \in DOMAIN p}
<1>1. DOMAIN p = 1 .. Len(p) /\ Len(p) \in Nat
  BY LenProperties
<1>2. IsFiniteSet(DOMAIN p)
  BY <1>1, FS_Interval
<1>3. f \in Surjection(DOMAIN p, T)
  BY DEF Surjection
<1>4. IsFiniteSet(T)
  BY <1>2, <1>3, FS_Surjection DEF ExistsSurjection
<1>5. ASSUME NEW i \in DOMAIN p
      PROVE  IsFiniteSet({i} \X (1 .. p[i].size))
  <2>1. p[i] \in Packet
    BY <1>1, <1>5, ElementOfSeq
  <2>2. IsFiniteSet(1 .. p[i].size)
    BY <2>1, PacketSize, FS_Interval
  <2>3. IsFiniteSet({i})
    BY FS_Singleton
  <2> QED BY <2>2, <2>3, FS_Product
<1>6. IsFiniteSet(UNION T)
  BY <1>4, <1>5, FS_UNION
<1> QED BY <1>6, FS_CardinalityType DEF Bytes, TotalSize

\* PacketQueue::Push returns a packet queue.
LEMMA PushType ==
    ASSUME NEW q \in PacketQueue, NEW p \in Packet
    PROVE  Push(q, p) \in PacketQueue
<1>1. Append(q.packets, p) \in Seq(Packet) /\ q.byte_count + p.size \in Int
  BY PacketSize DEF PacketQueue
<1> QED BY <1>1 DEF Push, PacketQueue

\* PacketQueue::Pop, k times, returns a packet queue.
LEMMA PopType ==
    ASSUME NEW q \in PacketQueue, NEW k \in 0 .. Len(q.packets)
    PROVE  /\ Pop(q, k) \in PacketQueue
           /\ q.packets = <<>> => Pop(q, k).packets = <<>>
<1>1. q.packets \in Seq(Packet) /\ Len(q.packets) \in Nat
      /\ \A i \in 1 .. Len(q.packets) : q.packets[i] \in Packet
  BY DEF PacketQueue
<1>2. SubSeq(q.packets, k + 1, Len(q.packets)) \in Seq(Packet)
  BY <1>1, SubSeqProperties
<1>3. SubSeq(q.packets, 1, k) \in Seq(Packet)
  BY <1>1, SubSeqProperties
<1>4. TotalSize(SubSeq(q.packets, 1, k)) \in Nat
  BY <1>3, TotalSizeType
<1>5. q.packets = <<>> => SubSeq(q.packets, k + 1, Len(q.packets)) = <<>>
  BY <1>1, SubSeqEmpty
<1> QED BY <1>2, <1>4, <1>5 DEF Pop, PacketQueue

\* Data messages that are ordered while the OPEN_ACK is awaited may go on the wire,
\* and the send queue of an SCTP channel may change.
LEMMA AppendDataIsGood ==
    ASSUME NEW s, NEW h \in BOOLEAN, Good(s, h), s.was_ever_writable,
           NEW d \in Seq(WireMessage),
           \A i \in 1 .. Len(d) : d[i].type = "DATA" /\ (s.waiting_for_open_ack => d[i].ordered),
           NEW q \in PacketQueue, RTP => q.packets = <<>>
    PROVE  Good([s EXCEPT !.wire = s.wire \o d, !.queued_send = q], h)
<1> DEFINE w == s.wire \o d
           t == [s EXCEPT !.wire = w, !.queued_send = q]
<1>0. s \in DataChannelRecord /\ s.wire \in Seq(WireMessage)
  BY DEF Good, Almost, DataChannelRecord
<1>1. /\ w \in Seq(WireMessage)
      /\ Len(w) = Len(s.wire) + Len(d) /\ Len(s.wire) \in Nat /\ Len(d) \in Nat
      /\ DOMAIN w = 1 .. Len(w) /\ DOMAIN s.wire = 1 .. Len(s.wire)
      /\ \A i \in 1 .. Len(s.wire) + Len(d) :
           w[i] = IF i <= Len(s.wire) THEN s.wire[i] ELSE d[i - Len(s.wire)]
  <2>1. w \in Seq(WireMessage) /\ Len(w) = Len(s.wire) + Len(d)
        /\ \A i \in 1 .. Len(s.wire) + Len(d) :
             w[i] = IF i <= Len(s.wire) THEN s.wire[i] ELSE d[i - Len(s.wire)]
    BY <1>0, ConcatProperties
  <2> HIDE DEF w
  <2> QED BY <1>0, <2>1, LenProperties
<1> HIDE DEF w
<1>2. \A i \in 1 .. Len(w) : i > Len(s.wire) =>
        w[i].type = "DATA" /\ (s.waiting_for_open_ack => w[i].ordered)
  <2> SUFFICES ASSUME NEW i \in 1 .. Len(w), i > Len(s.wire)
               PROVE  w[i].type = "DATA" /\ (s.waiting_for_open_ack => w[i].ordered)
    OBVIOUS
  <2> DEFINE k == i - Len(s.wire)
  <2>1. k \in 1 .. Len(d) /\ w[i] = d[k]
    BY <1>1
  <2> HIDE DEF k
  <2> QED BY <2>1
<1>3. \A i \in 1 .. Len(w) : w[i].type = "CONTROL" =>
        i \in DOMAIN s.wire /\ w[i] = s.wire[i]
  <2> SUFFICES ASSUME NEW i \in 1 .. Len(w), w[i].type = "CONTROL"
               PROVE  i \in DOMAIN s.wire /\ w[i] = s.wire[i]
    OBVIOUS
  <2>1. ~(i > Len(s.wire))
    BY <1>2
  <2>2. i \in 1 .. Len(s.wire)
    BY <1>1, <2>1
  <2> QED BY <1>1, <2>2
<1>4. /\ t \in DataChannelRecord
      /\ t.wire = w /\ t.waiting_for_open_ack = s.waiting_for_open_ack
      /\ t.role = s.role /\ t.was_ever_writable = s.was_ever_writable
      /\ t.queued_control = s.queued_control /\ t.queued_received = s.queued_received
      /\ t.queued_send = q /\ t.transport = s.transport
      /\ t.observer = s.observer /\ t.asserts = s.asserts
      /\ t.state = s.state /\ t.connected = s.connected /\ t.listed = s.listed
      /\ t.send_ssrc_set = s.send_ssrc_set /\ t.receive_ssrc_set = s.receive_ssrc_set
  BY <1>0, <1>1 DEF DataChannelRecord
<1> HIDE DEF t
<1>5. ControlOnWire(t) <=> ControlOnWire(s)
  <2>1. ControlOnWire(t) => ControlOnWire(s)
    BY <1>1, <1>3, <1>4 DEF ControlOnWire
  <2>2. ControlOnWire(s) => ControlOnWire(t)
    BY <1>1, <1>4 DEF ControlOnWire
  <2> QED BY <2>1, <2>2
<1>6. OneControl(t)
  <2>1. OneControl(s)
    BY DEF Good, Almost
  <2>2. \A i, j \in DOMAIN t.wire :
          t.wire[i].type = "CONTROL" /\ t.wire[j].type = "CONTROL" => i = j
    BY <1>1, <1>3, <1>4, <2>1 DEF OneControl
  <2> QED BY <1>4, <1>5, <2>1, <2>2 DEF OneControl, NoControl
<1>7. OrderedWhileWaiting(t, h)
  <2> SUFFICES ASSUME IsOpener(s), ~h
               PROVE  /\ ControlOnWire(t) => t.waiting_for_open_ack
                      /\ \A i, j \in DOMAIN t.wire :
                           i < j /\ t.wire[i].type = "CONTROL" => t.wire[j].ordered
    BY <1>4 DEF OrderedWhileWaiting, IsOpener
  <2>1. ControlOnWire(s) => s.waiting_for_open_ack
    BY DEF Good, Almost, OrderedWhileWaiting
  <2>2. \A i, j \in DOMAIN s.wire :
           i < j /\ s.wire[i].type = "CONTROL" => s.wire[j].ordered
    BY DEF Good, Almost, OrderedWhileWaiting
  <2>3. ASSUME NEW i \in DOMAIN t.wire, NEW j \in DOMAIN t.wire,
               i < j, t.wire[i].type = "CONTROL"
        PROVE  t.wire[j].ordered
    <3>1. i \in DOMAIN s.wire /\ s.wire[i].type = "CONTROL"
      BY <1>1, <1>3, <1>4, <2>3
    <3>2. CASE j > Len(s.wire)
      <4>1. s.waiting_for_open_ack
        BY <2>1, <3>1 DEF ControlOnWire
      <4> QED BY <1>1, <1>2, <1>4, <2>3, <3>2, <4>1
    <3>3. CASE ~(j > Len(s.wire))
      <4>1. j \in 1 .. Len(s.wire) /\ w[j] = s.wire[j]
        BY <1>1, <1>4, <2>3, <3>3
      <4> QED BY <1>1, <1>4, <2>2, <2>3, <3>1, <4>1
    <3> QED BY <3>2, <3>3
  <2> QED BY <1>4, <1>5, <2>1, <2>3
<1>8. ByType(t) /\ QuietBeforeReady(t) /\ Reachable(t) /\ Delivering(t) /\ AssertsHold(t)
  BY <1>4 DEF Good, Almost, ByType, QuietBeforeReady, Reachable, Delivering, AssertsHold
<1> QED BY <1>4, <1>6, <1>7, <1>8 DEF Good, Almost, t, w

\* SendDataMessage sends typed data, ordered while the OPEN_ACK is outstanding.
LEMMA DataOnWireContract ==
    ASSUME NEW s \in DataChannelRecord, NEW p \in Packet
    PROVE  /\ DataOnWire(s, p) \in WireMessage
           /\ DataOnWire(s, p).type = "DATA"
           /\ s.waiting_for_open_ack => DataOnWire(s, p).ordered
BY DEF DataOnWire, DataChannelRecord, Packet, WireMessage

\* A flush that sends the first k queued messages keeps the record good.
LEMMA SendQueuedDataIsGood ==
    ASSUME NEW s, NEW h \in BOOLEAN, NEW r \in SendDataResult,
           Good(s, h), s.was_ever_writable,
           NEW k \in 0 .. Len(s.queued_send.packets)
    PROVE  Good(SendQueuedDataMessages(s, k, r), h)
<1> DEFINE c == s.was_ever_writable /\ s.state = "kOpen"
           a == Asserted(s, "SendQueuedDataMessages", c)
           q == s.queued_send.packets
           m == IF DataResult(s, "SDR_SUCCESS") = "SDR_SUCCESS" THEN k ELSE 0
           d == [i \in 1 .. m |-> DataOnWire(s, q[i])]
           p == Pop(s.queued_send, m)
           b == [a EXCEPT !.wire = a.wire \o d, !.queued_send = p]
<1>0. /\ s \in DataChannelRecord /\ s.queued_send \in PacketQueue
      /\ q \in Seq(Packet) /\ Len(q) \in Nat
  <2>1. s \in DataChannelRecord
    BY DEF Good, Almost
  <2>2. s.queued_send \in PacketQueue
    BY <2>1 DEF DataChannelRecord
  <2>3. q \in Seq(Packet)
    BY <2>2 DEF PacketQueue
  <2> QED BY <2>1, <2>2, <2>3, LenProperties
<1>1. Good(a, h) /\ Alike(s, a)
  <2>1. c \in BOOLEAN /\ "SendQueuedDataMessages" \in AssertNames
    BY DEF AssertNames
  <2> HIDE DEF c
  <2> QED BY <2>1, AssertedIsGood
<1>2. m \in 0 .. Len(q)
  BY <1>0
<1>3. SendQueuedDataMessages(s, k, r) \in {b, Close(b)}
  <2>1. a.queued_send = s.queued_send
    BY <1>1 DEF Alike
  <2> QED BY <2>1 DEF SendQueuedDataMessages
<1>4. p \in PacketQueue /\ (RTP => p.packets = <<>>)
  <2>1. RTP => q = <<>>
    BY DEF Good, Almost, ByType
  <2> QED BY <1>0, <1>2, <2>1, PopType
<1> HIDE DEF m, p
<1>5. /\ d \in Seq(WireMessage) /\ Len(d) = m
      /\ \A i \in 1 .. m : d[i].type = "DATA" /\ (s.waiting_for_open_ack => d[i].ordered)
  <2>1. ASSUME NEW i \in 1 .. m
        PROVE  /\ DataOnWire(s, q[i]) \in WireMessage
               /\ DataOnWire(s, q[i]).type = "DATA"
               /\ s.waiting_for_open_ack => DataOnWire(s, q[i]).ordered
    <3>1. q[i] \in Packet
      <4>1. i \in 1 .. Len(q)
        BY <1>0, <1>2
      <4> QED BY <1>0, <4>1, ElementOfSeq
    <3> HIDE DEF q
    <3> QED BY <1>0, <3>1, DataOnWireContract
  <2>2. d \in [1 .. m -> WireMessage]
    BY <2>1
  <2>3. d \in Seq(WireMessage) /\ Len(d) = m
    BY <1>0, <1>2, <2>2
  <2> QED BY <2>1, <2>3
<1>6. a.was_ever_writable /\ a.waiting_for_open_ack = s.waiting_for_open_ack
  BY <1>1 DEF Alike
<1> HIDE DEF a, d, q
<1>7. Good(b, h)
  BY <1>1, <1>4, <1>5, <1>6, AppendDataIsGood
<1> HIDE DEF b
<1>8. Good(Close(b), h)
  BY <1>7, CloseIsGood
<1> QED BY <1>3, <1>7, <1>8

\* QueueSendDataMessage queues or closes and preserves the invariant.
LEMMA QueueSendIsGood ==
    ASSUME NEW s, NEW h \in BOOLEAN, NEW p \in Packet,
           Good(s, h), s.was_ever_writable, SCTP
    PROVE  Good(QueueSendDataMessage(s, p), h)
<1> DEFINE q == Push(s.queued_send, p)
<1>0. s \in DataChannelRecord /\ s.queued_send \in PacketQueue /\ s.wire \in Seq(WireMessage)
  BY DEF Good, Almost, DataChannelRecord
<1>1. q \in PacketQueue
  BY <1>0, PushType
<1>2. QueueSendDataMessage(s, p) \in {Close(s), [s EXCEPT !.queued_send = q]}
  BY DEF QueueSendDataMessage
<1> HIDE DEF q
<1>3. Good([s EXCEPT !.wire = s.wire \o <<>>, !.queued_send = q], h)
  <2>1. <<>> \in Seq(WireMessage) /\ Len(<<>>) = 0
    BY EmptySeq
  <2>2. RTP => q.packets = <<>>
    OBVIOUS
  <2>3. \A e \in Seq(WireMessage) :
          Len(e) = 0 => Good([s EXCEPT !.wire = s.wire \o e, !.queued_send = q], h)
    <3> SUFFICES ASSUME NEW e \in Seq(WireMessage), Len(e) = 0
                 PROVE  Good([s EXCEPT !.wire = s.wire \o e, !.queued_send = q], h)
      OBVIOUS
    <3>1. \A i \in 1 .. Len(e) :
            e[i].type = "DATA" /\ (s.waiting_for_open_ack => e[i].ordered)
      OBVIOUS
    <3> QED BY <1>1, <2>2, <3>1, AppendDataIsGood
  <2> QED BY <2>1, <2>3
<1>4. [s EXCEPT !.wire = s.wire \o <<>>, !.queued_send = q] = [s EXCEPT !.queued_send = q]
  <2>1. s.wire \o <<>> = s.wire
    BY <1>0, ConcatEmptySeq
  <2> QED BY <1>0, <2>1 DEF DataChannelRecord
<1>5. Good(Close(s), h)
  BY CloseIsGood
<1> QED BY <1>2, <1>3, <1>4, <1>5

\* SendDataMessage preserves the invariant whatever the transport answers.
LEMMA SendDataIsGood ==
    ASSUME NEW s, NEW h \in BOOLEAN, NEW p \in Packet, NEW r \in SendDataResult,
           Good(s, h), s.was_ever_writable
    PROVE  Good(SendDataMessage(s, p, r), h)
<1> DEFINE x == DataOnWire(s, p)
<1>0. /\ s \in DataChannelRecord /\ s.wire \in Seq(WireMessage)
      /\ s.queued_send \in PacketQueue /\ (RTP => s.queued_send.packets = <<>>)
  BY DEF Good, Almost, DataChannelRecord, ByType
<1>1. x \in WireMessage /\ x.type = "DATA" /\ (s.waiting_for_open_ack => x.ordered)
  BY <1>0, DataOnWireContract
<1>2. \/ SendDataMessage(s, p, r) \in {[s EXCEPT !.wire = Append(s.wire, x)], s, Close(s)}
      \/ SCTP /\ SendDataMessage(s, p, r) = QueueSendDataMessage(s, p)
  BY DEF SendDataMessage, DataResult, SendDataResult
<1> HIDE DEF x
<1>3. Good([s EXCEPT !.wire = s.wire \o <<x>>, !.queued_send = s.queued_send], h)
  <2>1. <<x>> \in Seq(WireMessage) /\ Len(<<x>>) = 1 /\ <<x>>[1] = x
    BY <1>1
  <2>2. \A i \in 1 .. Len(<<x>>) :
          <<x>>[i].type = "DATA" /\ (s.waiting_for_open_ack => <<x>>[i].ordered)
    BY <1>1, <2>1
  <2> QED BY <1>0, <2>1, <2>2, AppendDataIsGood
<1>4. [s EXCEPT !.wire = s.wire \o <<x>>, !.queued_send = s.queued_send]
        = [s EXCEPT !.wire = Append(s.wire, x)]
  <2>1. Append(s.wire, x) = s.wire \o <<x>>
    BY <1>0, <1>1, AppendIsConcat
  <2> DEFINE w == Append(s.wire, x)
  <2> HIDE DEF w
  <2>2. [s EXCEPT !.wire = w, !.queued_send = s.queued_send] = [s EXCEPT !.wire = w]
    BY <1>0 DEF DataChannelRecord
  <2> QED BY <2>1, <2>2 DEF w
<1> QED BY <1>2, <1>3, <1>4, CloseIsGood, QueueSendIsGood

\* Send on an open channel keeps the record good; only SCTP queues.
LEMMA SendOrQueueIsGood ==
    ASSUME NEW s, NEW h \in BOOLEAN, NEW p \in Packet, NEW r \in SendDataResult,
           Good(s, h), s.state = "kOpen"
    PROVE  Good(SendOrQueue(s, p, r), h)
<1>1. s.was_ever_writable
  BY DEF Good, Almost, QuietBeforeReady
<1>2. CASE Empty(s.queued_send)
  BY <1>1, <1>2, SendDataIsGood DEF SendOrQueue
<1>3. CASE ~Empty(s.queued_send)
  <2>1. SCTP
    BY <1>3 DEF Good, Almost, ByType, Empty
  <2>2. Good(Asserted(s, "Send", SCTP), h) /\ Alike(s, Asserted(s, "Send", SCTP))
    <3>1. SCTP \in BOOLEAN /\ "Send" \in AssertNames
      BY DEF AssertNames
    <3> QED BY <2>1, <3>1, AssertedIsGood
  <2> QED BY <1>1, <1>3, <2>1, <2>2, QueueSendIsGood DEF SendOrQueue, Alike
<1> QED BY <1>2, <1>3

-----------------------------------------------------------------------------
(* Connecting and opening.                                                 *)

\* A listed channel may be connected.
LEMMA ConnectIsGood ==
    ASSUME NEW s, NEW h \in BOOLEAN, Good(s, h), s.listed
    PROVE  LET t == ConnectDataChannel(s)
           IN /\ Good(t, h)
              /\ t.was_ever_writable = s.was_ever_writable /\ t.state = s.state
              /\ t.listed = s.listed
<1> DEFINE b == s.transport
           t == [s EXCEPT !.connected = b]
<1>0. s \in DataChannelRecord /\ b \in BOOLEAN
  BY DEF Good, Almost, DataChannelRecord
<1>1. /\ t \in DataChannelRecord
      /\ t.wire = s.wire /\ t.waiting_for_open_ack = s.waiting_for_open_ack
      /\ t.role = s.role /\ t.was_ever_writable = s.was_ever_writable
      /\ t.queued_control = s.queued_control /\ t.queued_received = s.queued_received
      /\ t.queued_send = s.queued_send /\ t.transport = s.transport
      /\ t.observer = s.observer /\ t.asserts = s.asserts
      /\ t.state = s.state /\ t.connected = b /\ t.listed = s.listed
      /\ t.send_ssrc_set = s.send_ssrc_set /\ t.receive_ssrc_set = s.receive_ssrc_set
  <2> HIDE DEF b
  <2> QED BY <1>0 DEF DataChannelRecord
<1>2. ConnectDataChannel(s) = t
  BY DEF ConnectDataChannel
<1> HIDE DEF t
<1>3. OneControl(t) /\ OrderedWhileWaiting(t, h)
  BY <1>1 DEF Good, Almost, OneControl, NoControl, ControlOnWire, OrderedWhileWaiting,
              IsOpener
<1>4. ByType(t) /\ QuietBeforeReady(t) /\ Reachable(t) /\ Delivering(t) /\ AssertsHold(t)
  BY <1>1 DEF Good, Almost, ByType, QuietBeforeReady, Reachable, Delivering, AssertsHold
<1> QED BY <1>1, <1>2, <1>3, <1>4 DEF Good, Almost

\* UpdateState keeps a record good, provided it does not connect a channel that
\* nobody lists.
LEMMA UpdateStateIsGood ==
    ASSUME NEW s, NEW h \in BOOLEAN, NEW r \in SendDataResult,
           Good(s, h), SCTP \/ s.connected \/ s.listed
    PROVE  Good(UpdateState(s, r), h)
<1> DEFINE c == IF RTP /\ ~s.connected THEN ConnectDataChannel(s) ELSE s
<1>0. s \in DataChannelRecord
  BY DEF Good, Almost
<1>1. CASE MayOpen(s)
  <2>1. Good(c, h) /\ c.was_ever_writable = s.was_ever_writable /\ c.state = s.state
    <3>1. CASE RTP /\ ~s.connected
      BY <3>1, ConnectIsGood
    <3>2. CASE ~(RTP /\ ~s.connected)
      BY <3>2
    <3> QED BY <3>1, <3>2
  <2>2. UpdateState(s, r) = IF s.was_ever_writable THEN Opened(c, r) ELSE c
    BY <1>1 DEF UpdateState
  <2> HIDE DEF c
  <2>3. s.was_ever_writable => Good(Opened(c, r), h)
    BY <1>1, <2>1, OpenedIsGood DEF MayOpen
  <2> QED BY <2>1, <2>2, <2>3
<1>2. CASE ~MayOpen(s) /\ s.state = "kClosing"
  <2>1. UpdateState(s, r) = ClosingUpdate(s)
    BY <1>2 DEF UpdateState
  <2> DEFINE t == ClosingUpdate(s)
  <2>2. t \in DataChannelRecord /\ Untouched(s, t) /\ Off(t)
        /\ t.send_ssrc_set = s.send_ssrc_set /\ t.receive_ssrc_set = s.receive_ssrc_set
    BY <1>0, <1>2, ClosingUpdateContract
  <2>3. Good(t, h)
    <3> HIDE DEF t
    <3> QED BY <2>2, OffIsGood DEF Good
  <2> QED BY <2>1, <2>3
<1>3. CASE ~MayOpen(s) /\ s.state # "kClosing"
  BY <1>3 DEF UpdateState
<1> QED BY <1>1, <1>2, <1>3

\* The first ready signal: the control message is sent for the first time.
LEMMA FirstWritableIsGood ==
    ASSUME NEW s, NEW h \in BOOLEAN, NEW r1 \in SendDataResult, NEW r2 \in SendDataResult,
           Good(s, h), ~s.was_ever_writable, SCTP \/ (s.connected /\ s.listed)
    PROVE  Good(FirstWritable(s, r1, r2), h)
<1> DEFINE w == [s EXCEPT !.was_ever_writable = TRUE]
           c == IF SCTP /\ s.role # "kNone" THEN SendControlMessage(w, r1) ELSE w
           u == UpdateState(c, r2)
<1>0. s \in DataChannelRecord
  BY DEF Good, Almost
<1>1. /\ w \in DataChannelRecord
      /\ w.wire = s.wire /\ w.waiting_for_open_ack = s.waiting_for_open_ack
      /\ w.role = s.role /\ w.was_ever_writable
      /\ w.queued_control = s.queued_control /\ w.queued_received = s.queued_received
      /\ w.queued_send = s.queued_send /\ w.transport = s.transport
      /\ w.observer = s.observer /\ w.asserts = s.asserts
      /\ w.state = s.state /\ w.connected = s.connected /\ w.listed = s.listed
      /\ w.send_ssrc_set = s.send_ssrc_set /\ w.receive_ssrc_set = s.receive_ssrc_set
  BY <1>0 DEF DataChannelRecord
<1> HIDE DEF w
<1>2. s.wire = <<>> /\ s.queued_control = 0 /\ s.state # "kOpen" /\ s.queued_send.packets = <<>>
  BY DEF Good, Almost, QuietBeforeReady
<1>3. NoControl(w)
  BY <1>1, <1>2 DEF NoControl, ControlOnWire
<1>4. OneControl(w) /\ OrderedWhileWaiting(w, h)
  BY <1>1, <1>3 DEF Good, Almost, OneControl, NoControl, ControlOnWire,
                    OrderedWhileWaiting, IsOpener
<1>5. ByType(w) /\ QuietBeforeReady(w) /\ Reachable(w) /\ Delivering(w) /\ AssertsHold(w)
  BY <1>1, <1>2 DEF Good, Almost, ByType, QuietBeforeReady, Reachable, Delivering,
                    AssertsHold
<1>6. Good(w, h)
  BY <1>1, <1>4, <1>5 DEF Good, Almost
<1>7. Good(c, h) /\ (SCTP \/ c.connected \/ c.listed)
  <2>1. CASE SCTP /\ s.role # "kNone"
    BY <1>1, <1>3, <1>6, <2>1, SendControlIsGood
  <2>2. CASE ~(SCTP /\ s.role # "kNone")
    BY <1>1, <1>6, <2>2
  <2> QED BY <2>1, <2>2
<1>8. FirstWritable(s, r1, r2) = Asserted(u, "OnChannelReady", Empty(s.queued_send))
  BY DEF FirstWritable, w
<1> HIDE DEF c
<1>9. Good(u, h)
  BY <1>7, UpdateStateIsGood
<1>10. Empty(s.queued_send) /\ Empty(s.queued_send) \in BOOLEAN
  BY <1>2 DEF Empty
<1>11. "OnChannelReady" \in AssertNames
  BY DEF AssertNames
<1> HIDE DEF u
<1> QED BY <1>8, <1>9, <1>10, <1>11, AssertedIsGood

\* OnChannelReady, the first call and the later ones, preserves the invariant.
LEMMA OnChannelReadyIsGood ==
    ASSUME NEW s, NEW h \in BOOLEAN, NEW r1 \in SendDataResult, NEW r2 \in SendDataResult,
           NEW k \in 0 .. Len(s.queued_send.packets),
           Good(s, h), SCTP \/ s.connected
    PROVE  Good(OnChannelReady(s, r1, r2, k), h)
<1>1. CASE ~s.was_ever_writable
  <2>1. OnChannelReady(s, r1, r2, k) = FirstWritable(s, r1, r2)
    BY <1>1 DEF OnChannelReady
  <2>2. CASE SCTP \/ s.listed
    BY <1>1, <2>1, <2>2, FirstWritableIsGood
  <2>3. CASE ~SCTP /\ ~s.listed
    <3>1. s.state = "kClosed" /\ s \in DataChannelRecord
      BY <2>3 DEF Good, Almost, Reachable
    <3> DEFINE w == [s EXCEPT !.was_ever_writable = TRUE]
    <3>2. w \in DataChannelRecord /\ w.state = "kClosed" /\ w.queued_send = s.queued_send
      BY <3>1 DEF DataChannelRecord
    <3>3. Empty(s.queued_send)
      BY <1>1 DEF Good, Almost, QuietBeforeReady, Empty
    <3>4. FirstWritable(s, r1, r2) = w
      BY <2>3, <3>2, <3>3 DEF FirstWritable, UpdateState, MayOpen, Asserted
    <3>5. /\ w.wire = s.wire /\ w.waiting_for_open_ack = s.waiting_for_open_ack
          /\ w.role = s.role /\ w.was_ever_writable
          /\ w.queued_control = s.queued_control /\ w.asserts = s.asserts
          /\ w.send_ssrc_set = s.send_ssrc_set /\ w.receive_ssrc_set = s.receive_ssrc_set
      BY <3>1 DEF DataChannelRecord
    <3> HIDE DEF w
    <3>6. OneControl(w) /\ OrderedWhileWaiting(w, h)
      BY <3>5 DEF Good, Almost, OneControl, NoControl, ControlOnWire,
                  OrderedWhileWaiting, IsOpener
    <3>7. ByType(w) /\ QuietBeforeReady(w) /\ Reachable(w) /\ Delivering(w)
          /\ AssertsHold(w)
      BY <3>2, <3>5 DEF Good, Almost, ByType, QuietBeforeReady, Reachable, Delivering,
                        AssertsHold
    <3> QED BY <2>1, <3>2, <3>4, <3>6, <3>7 DEF Good, Almost
  <2> QED BY <2>2, <2>3
<1>2. CASE s.was_ever_writable /\ s.state = "kOpen"
  <2> DEFINE t == SendQueuedControlMessages(s, r1)
  <2>1. Good(t, h) /\ t.was_ever_writable /\ t.queued_send = s.queued_send
    BY <1>2, SendQueuedControlIsGood
  <2>2. OnChannelReady(s, r1, r2, k) = SendQueuedDataMessages(t, k, r2)
    BY <1>2 DEF OnChannelReady, Unblock
  <2> HIDE DEF t
  <2> QED BY <2>1, <2>2, SendQueuedDataIsGood
<1>3. CASE s.was_ever_writable /\ s.state # "kOpen"
  BY <1>3 DEF OnChannelReady
<1> QED BY <1>1, <1>2, <1>3

-----------------------------------------------------------------------------
(* Receiving.                                                              *)

\* A record that agrees with a good one but for what was received, once the peer
\* has been heard.
LEMMA ReceivedIsGood ==
    ASSUME NEW s, NEW h \in BOOLEAN, Good(s, h), NEW t \in DataChannelRecord,
           t.role = s.role, t.was_ever_writable = s.was_ever_writable,
           t.queued_control = s.queued_control, t.queued_send = s.queued_send,
           t.wire = s.wire, t.transport = s.transport, t.asserts = s.asserts,
           t.state = s.state, t.connected = s.connected, t.listed = s.listed,
           t.send_ssrc_set = s.send_ssrc_set, t.receive_ssrc_set = s.receive_ssrc_set,
           Delivering(t)
    PROVE  Good(t, TRUE)
<1>1. OneControl(t) /\ OrderedWhileWaiting(t, TRUE)
  BY DEF Good, Almost, OneControl, NoControl, ControlOnWire, OrderedWhileWaiting
<1>2. ByType(t) /\ QuietBeforeReady(t) /\ Reachable(t) /\ AssertsHold(t)
  BY DEF Good, Almost, ByType, QuietBeforeReady, Reachable, AssertsHold
<1> QED BY <1>1, <1>2 DEF Good, Almost

\* An OPEN_ACK ends the wait and preserves the invariant once the peer is heard.
LEMMA OnOpenAckIsGood ==
    ASSUME NEW s, NEW h \in BOOLEAN, Good(s, h)
    PROVE  Good(OnOpenAck(s), TRUE)
<1> DEFINE t == [s EXCEPT !.waiting_for_open_ack = FALSE]
<1>0. s \in DataChannelRecord /\ Delivering(s)
  BY DEF Good, Almost
<1>1. /\ t \in DataChannelRecord
      /\ t.role = s.role /\ t.was_ever_writable = s.was_ever_writable
      /\ t.queued_control = s.queued_control /\ t.queued_send = s.queued_send
      /\ t.wire = s.wire /\ t.transport = s.transport /\ t.asserts = s.asserts
      /\ t.state = s.state /\ t.connected = s.connected /\ t.listed = s.listed
      /\ t.send_ssrc_set = s.send_ssrc_set /\ t.receive_ssrc_set = s.receive_ssrc_set
      /\ t.observer = s.observer /\ t.queued_received = s.queued_received
  BY <1>0 DEF DataChannelRecord
<1>2. OnOpenAck(s) = t
  BY DEF OnOpenAck
<1> HIDE DEF t
<1>3. Delivering(t)
  BY <1>0, <1>1 DEF Delivering
<1> QED BY <1>1, <1>2, <1>3, ReceivedIsGood

\* A received message is delivered, queued, or overflows the queue; none of the
\* three holds data back from the observer of an open channel.
LEMMA OnDataReceivedIsGood ==
    ASSUME NEW s, NEW h \in BOOLEAN, NEW p \in Packet, Good(s, h)
    PROVE  Good(OnDataReceived(s, p), TRUE)
<1> DEFINE d == [s EXCEPT !.waiting_for_open_ack = FALSE]
           t1 == [d EXCEPT !.delivered = Append(d.delivered, p)]
           t2 == [d EXCEPT !.queued_received = EmptyQueue]
           q == Push(d.queued_received, p)
           t3 == [d EXCEPT !.queued_received = q]
<1>0. s \in DataChannelRecord /\ Good(d, TRUE)
  BY OnOpenAckIsGood DEF OnOpenAck, Good, Almost
<1>1. d \in DataChannelRecord /\ d.was_ever_writable = s.was_ever_writable
      /\ d.observer = s.observer /\ d.state = s.state
      /\ d.queued_received = s.queued_received
  BY <1>0 DEF DataChannelRecord
<1>2. OnDataReceived(s, p) =
        IF s.was_ever_writable /\ s.observer THEN t1
        ELSE IF s.queued_received.byte_count + p.size > kMaxQueuedReceivedDataBytes
             THEN ReceiveOverflow(d) ELSE t3
  BY <1>1 DEF OnDataReceived
<1>3. ReceiveOverflow(d) \in {t2, Close(t2)}
  BY DEF ReceiveOverflow
<1> HIDE DEF d
<1>4. Good(t1, TRUE)
  <2>1. Append(d.delivered, p) \in Seq(Packet)
    BY <1>1 DEF DataChannelRecord
  <2>2. /\ t1 \in DataChannelRecord
        /\ t1.role = d.role /\ t1.was_ever_writable = d.was_ever_writable
        /\ t1.queued_control = d.queued_control /\ t1.queued_send = d.queued_send
        /\ t1.wire = d.wire /\ t1.transport = d.transport /\ t1.asserts = d.asserts
        /\ t1.state = d.state /\ t1.connected = d.connected /\ t1.listed = d.listed
        /\ t1.send_ssrc_set = d.send_ssrc_set /\ t1.receive_ssrc_set = d.receive_ssrc_set
        /\ t1.observer = d.observer /\ t1.queued_received = d.queued_received
    BY <1>1, <2>1 DEF DataChannelRecord
  <2> HIDE DEF t1
  <2>3. Delivering(t1)
    BY <1>0, <2>2 DEF Good, Delivering
  <2> QED BY <1>0, <2>2, <2>3, ReceivedIsGood
<1>5. Good(t2, TRUE)
  <2>1. EmptyQueue \in PacketQueue /\ EmptyQueue.packets = <<>>
    BY DEF EmptyQueue, PacketQueue
  <2>2. /\ t2 \in DataChannelRecord
        /\ t2.role = d.role /\ t2.was_ever_writable = d.was_ever_writable
        /\ t2.queued_control = d.queued_control /\ t2.queued_send = d.queued_send
        /\ t2.wire = d.wire /\ t2.transport = d.transport /\ t2.asserts = d.asserts
        /\ t2.state = d.state /\ t2.connected = d.connected /\ t2.listed = d.listed
        /\ t2.send_ssrc_set = d.send_ssrc_set /\ t2.receive_ssrc_set = d.receive_ssrc_set
        /\ t2.queued_received = EmptyQueue
    BY <1>1, <2>1 DEF DataChannelRecord
  <2> HIDE DEF t2
  <2>3. Delivering(t2)
    BY <2>1, <2>2 DEF Delivering
  <2> QED BY <1>0, <2>2, <2>3, ReceivedIsGood
<1>6. ~(s.was_ever_writable /\ s.observer) => Good(t3, TRUE)
  <2>1. q \in PacketQueue
    <3>1. d.queued_received \in PacketQueue
      BY <1>1 DEF DataChannelRecord
    <3> QED BY <3>1, PushType
  <2>2. /\ t3 \in DataChannelRecord
        /\ t3.role = d.role /\ t3.was_ever_writable = d.was_ever_writable
        /\ t3.queued_control = d.queued_control /\ t3.queued_send = d.queued_send
        /\ t3.wire = d.wire /\ t3.transport = d.transport /\ t3.asserts = d.asserts
        /\ t3.state = d.state /\ t3.connected = d.connected /\ t3.listed = d.listed
        /\ t3.send_ssrc_set = d.send_ssrc_set /\ t3.receive_ssrc_set = d.receive_ssrc_set
        /\ t3.observer = d.observer
    <3> HIDE DEF q
    <3> QED BY <1>1, <2>1 DEF DataChannelRecord
  <2> HIDE DEF t3
  <2> SUFFICES ASSUME ~(s.was_ever_writable /\ s.observer)
               PROVE  Good(t3, TRUE)
    OBVIOUS
  <2>3. Delivering(t3)
    BY <1>1, <1>0, <2>2 DEF Good, Almost, QuietBeforeReady, Delivering
  <2> QED BY <1>0, <2>2, <2>3, ReceivedIsGood
<1> HIDE DEF t1, t2, t3
<1>7. Good(Close(t2), TRUE)
  BY <1>5, CloseIsGood
<1> QED BY <1>2, <1>3, <1>4, <1>5, <1>6, <1>7

-----------------------------------------------------------------------------
(* The session: transport, list, stream and SSRCs.                         *)

\* The members the session's updates leave alone.
Kept(s, t) ==
    /\ t.role = s.role /\ t.state = s.state /\ t.observer = s.observer
    /\ t.waiting_for_open_ack = s.waiting_for_open_ack
    /\ t.was_ever_writable = s.was_ever_writable
    /\ t.queued_control = s.queued_control /\ t.queued_received = s.queued_received
    /\ t.queued_send = s.queued_send /\ t.wire = s.wire /\ t.asserts = s.asserts

\* A call that changes only the wiring of the channel preserves the invariant.
LEMMA KeptIsGood ==
    ASSUME NEW s, NEW t \in DataChannelRecord, NEW h \in BOOLEAN,
           Good(s, h), Kept(s, t), Reachable(t),
           SCTP => ~t.send_ssrc_set /\ ~t.receive_ssrc_set
    PROVE  Good(t, h)
<1>1. ByType(t) /\ QuietBeforeReady(t) /\ Delivering(t) /\ AssertsHold(t)
  BY DEF Good, Almost, Kept, ByType, QuietBeforeReady, Delivering, AssertsHold
<1>2. OneControl(t)
  BY DEF Good, Almost, Kept, OneControl, NoControl, ControlOnWire
<1>3. OrderedWhileWaiting(t, h)
  BY DEF Good, Almost, Kept, ControlOnWire, OrderedWhileWaiting, IsOpener
<1> QED BY <1>1, <1>2, <1>3 DEF Good, Almost

\* What happens to the stream does not matter to the invariant.
LEMMA StreamIsGood ==
    ASSUME NEW s, NEW h \in BOOLEAN, Good(s, h), NEW v \in StreamState
    PROVE  LET t == [s EXCEPT !.stream = v]
           IN Good(t, h) /\ t.listed = s.listed /\ t.id = s.id
<1> DEFINE t == [s EXCEPT !.stream = v]
<1>0. s \in DataChannelRecord
  BY DEF Good, Almost
<1>1. /\ t \in DataChannelRecord /\ Kept(s, t)
      /\ t.connected = s.connected /\ t.listed = s.listed /\ t.transport = s.transport
      /\ t.send_ssrc_set = s.send_ssrc_set /\ t.receive_ssrc_set = s.receive_ssrc_set
      /\ t.id = s.id
  BY <1>0 DEF DataChannelRecord, Kept
<1> HIDE DEF t
<1>2. Reachable(t) /\ (SCTP => ~t.send_ssrc_set /\ ~t.receive_ssrc_set)
  BY <1>1 DEF Good, Almost, Reachable, ByType, Kept
<1>3. Good(t, h)
  BY <1>1, <1>2, KeptIsGood
<1> QED BY <1>1, <1>3 DEF t

\* AddSctpDataStream preserves the invariant.
LEMMA AddStreamIsGood ==
    ASSUME NEW s, NEW h \in BOOLEAN, Good(s, h)
    PROVE  LET t == AddSctpDataStream(s)
           IN Good(t, h) /\ t.listed = s.listed /\ t.id = s.id
<1> DEFINE v == IF s.transport /\ s.stream = "none" THEN "open" ELSE s.stream
<1>1. v \in StreamState
  BY DEF Good, Almost, DataChannelRecord, StreamState
<1>2. AddSctpDataStream(s) = [s EXCEPT !.stream = v]
  BY DEF AddSctpDataStream
<1> HIDE DEF v
<1> QED BY <1>1, <1>2, StreamIsGood

\* Setting the transport.
LEMMA TransportIsGood ==
    ASSUME NEW s, NEW h \in BOOLEAN, Good(s, h)
    PROVE  LET t == [s EXCEPT !.transport = TRUE]
           IN /\ Good(t, h)
              /\ t.listed = s.listed /\ t.id = s.id
<1> DEFINE t == [s EXCEPT !.transport = TRUE]
<1>0. s \in DataChannelRecord
  BY DEF Good, Almost
<1>1. /\ t \in DataChannelRecord /\ Kept(s, t) /\ t.transport
      /\ t.connected = s.connected /\ t.listed = s.listed
      /\ t.send_ssrc_set = s.send_ssrc_set /\ t.receive_ssrc_set = s.receive_ssrc_set
      /\ t.id = s.id
  BY <1>0 DEF DataChannelRecord, Kept
<1> HIDE DEF t
<1>2. Reachable(t) /\ (SCTP => ~t.send_ssrc_set /\ ~t.receive_ssrc_set)
  BY <1>1 DEF Good, Almost, Reachable, ByType, Kept
<1>3. Good(t, h)
  BY <1>1, <1>2, KeptIsGood
<1> QED BY <1>1, <1>3 DEF t

\* OnTransportChannelCreated preserves the invariant of a listed channel.
LEMMA OnTransportCreatedIsGood ==
    ASSUME NEW s, NEW h \in BOOLEAN, Good(s, h), s.listed
    PROVE  Good(OnTransportChannelCreated(s), h)
<1> DEFINE c == IF s.connected THEN s ELSE ConnectDataChannel(s)
<1>1. Good(c, h)
  BY ConnectIsGood
<1>2. OnTransportChannelCreated(s) = IF s.id >= 0 THEN AddSctpDataStream(c) ELSE c
  BY DEF OnTransportChannelCreated
<1> HIDE DEF c
<1> QED BY <1>1, <1>2, AddStreamIsGood

\* SetSctpSid preserves the invariant.
LEMMA SetSctpSidIsGood ==
    ASSUME NEW s, NEW h \in BOOLEAN, Good(s, h)
    PROVE  Good(SetSctpSid(s), h)
<1> DEFINE c == s.id < 0
           a == Asserted(s, "SetSctpSid", c)
           t == [a EXCEPT !.id = 0]
<1>1. Good(a, h)
  <2>1. c \in BOOLEAN /\ "SetSctpSid" \in AssertNames
    BY DEF AssertNames
  <2> HIDE DEF c
  <2> QED BY <2>1, AssertedIsGood
<1>2. SetSctpSid(s) = AddSctpDataStream(t)
  BY DEF SetSctpSid
<1> HIDE DEF a
<1>3. a \in DataChannelRecord
  BY <1>1 DEF Good, Almost
<1>4. /\ t \in DataChannelRecord /\ Kept(a, t) /\ t.transport = a.transport
      /\ t.connected = a.connected /\ t.listed = a.listed
      /\ t.send_ssrc_set = a.send_ssrc_set /\ t.receive_ssrc_set = a.receive_ssrc_set
  BY <1>3 DEF DataChannelRecord, Kept
<1> HIDE DEF t
<1>5. Reachable(t) /\ (SCTP => ~t.send_ssrc_set /\ ~t.receive_ssrc_set)
  BY <1>1, <1>4 DEF Good, Almost, Reachable, ByType, Kept
<1>6. Good(t, h)
  BY <1>1, <1>4, <1>5, KeptIsGood
<1> QED BY <1>2, <1>6, AddStreamIsGood

\* SetSendSsrc, which may open an RTP channel, preserves the invariant.
LEMMA SetSendSsrcIsGood ==
    ASSUME NEW s, NEW h \in BOOLEAN, Good(s, h), RTP, s.listed, NEW ssrc \in {0, 1}
    PROVE  Good(SetSendSsrc(s, ssrc), h)
<1> DEFINE t == [s EXCEPT !.send_ssrc = ssrc, !.send_ssrc_set = TRUE]
<1>0. s \in DataChannelRecord
  BY DEF Good, Almost
<1>1. /\ t \in DataChannelRecord /\ Kept(s, t) /\ t.transport = s.transport
      /\ t.connected = s.connected /\ t.listed = s.listed
  BY <1>0 DEF DataChannelRecord, Kept
<1>2. SetSendSsrc(s, ssrc) = IF s.send_ssrc_set THEN s ELSE UpdateState(t, "SDR_SUCCESS")
  BY DEF SetSendSsrc
<1> HIDE DEF t
<1>3. Reachable(t)
  BY <1>1 DEF Good, Almost, Reachable, Kept
<1>4. Good(t, h)
  BY <1>1, <1>3, KeptIsGood
<1>5. "SDR_SUCCESS" \in SendDataResult
  BY DEF SendDataResult
<1> QED BY <1>1, <1>2, <1>4, <1>5, UpdateStateIsGood

\* SetReceiveSsrc, which may open an RTP channel, preserves the invariant.
LEMMA SetReceiveSsrcIsGood ==
    ASSUME NEW s, NEW h \in BOOLEAN, Good(s, h), RTP, s.listed
    PROVE  Good(SetReceiveSsrc(s, 2), h)
<1> DEFINE t == [s EXCEPT !.receive_ssrc = 2, !.receive_ssrc_set = TRUE]
<1>0. s \in DataChannelRecord
  BY DEF Good, Almost
<1>1. /\ t \in DataChannelRecord /\ Kept(s, t) /\ t.transport = s.transport
      /\ t.connected = s.connected /\ t.listed = s.listed
  BY <1>0 DEF DataChannelRecord, Kept
<1>2. SetReceiveSsrc(s, 2) =
        IF s.receive_ssrc_set THEN s ELSE UpdateState(t, "SDR_SUCCESS")
  BY DEF SetReceiveSsrc
<1> HIDE DEF t
<1>3. Reachable(t)
  BY <1>1 DEF Good, Almost, Reachable, Kept
<1>4. Good(t, h)
  BY <1>1, <1>3, KeptIsGood
<1>5. "SDR_SUCCESS" \in SendDataResult
  BY DEF SendDataResult
<1> QED BY <1>1, <1>2, <1>4, <1>5, UpdateStateIsGood

\* Dropping a closed channel from the list keeps live channels reachable.
LEMMA DropClosedIsGood ==
    ASSUME NEW s, NEW h \in BOOLEAN, Good(s, h)
    PROVE  Good(DropClosed(s), h)
<1> DEFINE b == s.listed /\ s.state # "kClosed"
           t == [s EXCEPT !.listed = b]
<1>0. s \in DataChannelRecord /\ b \in BOOLEAN
  BY DEF Good, Almost
<1>1. DropClosed(s) = t
  BY DEF DropClosed
<1>2. /\ t \in DataChannelRecord /\ Kept(s, t) /\ t.transport = s.transport
      /\ t.connected = s.connected /\ t.listed = b
      /\ t.send_ssrc_set = s.send_ssrc_set /\ t.receive_ssrc_set = s.receive_ssrc_set
  <2> HIDE DEF b
  <2> QED BY <1>0 DEF DataChannelRecord, Kept
<1> HIDE DEF t
<1>3. Reachable(t) /\ (SCTP => ~t.send_ssrc_set /\ ~t.receive_ssrc_set)
  BY <1>2 DEF Good, Almost, Reachable, ByType, Kept
<1> QED BY <1>1, <1>2, <1>3, KeptIsGood

\* OnDataChannelClose leaves no channel live, so that the transport may go.
LEMMA OnDataChannelCloseIsGood ==
    ASSUME NEW s, NEW h \in BOOLEAN, Good(s, h)
    PROVE  LET t == OnDataChannelClose(s)
           IN Good(t, h) /\ (~t.connected \/ t.state = "kClosed")
<1>0. s \in DataChannelRecord /\ Almost(s, h)
  BY DEF Good, Almost
<1>1. CASE ~s.listed
  BY <1>1 DEF OnDataChannelClose, Good, Almost, Reachable
<1>2. CASE s.listed
  <2> DEFINE z == [s EXCEPT !.listed = FALSE]
             t == DoClose(z)
  <2>1. /\ z \in DataChannelRecord /\ Untouched(s, z) /\ Kept(s, z)
        /\ z.connected = s.connected
        /\ z.send_ssrc_set = s.send_ssrc_set /\ z.receive_ssrc_set = s.receive_ssrc_set
    BY <1>0 DEF DataChannelRecord, Untouched, Kept
  <2>2. OnDataChannelClose(s) = t
    BY <1>2 DEF OnDataChannelClose
  <2> HIDE DEF z
  <2>3. /\ t \in DataChannelRecord
        /\ Untouched(z, t)
        /\ z.state = "kClosed" => t = z
        /\ z.state # "kClosed" => Off(t) /\ ~t.send_ssrc_set /\ ~t.receive_ssrc_set
        /\ t.state = "kClosed"
    BY <2>1, DoCloseContract
  <2> HIDE DEF t
  <2>4. CASE z.state = "kClosed"
    <3>1. Reachable(z) /\ (SCTP => ~z.send_ssrc_set /\ ~z.receive_ssrc_set)
      BY <2>1, <2>4 DEF Good, Almost, Reachable, ByType
    <3>2. Good(z, h)
      BY <2>1, <3>1, KeptIsGood
    <3> QED BY <2>2, <2>3, <2>4, <3>2
  <2>5. CASE z.state # "kClosed"
    <3>1. Untouched(s, t)
      BY <2>1, <2>3 DEF Untouched
    <3>2. Good(t, h)
      BY <1>0, <2>3, <2>5, <3>1, OffIsGood
    <3> QED BY <2>2, <2>3, <3>2
  <2> QED BY <2>4, <2>5
<1> QED BY <1>1, <1>2

\* OnRemoteSctpDataChannelClosed preserves the invariant.
LEMMA CloseListedIsGood ==
    ASSUME NEW s, NEW h \in BOOLEAN, Good(s, h)
    PROVE  Good(CloseListed(s), h)
BY CloseIsGood DEF CloseListed

-----------------------------------------------------------------------------
(* The inductive invariant.                                                *)

\* A channel fresh from its constructor is good.
LEMMA ConstructedIsGood ==
    ASSUME NEW role \in {"kOpener", "kAcker", "kNone"}, NEW ordered \in BOOLEAN,
           NEW id \in {-1, 0}, NEW transport \in BOOLEAN, NEW stream \in StreamState
    PROVE  LET s == Constructed(role, ordered, id, transport, stream)
           IN Good(s, FALSE) /\ s.listed
<1> DEFINE s == Constructed(role, ordered, id, transport, stream)
<1>1. EmptyQueue \in PacketQueue /\ EmptyQueue.packets = <<>>
  BY DEF EmptyQueue, PacketQueue
<1>2. <<>> \in Seq(WireMessage) /\ <<>> \in Seq(Packet)
  OBVIOUS
<1>3. s \in DataChannelRecord
  BY <1>1, <1>2 DEF Constructed, DataChannelRecord, DataState
<1>4. /\ s.state = "kConnecting" /\ ~s.observer /\ ~s.connected /\ s.listed
      /\ ~s.send_ssrc_set /\ ~s.receive_ssrc_set
      /\ s.queued_control = 0 /\ s.queued_send = EmptyQueue /\ s.wire = <<>>
      /\ s.asserts = {}
  BY DEF Constructed
<1> HIDE DEF s
<1>5. NoControl(s)
  BY <1>4 DEF NoControl, ControlOnWire
<1>6. OneControl(s) /\ OrderedWhileWaiting(s, FALSE)
  BY <1>4, <1>5 DEF OneControl, OrderedWhileWaiting, NoControl
<1>7. ByType(s) /\ QuietBeforeReady(s) /\ Reachable(s) /\ Delivering(s) /\ AssertsHold(s)
  BY <1>1, <1>4 DEF ByType, QuietBeforeReady, Reachable, Delivering, AssertsHold
<1> QED BY <1>3, <1>4, <1>6, <1>7 DEF Good, Almost, s

\* A DataChannel as its constructor and Init leave it satisfies the invariant.
LEMMA InitIsGood == Init => IndInv
<1> SUFFICES ASSUME Init PROVE IndInv
  OBVIOUS
<1>1. PICK role \in Roles, ordered \in BOOLEAN, transport \in BOOLEAN, stale \in BOOLEAN,
           known \in BOOLEAN, id \in {-1, 0} :
        /\ dc = CreateDataChannel(role, ordered, id, transport, stale)
        /\ roleKnown = known
  BY DEF Init
<1> DEFINE v == IF stale THEN "closing" ELSE "none"
           s == Constructed(role, ordered, id, transport, v)
<1>2. v \in StreamState /\ role \in {"kOpener", "kAcker", "kNone"}
  BY DEF StreamState
<1>3. Good(s, FALSE) /\ s.listed
  <2> HIDE DEF v
  <2> QED BY <1>2, ConstructedIsGood
<1>4. dc = IF SCTP THEN OnTransportChannelCreated(s) ELSE s
  BY <1>1 DEF CreateDataChannel
<1> HIDE DEF s
<1>5. Good(dc, FALSE)
  BY <1>3, <1>4, OnTransportCreatedIsGood
<1>6. /\ heard = FALSE /\ ready \in BOOLEAN /\ posted = (SCTP /\ ready)
      /\ closedPosted = FALSE /\ sends = 0 /\ arrived = 0
      /\ desc \in {"none", "without"}
  BY DEF Init, PostsChannelReady
<1>7. dc \in DataChannelRecord
  BY <1>5 DEF Good, Almost
<1> QED BY <1>1, <1>5, <1>6, <1>7 DEF IndInv, TypeOK

\* A step that leaves a good record and well-typed counters.
LEMMA GoodStep ==
    ASSUME TypeOK, Good(dc', heard'), posted' => SCTP,
           posted' \in BOOLEAN, roleKnown' \in BOOLEAN, ready' \in BOOLEAN,
           closedPosted' \in BOOLEAN, desc' \in {"none", "with", "without"},
           sends' \in Nat, arrived' \in Nat, heard' \in BOOLEAN
    PROVE  IndInv'
BY DEF IndInv, TypeOK, Good, Almost

\* Every action preserves the invariant.
LEMMA NextIsGood == IndInv /\ [Next]_vars => IndInv'
<1> SUFFICES ASSUME IndInv, [Next]_vars PROVE IndInv'
  OBVIOUS
<1> USE DEF env
<1>0. /\ TypeOK /\ Good(dc, heard) /\ dc \in DataChannelRecord /\ heard \in BOOLEAN
      /\ posted \in BOOLEAN /\ roleKnown \in BOOLEAN /\ ready \in BOOLEAN
      /\ closedPosted \in BOOLEAN /\ desc \in {"none", "with", "without"}
      /\ sends \in Nat /\ arrived \in Nat /\ (posted => SCTP)
  BY DEF IndInv, TypeOK
<1>1. CASE RegisterObserver
  <2> DEFINE t == [dc EXCEPT !.observer = TRUE]
  <2>1. /\ t \in DataChannelRecord
        /\ t.wire = dc.wire /\ t.waiting_for_open_ack = dc.waiting_for_open_ack
        /\ t.role = dc.role /\ t.was_ever_writable = dc.was_ever_writable
        /\ t.queued_control = dc.queued_control /\ t.queued_send = dc.queued_send
        /\ t.transport = dc.transport /\ t.asserts = dc.asserts
        /\ t.state = dc.state /\ t.connected = dc.connected /\ t.listed = dc.listed
        /\ t.send_ssrc_set = dc.send_ssrc_set /\ t.receive_ssrc_set = dc.receive_ssrc_set
    BY <1>0 DEF DataChannelRecord
  <2>2. dc' = DeliverQueuedReceivedData(t)
    BY <1>1 DEF RegisterObserver
  <2> HIDE DEF t
  <2>3. OneControl(t) /\ OrderedWhileWaiting(t, heard)
    BY <1>0, <2>1 DEF Good, Almost, OneControl, NoControl, ControlOnWire,
                      OrderedWhileWaiting, IsOpener
  <2>4. ByType(t) /\ QuietBeforeReady(t) /\ Reachable(t) /\ AssertsHold(t)
    BY <1>0, <2>1 DEF Good, Almost, ByType, QuietBeforeReady, Reachable, AssertsHold
  <2>5. Good(dc', heard)
    BY <1>0, <2>1, <2>2, <2>3, <2>4, DeliverIsGood DEF Almost
  <2> QED BY <1>0, <1>1, <2>5, GoodStep DEF RegisterObserver
<1>2. CASE UnregisterObserver
  <2> DEFINE t == [dc EXCEPT !.observer = FALSE]
  <2>1. /\ t \in DataChannelRecord
        /\ t.wire = dc.wire /\ t.waiting_for_open_ack = dc.waiting_for_open_ack
        /\ t.role = dc.role /\ t.was_ever_writable = dc.was_ever_writable
        /\ t.queued_control = dc.queued_control /\ t.queued_send = dc.queued_send
        /\ t.transport = dc.transport /\ t.asserts = dc.asserts /\ ~t.observer
        /\ t.state = dc.state /\ t.connected = dc.connected /\ t.listed = dc.listed
        /\ t.send_ssrc_set = dc.send_ssrc_set /\ t.receive_ssrc_set = dc.receive_ssrc_set
    BY <1>0 DEF DataChannelRecord
  <2>2. dc' = t
    BY <1>2 DEF UnregisterObserver
  <2> HIDE DEF t
  <2>3. OneControl(t) /\ OrderedWhileWaiting(t, heard)
    BY <1>0, <2>1 DEF Good, Almost, OneControl, NoControl, ControlOnWire,
                      OrderedWhileWaiting, IsOpener
  <2>4. ByType(t) /\ QuietBeforeReady(t) /\ Reachable(t) /\ Delivering(t) /\ AssertsHold(t)
    BY <1>0, <2>1 DEF Good, Almost, ByType, QuietBeforeReady, Reachable, Delivering,
                      AssertsHold
  <2>5. Good(dc', heard)
    BY <2>1, <2>2, <2>3, <2>4 DEF Good, Almost
  <2> QED BY <1>0, <1>2, <2>5, GoodStep DEF UnregisterObserver
<1>3. CASE AppClose
  <2>1. Good(dc', heard)
    BY <1>0, <1>3, CloseIsGood DEF AppClose
  <2> QED BY <1>0, <1>3, <2>1, GoodStep DEF AppClose
<1>4. ASSUME NEW size \in Sizes, NEW r \in SendDataResult, Send(size, r)
      PROVE  IndInv'
  <2> DEFINE p == [n |-> sends', size |-> size]
  <2>1. p \in Packet /\ sends' \in Nat
    BY <1>0, <1>4 DEF Send, Packet
  <2>2. dc.state = "kOpen" /\ dc' = SendOrQueue(dc, p, r)
    BY <1>4 DEF Send, SendAllowed
  <2> HIDE DEF p
  <2>3. Good(dc', heard)
    BY <1>0, <2>1, <2>2, SendOrQueueIsGood
  <2> QED BY <1>0, <1>4, <2>1, <2>3, GoodStep DEF Send
<1>5. ASSUME NEW r1 \in SendDataResult, NEW r2 \in SendDataResult,
             NEW k \in 0 .. Len(dc.queued_send.packets), OnMessage(r1, r2, k)
      PROVE  IndInv'
  <2>1. SCTP
    BY <1>0, <1>5 DEF OnMessage
  <2>2. Good(dc', heard)
    BY <1>0, <1>5, <2>1, OnChannelReadyIsGood DEF OnMessage
  <2> QED BY <1>0, <1>5, <2>2, GoodStep DEF OnMessage
<1>6. ASSUME NEW r1 \in SendDataResult, NEW r2 \in SendDataResult,
             NEW k \in 0 .. Len(dc.queued_send.packets), ReadyToSendData(r1, r2, k)
      PROVE  IndInv'
  <2>1. Good(dc', heard)
    BY <1>0, <1>6, OnChannelReadyIsGood DEF ReadyToSendData
  <2> QED BY <1>0, <1>6, <2>1, GoodStep DEF ReadyToSendData
<1>7. CASE ReceiveOpenAck
  <2>1. Good(dc', TRUE) /\ heard' = TRUE
    BY <1>0, <1>7, OnOpenAckIsGood DEF ReceiveOpenAck
  <2> QED BY <1>0, <1>7, <2>1, GoodStep DEF ReceiveOpenAck
<1>8. ASSUME NEW size \in Sizes, ReceiveData(size)
      PROVE  IndInv'
  <2> DEFINE p == [n |-> arrived', size |-> size]
  <2>1. p \in Packet /\ arrived' \in Nat
    BY <1>0, <1>8 DEF ReceiveData, Packet
  <2>2. dc' = OnDataReceived(dc, p) /\ heard' = TRUE
    BY <1>8 DEF ReceiveData
  <2> HIDE DEF p
  <2>3. Good(dc', TRUE)
    BY <1>0, <2>1, <2>2, OnDataReceivedIsGood
  <2> QED BY <1>0, <1>8, <2>1, <2>2, <2>3, GoodStep DEF ReceiveData
<1>9. CASE OnStreamClosedRemotely
  <2>1. dc' = [dc EXCEPT !.stream = "none"] /\ "none" \in StreamState
    BY <1>9 DEF OnStreamClosedRemotely, StreamState
  <2>2. Good(dc', heard)
    BY <1>0, <2>1, StreamIsGood
  <2> QED BY <1>0, <1>9, <2>2, GoodStep DEF OnStreamClosedRemotely
<1>10. CASE OnRemoteSctpDataChannelClosed
  <2>1. Good(dc', heard)
    BY <1>0, <1>10, CloseListedIsGood DEF OnRemoteSctpDataChannelClosed
  <2> QED BY <1>0, <1>10, <2>1, GoodStep DEF OnRemoteSctpDataChannelClosed
<1>11. CASE ResetAcknowledged
  <2>1. dc' = [dc EXCEPT !.stream = "none"] /\ "none" \in StreamState
    BY <1>11 DEF ResetAcknowledged, StreamState
  <2>2. Good(dc', heard)
    BY <1>0, <2>1, StreamIsGood
  <2> QED BY <1>0, <1>11, <2>2, GoodStep DEF ResetAcknowledged
<1>12. ASSUME NEW known \in BOOLEAN, NEW allocated \in AllocResults,
              SetSctpDescription(known, allocated)
       PROVE  IndInv'
  <2> DEFINE c == [dc EXCEPT !.transport = TRUE]
             t == IF dc.transport \/ ~dc.listed THEN c ELSE OnTransportChannelCreated(c)
  <2>1. Good(c, heard) /\ c.listed = dc.listed
    BY <1>0, TransportIsGood
  <2>2. dc' \in {t, SetSctpSid(t)}
    BY <1>12 DEF SetSctpDescription
  <2> HIDE DEF c
  <2>3. Good(t, heard)
    BY <1>0, <2>1, OnTransportCreatedIsGood
  <2> HIDE DEF t
  <2>4. Good(SetSctpSid(t), heard)
    BY <1>0, <2>3, SetSctpSidIsGood
  <2>5. Good(dc', heard)
    BY <2>2, <2>3, <2>4
  <2> QED BY <1>0, <1>12, <2>5, GoodStep DEF SetSctpDescription
<1>13. CASE CreateDescription
  BY <1>0, <1>13, GoodStep DEF CreateDescription
<1>14. CASE SetLocalRtpDescription
  <2> DEFINE t == [dc EXCEPT !.transport = TRUE]
  <2>1. Good(t, heard) /\ t.listed = dc.listed
    BY <1>0, TransportIsGood
  <2>2. RTP /\ \/ dc' = t
               \/ t.listed /\ dc' = SetSendSsrc(t, 1)
               \/ t.listed /\ dc' = DropClosed(SetSendSsrc(t, 0))
    BY <1>14, <2>1 DEF SetLocalRtpDescription
  <2> HIDE DEF t
  <2>3. t.listed => Good(SetSendSsrc(t, 1), heard) /\ Good(SetSendSsrc(t, 0), heard)
    BY <1>0, <2>1, <2>2, SetSendSsrcIsGood
  <2>4. t.listed => Good(DropClosed(SetSendSsrc(t, 0)), heard)
    BY <1>0, <2>3, DropClosedIsGood
  <2>5. Good(dc', heard)
    BY <2>1, <2>2, <2>3, <2>4
  <2> QED BY <1>0, <1>14, <2>5, GoodStep DEF SetLocalRtpDescription
<1>15. ASSUME NEW has \in BOOLEAN, SetRemoteRtpDescription(has)
       PROVE  IndInv'
  <2> DEFINE t == [dc EXCEPT !.transport = TRUE]
  <2>1. Good(t, heard) /\ t.listed = dc.listed
    BY <1>0, TransportIsGood
  <2>2. RTP /\ \/ dc' = t
               \/ t.listed /\ dc' = SetReceiveSsrc(t, 2)
               \/ dc' = DropClosed(DoClose(t))
    BY <1>15, <2>1 DEF SetRemoteRtpDescription
  <2> HIDE DEF t
  <2>3. t.listed => Good(SetReceiveSsrc(t, 2), heard)
    BY <1>0, <2>1, <2>2, SetReceiveSsrcIsGood
  <2>4. Good(DropClosed(DoClose(t)), heard)
    BY <1>0, <2>1, DoCloseIsGood, DropClosedIsGood
  <2>5. Good(dc', heard)
    BY <2>1, <2>2, <2>3, <2>4
  <2> QED BY <1>0, <1>15, <2>5, GoodStep DEF SetRemoteRtpDescription
<1>16. CASE DestroyTransport
  <2> DEFINE c == OnDataChannelClose(dc)
             t == [c EXCEPT !.transport = FALSE, !.stream = "none"]
  <2>1. Good(c, heard) /\ (~c.connected \/ c.state = "kClosed")
    BY <1>0, OnDataChannelCloseIsGood
  <2>2. dc' = t
    BY <1>16 DEF DestroyTransport
  <2> HIDE DEF c
  <2>3. c \in DataChannelRecord
    BY <2>1 DEF Good, Almost
  <2>4. /\ t \in DataChannelRecord /\ Kept(c, t) /\ t.connected = c.connected
        /\ t.send_ssrc_set = c.send_ssrc_set /\ t.receive_ssrc_set = c.receive_ssrc_set
    BY <2>3 DEF DataChannelRecord, Kept, StreamState
  <2> HIDE DEF t
  <2>5. Reachable(t) /\ (SCTP => ~t.send_ssrc_set /\ ~t.receive_ssrc_set)
    BY <2>1, <2>4 DEF Good, Almost, Reachable, ByType, Kept
  <2>6. Good(dc', heard)
    BY <1>0, <2>1, <2>2, <2>4, <2>5, KeptIsGood
  <2> QED BY <1>0, <1>16, <2>6, GoodStep DEF DestroyTransport
<1>17. CASE UNCHANGED vars
  BY <1>0, <1>17, GoodStep DEF vars
<1> QED BY <1>1, <1>2, <1>3, <1>4, <1>5, <1>6, <1>7, <1>8, <1>9, <1>10, <1>11, <1>12,
           <1>13, <1>14, <1>15, <1>16, <1>17 DEF Next

-----------------------------------------------------------------------------
(* The theorems.                                                           *)

\* The invariant the properties below are parts of holds in every reachable state.
THEOREM Invariance == Spec => []IndInv
<1>1. Init => IndInv
  BY InitIsGood
<1>2. IndInv /\ [Next]_vars => IndInv'
  BY NextIsGood
<1> QED BY <1>1, <1>2, PTL DEF Spec

\* Every member of the DataChannel keeps its type, whatever the calls and answers.
THEOREM TypeCorrect == Spec => []TypeOK
<1>1. IndInv => TypeOK
  BY DEF IndInv
<1> QED BY <1>1, Invariance, PTL

\* The OPEN or OPEN_ACK message goes out at most once however often it blocks.
THEOREM ControlIsSentOnce == Spec => []ControlSentOnce
<1>1. IndInv => ControlSentOnce
  <2> SUFFICES ASSUME IndInv PROVE ControlSentOnce
    OBVIOUS
  <2>1. OneControl(dc) /\ dc.queued_control \in Nat
    BY DEF IndInv, Good, Almost, DataChannelRecord
  <2> QED BY <2>1 DEF ControlSentOnce, OneControl, NoControl
<1> QED BY <1>1, Invariance, PTL

\* Data that follows the OPEN message is ordered until the peer has answered.
THEOREM DataIsOrderedUntilReply == Spec => []OrderedUntilReply
<1>1. IndInv => OrderedUntilReply
  BY DEF IndInv, Good, Almost, OrderedWhileWaiting, OrderedUntilReply
<1> QED BY <1>1, Invariance, PTL

\* An open channel with an observer has delivered everything it has received.
THEOREM NothingIsHeldBack == Spec => []NothingHeldBack
<1>1. IndInv => NothingHeldBack
  BY DEF IndInv, Good, Delivering, NothingHeldBack, Empty
<1> QED BY <1>1, Invariance, PTL

\* The session can always reach a connected channel that is not closed.
THEOREM LiveChannelsAreReachable == Spec => []LiveIsReachable
<1>1. IndInv => LiveIsReachable
  BY DEF IndInv, Good, Almost, Reachable, LiveIsReachable
<1> QED BY <1>1, Invariance, PTL

\* Two ASSERTs of the code never fail: no data is queued before the first ready
\* signal, and only SCTP channels queue data to send.
THEOREM NoDataWaitsBeforeReady == Spec => []NoDataBeforeReady
<1>1. IndInv => NoDataBeforeReady
  BY DEF IndInv, Good, Almost, AssertsHold, NoDataBeforeReady
<1> QED BY <1>1, Invariance, PTL
=============================================================================
