----------------------- MODULE DataChannelOrderProofs -----------------------
(***************************************************************************)
(* Machine-checked proofs about the queues of a DataChannel: their limits, *)
(* the order of what is sent and of what is delivered, and what a closed   *)
(* channel does not do, for every limit and every set of sizes.            *)
(*                                                                         *)
(* DataChannelProofs has the members' types and what relates them in one   *)
(* state; the order of messages also depends on the life of the channel,   *)
(* on which calls can still follow which, and that is the invariant here.  *)
(***************************************************************************)
EXTENDS DataChannelProofs

-----------------------------------------------------------------------------
(* The bytes of a sequence of packets.                                     *)

\* The sizes of two sets that have nothing in common.
LEMMA DisjointSizes ==
    ASSUME NEW S, IsFiniteSet(S), NEW T, IsFiniteSet(T), S \cap T = {}
    PROVE  Cardinality(S \cup T) = Cardinality(S) + Cardinality(T)
  <1>1. Cardinality(S \cup T) = Cardinality(S) + Cardinality(T) - Cardinality({})
    BY FS_Union
  <1>2. Cardinality({}) = 0 /\ Cardinality(S) \in Nat /\ Cardinality(T) \in Nat
    BY FS_EmptySet, FS_CardinalityType
  <1> QED
    BY <1>1, <1>2

\* A byte is named by its packet and its offset.
LEMMA BytesMember ==
    ASSUME NEW q \in Seq(Packet), NEW x
    PROVE  x \in Bytes(q) <=> \E i \in 1 .. Len(q), b \in Nat : b \in 1 .. q[i].size /\ x = <<i, b>>
  <1>1. DOMAIN q = 1 .. Len(q)
    OBVIOUS
  <1> QED
    BY <1>1 DEF Bytes

\* The bytes of one packet.
LEMMA PacketBytes ==
    ASSUME NEW i, NEW n \in Nat
    PROVE  IsFiniteSet({i} \X (1 .. n)) /\ Cardinality({i} \X (1 .. n)) = n
  <1>1. IsFiniteSet({i}) /\ Cardinality({i}) = 1
    BY FS_Singleton
  <1>2. IsFiniteSet(1 .. n) /\ Cardinality(1 .. n) = n
    BY FS_Interval
  <1>3. IsFiniteSet({i} \X (1 .. n))
        /\ Cardinality({i} \X (1 .. n)) = Cardinality({i}) * Cardinality(1 .. n)
    BY <1>1, <1>2, FS_Product
  <1> QED
    BY <1>1, <1>2, <1>3

\* An empty queue has no bytes.
LEMMA NoBytes == TotalSize(<<>>) = 0
  <1>1. Bytes(<<>>) = {}
    BY DEF Bytes
  <1> QED
    BY <1>1, FS_EmptySet DEF TotalSize

\* Push adds the size of the packet.
LEMMA TotalSizeAppend ==
    ASSUME NEW q \in Seq(Packet), NEW p \in Packet
    PROVE  TotalSize(Append(q, p)) = TotalSize(q) + p.size
  <1> DEFINE n == Len(q) + 1
             r == Append(q, p)
             new == {n} \X (1 .. p.size)
  <1>1. r \in Seq(Packet) /\ Len(r) = n /\ n \in Nat /\ r[n] = p
        /\ \A i \in 1 .. Len(q) : r[i] = q[i]
    OBVIOUS
  <1>2. p.size \in Nat
    BY PacketSize
  <1>3. IsFiniteSet(Bytes(q)) /\ Cardinality(Bytes(q)) \in Nat
    BY TotalSizeType DEF TotalSize
  <1>4. IsFiniteSet(new) /\ Cardinality(new) = p.size
    BY <1>2, PacketBytes
  <1>5. Bytes(r) = Bytes(q) \cup new
    <2> HIDE DEF r
    <2>1. ASSUME NEW x \in Bytes(r)
          PROVE  x \in Bytes(q) \cup new
      <3>1. PICK i \in 1 .. Len(r), b \in Nat : b \in 1 .. r[i].size /\ x = <<i, b>>
        BY <1>1, <2>1, BytesMember
      <3>2. CASE i = n
        BY <1>1, <3>1, <3>2
      <3>3. CASE i # n
        <4>1. i \in 1 .. Len(q) /\ r[i] = q[i]
          BY <1>1, <3>3
        <4> QED
          BY <3>1, <4>1, BytesMember
      <3> QED
        BY <3>2, <3>3
    <2>2. ASSUME NEW x \in Bytes(q)
          PROVE  x \in Bytes(r)
      <3>1. PICK i \in 1 .. Len(q), b \in Nat : b \in 1 .. q[i].size /\ x = <<i, b>>
        BY <2>2, BytesMember
      <3>2. i \in 1 .. Len(r) /\ r[i] = q[i]
        BY <1>1
      <3> QED
        BY <1>1, <3>1, <3>2, BytesMember
    <2>3. ASSUME NEW x \in new
          PROVE  x \in Bytes(r)
      <3>1. PICK b \in 1 .. p.size : x = <<n, b>>
        BY <2>3
      <3>2. n \in 1 .. Len(r) /\ r[n] = p
        BY <1>1
      <3> QED
        BY <1>1, <3>1, <3>2, BytesMember
    <2> QED
      BY <2>1, <2>2, <2>3
  <1>6. Bytes(q) \cap new = {}
    <2> SUFFICES ASSUME NEW x \in Bytes(q), x \in new PROVE FALSE
      OBVIOUS
    <2>1. PICK i \in 1 .. Len(q), b \in Nat : b \in 1 .. q[i].size /\ x = <<i, b>>
      BY BytesMember
    <2>2. x[1] = n /\ x[1] = i
      BY <2>1
    <2> QED
      BY <2>2
  <1> HIDE DEF new, r
  <1>7. Cardinality(Bytes(q) \cup new) = Cardinality(Bytes(q)) + p.size
    BY <1>3, <1>4, <1>6, DisjointSizes
  <1> QED
    BY <1>2, <1>3, <1>5, <1>7 DEF TotalSize, r

\* What is popped and what stays add up.
LEMMA TotalSizeSplit ==
    ASSUME NEW q \in Seq(Packet), NEW k \in 0 .. Len(q)
    PROVE  TotalSize(q) = TotalSize(SubSeq(q, 1, k)) + TotalSize(SubSeq(q, k + 1, Len(q)))
  <1> DEFINE a == SubSeq(q, 1, k)
             z == SubSeq(q, k + 1, Len(q))
             late == {x \in Bytes(q) : x[1] > k}
             f == [x \in Bytes(z) |-> <<x[1] + k, x[2]>>]
  <1>1. a \in Seq(Packet) /\ Len(a) = k /\ \A i \in 1 .. k : a[i] = q[i]
    OBVIOUS
  <1>2. z \in Seq(Packet) /\ Len(z) = Len(q) - k
        /\ \A i \in 1 .. Len(q) - k : z[i] = q[k + i]
    OBVIOUS
  <1> HIDE DEF a, z
  <1>3. /\ IsFiniteSet(Bytes(q)) /\ IsFiniteSet(Bytes(a)) /\ IsFiniteSet(Bytes(z))
        /\ Cardinality(Bytes(a)) \in Nat /\ Cardinality(Bytes(z)) \in Nat
    BY <1>1, <1>2, TotalSizeType DEF TotalSize
  <1>4. Bytes(q) = Bytes(a) \cup late
    <2>1. ASSUME NEW x \in Bytes(q), ~(x[1] > k)
          PROVE  x \in Bytes(a)
      <3>1. PICK i \in 1 .. Len(q), b \in Nat : b \in 1 .. q[i].size /\ x = <<i, b>>
        BY BytesMember
      <3>2. i \in 1 .. Len(a) /\ a[i] = q[i]
        BY <1>1, <2>1, <3>1
      <3> QED
        BY <1>1, <3>1, <3>2, BytesMember
    <2>2. ASSUME NEW x \in Bytes(a)
          PROVE  x \in Bytes(q)
      <3>1. PICK i \in 1 .. Len(a), b \in Nat : b \in 1 .. a[i].size /\ x = <<i, b>>
        BY <1>1, BytesMember
      <3>2. i \in 1 .. Len(q) /\ a[i] = q[i]
        BY <1>1, <3>1
      <3> QED
        BY <3>1, <3>2, BytesMember
    <2> QED
      BY <2>1, <2>2
  <1>5. Bytes(a) \cap late = {}
    <2> SUFFICES ASSUME NEW x \in Bytes(a), x[1] > k PROVE FALSE
      OBVIOUS
    <2>1. PICK i \in 1 .. Len(a), b \in Nat : b \in 1 .. a[i].size /\ x = <<i, b>>
      BY <1>1, BytesMember
    <2> QED
      BY <1>1, <2>1
  <1>6. \A x \in Bytes(z) : \E i \in 1 .. Len(q) - k : \E b \in 1 .. q[k + i].size : x = <<i, b>>
    <2> SUFFICES ASSUME NEW x \in Bytes(z)
                 PROVE  \E i \in 1 .. Len(q) - k : \E b \in 1 .. q[k + i].size : x = <<i, b>>
      OBVIOUS
    <2>1. PICK i \in 1 .. Len(z), b \in Nat : b \in 1 .. z[i].size /\ x = <<i, b>>
      BY <1>2, BytesMember
    <2> QED
      BY <1>2, <2>1
  <1>7. f \in Bijection(Bytes(z), late)
    <2>1. ASSUME NEW x \in Bytes(z)
          PROVE  f[x] \in late
      <3>1. PICK i \in 1 .. Len(q) - k : \E b \in 1 .. q[k + i].size : x = <<i, b>>
        BY <1>6
      <3>2. PICK b \in 1 .. q[k + i].size : x = <<i, b>>
        BY <3>1
      <3>3. f[x] = <<k + i, b>> /\ k + i \in 1 .. Len(q) /\ k + i > k
        BY <3>2
      <3>4. f[x] \in Bytes(q)
        BY <3>3, BytesMember
      <3> QED
        BY <3>3, <3>4
    <2>2. ASSUME NEW x \in Bytes(z), NEW y \in Bytes(z), f[x] = f[y]
          PROVE  x = y
      <3>1. PICK i \in 1 .. Len(q) - k : \E b \in 1 .. q[k + i].size : x = <<i, b>>
        BY <1>6
      <3>2. PICK b \in 1 .. q[k + i].size : x = <<i, b>>
        BY <3>1
      <3>3. PICK j \in 1 .. Len(q) - k : \E c \in 1 .. q[k + j].size : y = <<j, c>>
        BY <1>6
      <3>4. PICK c \in 1 .. q[k + j].size : y = <<j, c>>
        BY <3>3
      <3>5. f[x] = <<i + k, b>> /\ f[y] = <<j + k, c>>
        BY <3>2, <3>4
      <3>6. i + k = j + k /\ b = c
        BY <2>2, <3>5
      <3> QED
        BY <3>2, <3>4, <3>6
    <2>3. ASSUME NEW y \in late
          PROVE  \E x \in Bytes(z) : f[x] = y
      <3>1. PICK i \in 1 .. Len(q), b \in Nat : b \in 1 .. q[i].size /\ y = <<i, b>>
        BY BytesMember
      <3>2. PICK j : j = i - k
        OBVIOUS
      <3>3. j \in 1 .. Len(z) /\ z[j] = q[i] /\ j + k = i
        BY <1>2, <2>3, <3>1, <3>2
      <3>4. <<j, b>> \in Bytes(z)
        BY <1>2, <3>1, <3>3, BytesMember
      <3>5. f[<<j, b>>] = <<j + k, b>>
        BY <3>4
      <3> QED
        BY <3>1, <3>3, <3>4, <3>5
    <2>4. f \in [Bytes(z) -> late]
      BY <2>1
    <2> HIDE DEF f
    <2>5. f \in Injection(Bytes(z), late)
      BY <2>2, <2>4 DEF Injection, IsInjective
    <2>6. f \in Surjection(Bytes(z), late)
      BY <2>3, <2>4 DEF Surjection
    <2> QED
      BY <2>5, <2>6 DEF Bijection
  <1> HIDE DEF f
  <1>8. IsFiniteSet(late) /\ Cardinality(late) = Cardinality(Bytes(z))
    BY <1>3, <1>7, FS_Bijection DEF ExistsBijection
  <1> HIDE DEF late
  <1>9. Cardinality(Bytes(a) \cup late) = Cardinality(Bytes(a)) + Cardinality(late)
    BY <1>3, <1>5, <1>8, DisjointSizes
  <1> QED
    BY <1>3, <1>4, <1>8, <1>9 DEF TotalSize, a, z

-----------------------------------------------------------------------------
(* The data on the wire.                                                   *)

\* Every data message carries the number of data messages up to it.
Numbered(w) == \A i \in DataPlaces(w) : w[i].n = Cardinality({j \in DataPlaces(w) : j <= i})
DataCount(w) == Cardinality(DataPlaces(w))

\* The same data is on both wires.
SameData(v, w) == DataPlaces(w) = DataPlaces(v) /\ \A i \in DataPlaces(v) : w[i] = v[i]

\* SameData is what the properties compare.
LEMMA SameWireData ==
    ASSUME NEW s, NEW t
    PROVE  WireData(t) = WireData(s) <=> SameData(s.wire, t.wire)
  <1>1. DOMAIN WireData(s) = DataPlaces(s.wire) /\ DOMAIN WireData(t) = DataPlaces(t.wire)
    BY DEF WireData
  <1>2. SameData(s.wire, t.wire) => WireData(t) = WireData(s)
    BY DEF SameData, WireData
  <1>3. ASSUME WireData(t) = WireData(s)
        PROVE  SameData(s.wire, t.wire)
    <2>1. DataPlaces(t.wire) = DataPlaces(s.wire)
      BY <1>1, <1>3
    <2>2. \A i \in DataPlaces(s.wire) : WireData(s)[i] = s.wire[i] /\ WireData(t)[i] = t.wire[i]
      BY <2>1 DEF WireData
    <2> QED
      BY <1>3, <2>1, <2>2 DEF SameData
  <1> QED
    BY <1>2, <1>3

\* The same data has the same numbers.
LEMMA SameDataIsNumbered ==
    ASSUME NEW v, NEW w, SameData(v, w)
    PROVE  DataCount(w) = DataCount(v) /\ (Numbered(v) => Numbered(w))
  BY DEF SameData, DataCount, Numbered

\* There are finitely many.
LEMMA DataPlacesFinite ==
    ASSUME NEW w \in Seq(WireMessage)
    PROVE  IsFiniteSet(DataPlaces(w)) /\ DataCount(w) \in Nat
  <1>1. DOMAIN w = 1 .. Len(w) /\ Len(w) \in Nat
    OBVIOUS
  <1>2. IsFiniteSet(1 .. Len(w))
    BY <1>1, FS_Interval
  <1>3. DataPlaces(w) \in SUBSET (1 .. Len(w))
    BY <1>1 DEF DataPlaces
  <1> QED
    BY <1>2, <1>3, FS_Subset, FS_CardinalityType DEF DataCount

\* A control message is not data.
LEMMA ControlIsNoData ==
    ASSUME NEW w \in Seq(WireMessage), NEW m \in WireMessage, m.type = "CONTROL"
    PROVE  SameData(w, Append(w, m))
  <1> DEFINE v == Append(w, m)
             n == Len(w) + 1
  <1>1. DOMAIN w = 1 .. Len(w) /\ DOMAIN v = 1 .. n /\ Len(w) \in Nat
        /\ v[n] = m /\ \A i \in 1 .. Len(w) : v[i] = w[i]
    OBVIOUS
  <1> HIDE DEF v
  <1>2. ASSUME NEW i \in DataPlaces(v)
        PROVE  i \in DataPlaces(w)
    <2>1. i \in 1 .. n /\ i # n
      BY <1>1, <1>2 DEF DataPlaces
    <2>2. i \in 1 .. Len(w)
      BY <1>1, <2>1
    <2> QED
      BY <1>1, <1>2, <2>2 DEF DataPlaces
  <1>3. ASSUME NEW i \in DataPlaces(w)
        PROVE  i \in DataPlaces(v) /\ v[i] = w[i]
    <2>1. i \in 1 .. Len(w) /\ i \in 1 .. n
      BY <1>1, <1>3 DEF DataPlaces
    <2> QED
      BY <1>1, <1>3, <2>1 DEF DataPlaces
  <1>4. SameData(w, v)
    BY <1>2, <1>3 DEF SameData
  <1> QED
    BY <1>4 DEF v

\* Data that continues the count may follow.
LEMMA DataFollows ==
    ASSUME NEW w \in Seq(WireMessage), Numbered(w), NEW d \in Seq(WireMessage),
           \A i \in 1 .. Len(d) : d[i].type = "DATA" /\ d[i].n = DataCount(w) + i
    PROVE  Numbered(w \o d) /\ DataCount(w \o d) = DataCount(w) + Len(d)
  <1> DEFINE v == w \o d
             n == Len(w)
             m == Len(d)
             c == DataCount(w)
  <1>1. /\ v \in Seq(WireMessage) /\ n \in Nat /\ m \in Nat
        /\ DOMAIN w = 1 .. n /\ DOMAIN v = 1 .. n + m
        /\ \A i \in 1 .. n : v[i] = w[i]
        /\ \A i \in 1 .. m : v[n + i] = d[i]
    OBVIOUS
  <1>2. c \in Nat /\ IsFiniteSet(DataPlaces(w))
    BY DataPlacesFinite
  <1> HIDE DEF v, n, m
  <1>3. \A i \in 1 .. m : d[i].type = "DATA" /\ d[i].n = c + i
    BY DEF m
  <1> HIDE DEF c
  <1>4. ASSUME NEW i \in n + 1 .. n + m
        PROVE  v[i].type = "DATA" /\ v[i].n = c + (i - n)
    <2>1. i - n \in 1 .. m /\ n + (i - n) = i
      BY <1>1
    <2> QED
      BY <1>1, <1>3, <2>1
  <1>5. DataPlaces(v) = DataPlaces(w) \cup (n + 1 .. n + m)
    <2>1. ASSUME NEW i \in DataPlaces(v), i \notin n + 1 .. n + m
          PROVE  i \in DataPlaces(w)
      <3>1. i \in 1 .. n
        BY <1>1, <2>1 DEF DataPlaces
      <3> QED
        BY <1>1, <2>1, <3>1 DEF DataPlaces
    <2>2. ASSUME NEW i \in DataPlaces(w)
          PROVE  i \in DataPlaces(v)
      <3>1. i \in 1 .. n /\ i \in 1 .. n + m
        BY <1>1, <2>2 DEF DataPlaces
      <3> QED
        BY <1>1, <2>2, <3>1 DEF DataPlaces
    <2>3. ASSUME NEW i \in n + 1 .. n + m
          PROVE  i \in DataPlaces(v)
      <3>1. i \in 1 .. n + m
        BY <1>1
      <3> QED
        BY <1>1, <1>4, <3>1 DEF DataPlaces
    <2> QED
      BY <2>1, <2>2, <2>3
  <1>6. \A i \in DataPlaces(w) : i \in Nat /\ i <= n
    BY <1>1 DEF DataPlaces
  <1>7. ASSUME NEW k \in 0 .. m
        PROVE  Cardinality(DataPlaces(w) \cup (n + 1 .. n + k)) = c + k
    <2>1. IsFiniteSet(n + 1 .. n + k) /\ Cardinality(n + 1 .. n + k) = k
      <3>1. n + 1 \in Int /\ n + k \in Int
        BY <1>1
      <3>2. IsFiniteSet(n + 1 .. n + k)
            /\ Cardinality(n + 1 .. n + k) = IF n + 1 > n + k THEN 0 ELSE (n + k) - (n + 1) + 1
        BY <3>1, FS_Interval
      <3> QED
        BY <1>1, <3>2
    <2>2. DataPlaces(w) \cap (n + 1 .. n + k) = {}
      BY <1>1, <1>6
    <2>3. Cardinality(DataPlaces(w) \cup (n + 1 .. n + k))
            = Cardinality(DataPlaces(w)) + Cardinality(n + 1 .. n + k)
      BY <1>2, <2>1, <2>2, DisjointSizes
    <2> QED
      BY <1>2, <2>1, <2>3 DEF c, DataCount
  <1>8. DataCount(v) = c + m
    BY <1>1, <1>5, <1>7 DEF DataCount
  <1>9. ASSUME NEW i \in DataPlaces(v)
        PROVE  v[i].n = Cardinality({j \in DataPlaces(v) : j <= i})
    <2>1. CASE i \in DataPlaces(w)
      <3>1. {j \in DataPlaces(v) : j <= i} = {j \in DataPlaces(w) : j <= i}
        BY <1>1, <1>5, <1>6, <2>1
      <3>2. v[i] = w[i]
        BY <1>1, <2>1 DEF DataPlaces
      <3> QED
        BY <2>1, <3>1, <3>2 DEF Numbered
    <2>2. CASE i \in n + 1 .. n + m
      <3>1. PICK k \in 0 .. m : k = i - n
        BY <1>1, <2>2
      <3>2. {j \in DataPlaces(v) : j <= i} = DataPlaces(w) \cup (n + 1 .. n + k)
        <4>1. i = n + k /\ i \in Nat
          BY <1>1, <2>2, <3>1
        <4>2. \A j \in DataPlaces(w) : j <= i
          BY <1>1, <1>6, <4>1
        <4>3. \A j \in n + 1 .. n + m : j <= i <=> j \in n + 1 .. n + k
          BY <1>1, <4>1
        <4>4. \A j \in n + 1 .. n + k : j \in n + 1 .. n + m
          BY <1>1
        <4> QED
          BY <1>5, <4>2, <4>3, <4>4
      <3> QED
        BY <1>4, <1>7, <2>2, <3>1, <3>2
    <2> QED
      BY <1>5, <1>9, <2>1, <2>2
  <1> QED
    BY <1>8, <1>9 DEF Numbered, v, c, m

-----------------------------------------------------------------------------
(* The life of a channel.                                                  *)

USE DEF SCTP, RTP
USE ConstantsOK

Ok(s) == s \in DataChannelRecord /\ ByType(s) /\ Reachable(s)

\* How state, connection and having been closed go together.  A channel that was
\* closed is not kClosed only where opening it failed to send the OPEN message.
Wiring(s) ==
    /\ s.state = "kClosed" => s.was_closed
    /\ s.state = "kConnecting" => ~s.was_closed
    /\ s.state = "kClosing" => RTP /\ ~s.connected
    /\ RTP /\ s.connected /\ s.state = "kConnecting" => s.send_ssrc_set /\ s.receive_ssrc_set
    /\ SCTP /\ s.state = "kOpen" /\ ~s.connected => s.was_closed
    /\ s.was_closed /\ s.state # "kClosed" =>
         /\ SCTP /\ s.state = "kOpen" /\ ~s.connected
         /\ s.transport \/ ~s.listed

\* An SCTP channel opens with its first ready signal.
Idle(s) == SCTP /\ s.state = "kConnecting" => ~s.was_ever_writable

\* Nothing waits in front of what OnDataReceived would deliver at once.
NoBacklog(s) ==
    s.connected /\ ~s.was_closed /\ s.was_ever_writable /\ s.observer =>
      s.queued_received.packets = <<>>

Alive(s) == Wiring(s) /\ Idle(s) /\ NoBacklog(s)

\* What was received, delivered or not.
In(s) == s.delivered \o s.queued_received.packets

\* What every call keeps to.
Onward(s, t) ==
    /\ s.was_closed => t.was_closed
    /\ Revived(s) => Revived(t)
    /\ s.state = "kClosed" => t.state = "kClosed"
    /\ t.state = "kConnecting" => s.state = "kConnecting" /\ (s.connected => t.connected)
    /\ s.id >= 0 => t.id >= 0
    /\ t.listed => s.listed
    /\ t.state = "kOpen" /\ t.was_closed =>
         \/ s.state = "kOpen" /\ s.was_closed /\ (~s.listed /\ t.stream = "open" => s.stream = "open")
         \/ s.state = "kConnecting" /\ (s.id >= 0 => ~t.listed /\ t.stream # "open")

\* What every call keeps to that neither sends data nor receives it.
Keeps(s, t) ==
    /\ In(t) = In(s) /\ t.queued_received \in {s.queued_received, EmptyQueue}
    /\ SameData(s.wire, t.wire) /\ t.queued_send = s.queued_send
    /\ Onward(s, t)

\* A record that satisfies the invariant of DataChannelProofs.
LEMMA GoodIsOk ==
    ASSUME NEW s, NEW h \in BOOLEAN, Good(s, h)
    PROVE  Ok(s) /\ QuietBeforeReady(s)
  BY DEF Good, Almost, Ok

\* Two calls in a row.
LEMMA OnwardTrans ==
    ASSUME NEW s, NEW t, NEW u, Onward(s, t), Onward(t, u)
    PROVE  Onward(s, u)
  <1>1. /\ s.was_closed => u.was_closed
        /\ Revived(s) => Revived(u)
        /\ s.state = "kClosed" => u.state = "kClosed"
        /\ u.state = "kConnecting" => s.state = "kConnecting" /\ (s.connected => u.connected)
        /\ s.id >= 0 => u.id >= 0
        /\ u.listed => s.listed
    BY DEF Onward
  <1>2. u.state = "kOpen" /\ u.was_closed =>
          \/ s.state = "kOpen" /\ s.was_closed /\ (~s.listed /\ u.stream = "open" => s.stream = "open")
          \/ s.state = "kConnecting" /\ (s.id >= 0 => ~u.listed /\ u.stream # "open")
    BY DEF Onward
  <1> QED
    BY <1>1, <1>2 DEF Onward

\* Two calls in a row that neither send nor receive.
LEMMA KeepsTrans ==
    ASSUME NEW s, NEW t, NEW u, Keeps(s, t), Keeps(t, u)
    PROVE  Keeps(s, u)
  <1>1. In(u) = In(s) /\ u.queued_received \in {s.queued_received, EmptyQueue}
    BY DEF Keeps
  <1>2. SameData(s.wire, u.wire) /\ u.queued_send = s.queued_send
    BY DEF Keeps, SameData
  <1>3. Onward(s, u)
    BY OnwardTrans DEF Keeps
  <1> QED
    BY <1>1, <1>2, <1>3 DEF Keeps

\* A call that leaves the life of the channel and its data alone.
Steady(s, t) ==
    /\ t.state = s.state /\ t.connected = s.connected /\ t.listed = s.listed
    /\ t.transport = s.transport /\ t.was_closed = s.was_closed /\ t.stream = s.stream
    /\ t.id = s.id /\ t.observer = s.observer /\ t.was_ever_writable = s.was_ever_writable
    /\ t.send_ssrc_set = s.send_ssrc_set /\ t.receive_ssrc_set = s.receive_ssrc_set
    /\ t.delivered = s.delivered /\ t.queued_received = s.queued_received
    /\ SameData(s.wire, t.wire) /\ t.queued_send = s.queued_send

\* It keeps whatever is said here of a channel.
LEMMA SteadyKeeps ==
    ASSUME NEW s, NEW t, Steady(s, t)
    PROVE  /\ Keeps(s, t)
           /\ Wiring(s) => Wiring(t)
           /\ Idle(s) => Idle(t)
           /\ NoBacklog(s) => NoBacklog(t)
           /\ Reachable(s) => Reachable(t)
  <1>1. Keeps(s, t)
    <2>1. Revived(s) => Revived(t)
      BY DEF Steady, Revived
    <2>2. In(t) = In(s)
      BY DEF Steady, In
    <2> QED
      BY <2>1, <2>2 DEF Steady, Keeps, Onward
  <1>2. Wiring(s) => Wiring(t)
    BY DEF Steady, Wiring
  <1>3. (Idle(s) => Idle(t)) /\ (NoBacklog(s) => NoBacklog(t)) /\ (Reachable(s) => Reachable(t))
    BY DEF Steady, Idle, NoBacklog, Reachable
  <1> QED
    BY <1>1, <1>2, <1>3

\* What a close leaves as it is.
Carries(s, t) ==
    /\ t.id = s.id /\ t.observer = s.observer /\ t.was_ever_writable = s.was_ever_writable
    /\ t.transport = s.transport /\ t.wire = s.wire /\ t.delivered = s.delivered
    /\ t.queued_received = s.queued_received /\ t.queued_send = s.queued_send

\* The end of a close that does something.
Shut(s, t) ==
    /\ Carries(s, t) /\ Off(t)
    /\ t.was_closed = (s.was_closed \/ t.state = "kClosed")
    /\ t.listed => s.listed
    /\ t.stream = "open" => s.stream = "open"
    /\ SCTP /\ s.connected /\ s.id >= 0 => ~t.listed /\ t.stream # "open"
    /\ SCTP => t.state = "kClosed"

\* DisconnectFromTransport takes an SCTP channel with a sid off the list and its
\* stream out of use.
LEMMA DisconnectWiring ==
    ASSUME NEW s \in DataChannelRecord
    PROVE  LET t == DisconnectFromTransport(s)
           IN /\ t.was_closed = s.was_closed
              /\ t.listed => s.listed
              /\ t.stream = "open" => s.stream = "open"
              /\ SCTP /\ s.connected /\ s.id >= 0 => ~t.listed /\ t.stream # "open"
  <1> DEFINE d == [s EXCEPT !.connected = FALSE]
             v == IF d.stream = "open" THEN "closing" ELSE d.stream
             f == [d EXCEPT !.listed = FALSE, !.stream = v]
  <1>1. d \in DataChannelRecord /\ d.was_closed = s.was_closed /\ d.listed = s.listed
        /\ d.stream = s.stream
    BY DEF DataChannelRecord
  <1>2. v # "open"
    OBVIOUS
  <1>3. RemoveSctpDataStream(d) = f
    BY DEF RemoveSctpDataStream
  <1>4. f.was_closed = d.was_closed /\ ~f.listed /\ f.stream = v
    <2> HIDE DEF d, v
    <2> QED
      BY <1>1 DEF DataChannelRecord
  <1>5. /\ DisconnectFromTransport(s) \in {s, d, f}
        /\ SCTP /\ s.connected /\ s.id >= 0 => DisconnectFromTransport(s) = f
    <2> HIDE DEF f, v
    <2> QED
      BY <1>3 DEF DisconnectFromTransport
  <1> HIDE DEF d, f, v
  <1> QED
    BY <1>1, <1>2, <1>4, <1>5

\* SetState records a close.
LEMMA SetStateWiring ==
    ASSUME NEW s \in DataChannelRecord, NEW st \in DataState
    PROVE  LET t == SetState(s, st)
           IN t.was_closed = (s.was_closed \/ st = "kClosed") /\ t.stream = s.stream
  <1> DEFINE b == s.was_closed \/ st = "kClosed"
  <1>1. SetState(s, st) = [s EXCEPT !.state = st, !.was_closed = b]
    BY DEF SetState
  <1> HIDE DEF b
  <1>2. [s EXCEPT !.state = st, !.was_closed = b].was_closed = b
        /\ [s EXCEPT !.state = st, !.was_closed = b].stream = s.stream
    BY DEF DataChannelRecord
  <1> QED
    BY <1>1, <1>2 DEF b

\* The kClosing case of UpdateState shuts the channel.
LEMMA ClosingUpdateShuts ==
    ASSUME NEW s \in DataChannelRecord, s.state = "kClosing",
           SCTP => ~s.send_ssrc_set /\ ~s.receive_ssrc_set
    PROVE  Shut(s, ClosingUpdate(s))
  <1> DEFINE d == DisconnectFromTransport(s)
             c == SetState(d, "kClosed")
  <1>1. /\ d \in DataChannelRecord
        /\ d.state = s.state /\ d.id = s.id
        /\ d.send_ssrc_set = s.send_ssrc_set /\ d.receive_ssrc_set = s.receive_ssrc_set
        /\ d.was_closed = s.was_closed
        /\ d.listed => s.listed
        /\ d.stream = "open" => s.stream = "open"
        /\ SCTP /\ s.connected /\ s.id >= 0 => ~d.listed /\ d.stream # "open"
    BY DisconnectContract, DisconnectWiring DEF Untouched
  <1> HIDE DEF d
  <1>2. /\ c.state = "kClosed" /\ c.listed = d.listed
        /\ c.was_closed /\ c.stream = d.stream
    BY <1>1, SetStateContract, SetStateWiring DEF DataState
  <1>3. ClosingUpdate(s) = IF ~d.send_ssrc_set /\ ~d.receive_ssrc_set THEN c ELSE d
    BY DEF ClosingUpdate, d
  <1> HIDE DEF c
  <1>4. Carries(s, ClosingUpdate(s)) /\ Off(ClosingUpdate(s))
    BY ClosingUpdateContract DEF Untouched, Carries
  <1>5. CASE ~d.send_ssrc_set /\ ~d.receive_ssrc_set
    <2>1. ClosingUpdate(s) = c
      BY <1>3, <1>5
    <2> QED
      BY <1>1, <1>2, <1>4, <2>1 DEF Shut
  <1>6. CASE ~(~d.send_ssrc_set /\ ~d.receive_ssrc_set)
    <2>1. ClosingUpdate(s) = d /\ ~SCTP
      BY <1>1, <1>3, <1>6
    <2>2. d.was_closed = (s.was_closed \/ d.state = "kClosed")
      <3>1. s.was_closed \in BOOLEAN
        BY DEF DataChannelRecord
      <3> QED
        BY <1>1, <3>1
    <2> QED
      BY <1>1, <1>4, <2>1, <2>2 DEF Shut
  <1> QED
    BY <1>5, <1>6

\* Close and DoClose first set kClosing on a channel that differs from s in its SSRCs.
LEMMA ShutThrough ==
    ASSUME NEW s \in DataChannelRecord, NEW e \in DataChannelRecord, Untouched(s, e),
           e.connected = s.connected, e.listed = s.listed, e.stream = s.stream,
           e.was_closed = s.was_closed,
           SCTP => ~e.send_ssrc_set /\ ~e.receive_ssrc_set
    PROVE  Shut(s, ClosingUpdate(SetState(e, "kClosing")))
  <1> DEFINE g == SetState(e, "kClosing")
             t == ClosingUpdate(g)
  <1>1. /\ g \in DataChannelRecord /\ Untouched(e, g) /\ g.state = "kClosing"
        /\ g.connected = e.connected /\ g.listed = e.listed
        /\ g.send_ssrc_set = e.send_ssrc_set /\ g.receive_ssrc_set = e.receive_ssrc_set
    BY SetStateContract DEF DataState
  <1>2. g.was_closed = s.was_closed /\ g.stream = s.stream
    <2>1. e.was_closed \in BOOLEAN
      BY DEF DataChannelRecord
    <2>2. g.was_closed = (e.was_closed \/ "kClosing" = "kClosed") /\ g.stream = e.stream
      BY SetStateWiring DEF DataState
    <2> QED
      BY <2>1, <2>2
  <1> HIDE DEF g
  <1>3. Shut(g, t)
    BY <1>1, ClosingUpdateShuts
  <1> HIDE DEF t
  <1>4. Carries(s, t)
    BY <1>1, <1>3 DEF Shut, Untouched, Carries
  <1>5. g.id = s.id
    BY <1>1 DEF Untouched
  <1>6. Shut(s, t)
    BY <1>1, <1>2, <1>3, <1>4, <1>5 DEF Shut
  <1> QED
    BY <1>6 DEF t, g

\* Close shuts a channel that is not closed.
LEMMA CloseShuts ==
    ASSUME NEW s \in DataChannelRecord, ByType(s), s.state # "kClosed"
    PROVE  Shut(s, Close(s))
  <1> DEFINE e == [s EXCEPT !.send_ssrc = 0, !.send_ssrc_set = FALSE]
  <1>1. /\ e \in DataChannelRecord /\ Untouched(s, e) /\ ~e.send_ssrc_set
        /\ e.receive_ssrc_set = s.receive_ssrc_set
        /\ e.connected = s.connected /\ e.listed = s.listed /\ e.stream = s.stream
        /\ e.was_closed = s.was_closed
    BY DEF DataChannelRecord, Untouched
  <1>2. Close(s) = ClosingUpdate(SetState(e, "kClosing"))
    BY DEF Close
  <1> HIDE DEF e
  <1> QED
    BY <1>1, <1>2, ShutThrough DEF ByType

\* DoClose shuts a channel that is not closed.
LEMMA DoCloseShuts ==
    ASSUME NEW s \in DataChannelRecord, s.state # "kClosed"
    PROVE  Shut(s, DoClose(s))
  <1> DEFINE e == [s EXCEPT !.receive_ssrc_set = FALSE, !.send_ssrc_set = FALSE]
  <1>1. /\ e \in DataChannelRecord /\ Untouched(s, e) /\ ~e.send_ssrc_set
        /\ ~e.receive_ssrc_set
        /\ e.connected = s.connected /\ e.listed = s.listed /\ e.stream = s.stream
        /\ e.was_closed = s.was_closed
    BY DEF DataChannelRecord, Untouched
  <1>2. DoClose(s) = ClosingUpdate(SetState(e, "kClosing"))
    BY DEF DoClose
  <1> HIDE DEF e
  <1> QED
    BY <1>1, <1>2, ShutThrough

\* The same data is on the wire when the wire is the same.
LEMMA SameWire ==
    ASSUME NEW v
    PROVE  SameData(v, v)
  BY DEF SameData

\* A channel that is shut keeps its data and cannot receive any more.
LEMMA ShutKeeps ==
    ASSUME NEW s, NEW t, s.state # "kClosed", Wiring(s), Shut(s, t)
    PROVE  Keeps(s, t) /\ Alive(t) /\ Reachable(t)
  <1>1. /\ t.wire = s.wire /\ t.queued_send = s.queued_send /\ t.id = s.id
        /\ t.delivered = s.delivered /\ t.queued_received = s.queued_received
        /\ ~t.connected /\ t.state \in {"kClosing", "kClosed"}
    BY DEF Shut, Carries, Off
  <1>2. SameData(s.wire, t.wire) /\ In(t) = In(s)
    BY <1>1, SameWire DEF In
  <1>3. ~Revived(s)
    BY DEF Wiring, Revived
  <1>4. Keeps(s, t)
    BY <1>1, <1>2, <1>3 DEF Keeps, Onward, Shut
  <1>5. Wiring(t)
    BY <1>1 DEF Shut, Wiring
  <1> QED
    BY <1>1, <1>4, <1>5 DEF Alive, Idle, NoBacklog, Reachable

\* Close keeps the order of messages.
LEMMA CloseKeeps ==
    ASSUME NEW s, Ok(s), Alive(s)
    PROVE  Keeps(s, Close(s)) /\ Alive(Close(s))
  <1>1. CASE s.state = "kClosed"
    <2>1. Close(s) = s
      BY <1>1 DEF Close
    <2>2. Steady(s, s)
      BY SameWire DEF Steady
    <2> QED
      BY <2>1, <2>2, SteadyKeeps
  <1>2. CASE s.state # "kClosed"
    BY <1>2, CloseShuts, ShutKeeps DEF Ok, Alive
  <1> QED
    BY <1>1, <1>2

\* DoClose keeps the order of messages.
LEMMA DoCloseKeeps ==
    ASSUME NEW s, Ok(s), Alive(s)
    PROVE  Keeps(s, DoClose(s)) /\ Alive(DoClose(s))
  <1>1. CASE s.state = "kClosed"
    <2>1. DoClose(s) = s
      BY <1>1 DEF DoClose
    <2>2. Steady(s, s)
      BY SameWire DEF Steady
    <2> QED
      BY <2>1, <2>2, SteadyKeeps
  <1>2. CASE s.state # "kClosed"
    BY <1>2, DoCloseShuts, ShutKeeps DEF Ok, Alive
  <1> QED
    BY <1>1, <1>2

-----------------------------------------------------------------------------
(* Opening.                                                                *)

\* An ASSERT changes nothing the order depends on.
LEMMA AssertedSteady ==
    ASSUME NEW s \in DataChannelRecord, NEW f \in AssertNames, NEW c \in BOOLEAN
    PROVE  LET t == Asserted(s, f, c)
           IN /\ t \in DataChannelRecord /\ Steady(s, t) /\ t.wire = s.wire
              /\ t.role = s.role /\ t.queued_control = s.queued_control
  <1>1. CASE c
    BY <1>1, SameWire DEF Asserted, Steady
  <1>2. CASE ~c
    <2> DEFINE v == s.asserts \cup {f}
               t == [s EXCEPT !.asserts = v]
    <2>1. v \in SUBSET AssertNames
      BY DEF DataChannelRecord, AssertNames
    <2>2. Asserted(s, f, c) = t
      BY <1>2 DEF Asserted
    <2> HIDE DEF v
    <2>3. /\ t.state = s.state /\ t.connected = s.connected /\ t.listed = s.listed
          /\ t.transport = s.transport /\ t.was_closed = s.was_closed /\ t.stream = s.stream
          /\ t.id = s.id /\ t.observer = s.observer
          /\ t.was_ever_writable = s.was_ever_writable
          /\ t.send_ssrc_set = s.send_ssrc_set /\ t.receive_ssrc_set = s.receive_ssrc_set
          /\ t.delivered = s.delivered /\ t.queued_received = s.queued_received
          /\ t.wire = s.wire /\ t.queued_send = s.queued_send
          /\ t.role = s.role /\ t.queued_control = s.queued_control
      BY DEF DataChannelRecord
    <2>4. t \in DataChannelRecord
      BY <2>1 DEF DataChannelRecord, AssertNames
    <2> HIDE DEF t
    <2>5. Steady(s, t)
      BY <2>3, SameWire DEF Steady
    <2> QED
      BY <2>2, <2>3, <2>4, <2>5
  <1> QED
    BY <1>1, <1>2

\* Sending the control message leaves a channel.
LEMMA SendControlType ==
    ASSUME NEW s \in DataChannelRecord, NEW r \in SendDataResult
    PROVE  SendControlMessage(s, r) \in DataChannelRecord
  <1> DEFINE c == SCTP /\ s.was_ever_writable /\ s.id >= 0
             a == Asserted(s, "SendControlMessage", c)
             m == [type |-> "CONTROL", n |-> 0, ordered |-> s.ordered \/ IsOpener(s)]
             w == a.waiting_for_open_ack \/ IsOpener(s)
             q == a.queued_control + 1
  <1>1. a \in DataChannelRecord
    <2>1. c \in BOOLEAN /\ "SendControlMessage" \in AssertNames
      BY DEF AssertNames
    <2> HIDE DEF c
    <2> QED
      BY <2>1, AssertedSteady
  <1>2. m \in WireMessage /\ w \in BOOLEAN
    BY DEF WireMessage, DataChannelRecord
  <1>3. SendControlMessage(s, r) \in
          {[a EXCEPT !.wire = Append(a.wire, m), !.waiting_for_open_ack = w],
           [a EXCEPT !.queued_control = q], Close(a)}
    BY DEF SendControlMessage
  <1> HIDE DEF a, m, w
  <1>4. q \in Nat /\ Append(a.wire, m) \in Seq(WireMessage)
    BY <1>1, <1>2 DEF DataChannelRecord
  <1> HIDE DEF q
  <1>5. [a EXCEPT !.wire = Append(a.wire, m), !.waiting_for_open_ack = w] \in DataChannelRecord
    BY <1>1, <1>2, <1>4 DEF DataChannelRecord
  <1>6. [a EXCEPT !.queued_control = q] \in DataChannelRecord
    BY <1>1, <1>4 DEF DataChannelRecord
  <1>7. Close(a) \in DataChannelRecord
    BY <1>1, CloseContract
  <1> QED
    BY <1>3, <1>5, <1>6, <1>7

\* The control message is sent or queued, or the channel is shut.
LEMMA SendControlWiring ==
    ASSUME NEW s \in DataChannelRecord, SCTP, ByType(s), NEW r \in SendDataResult
    PROVE  LET t == SendControlMessage(s, r)
           IN \/ Steady(s, t)
              \/ s.state # "kClosed" /\ Shut(s, t)
  <1> DEFINE c == SCTP /\ s.was_ever_writable /\ s.id >= 0
             a == Asserted(s, "SendControlMessage", c)
             m == [type |-> "CONTROL", n |-> 0, ordered |-> s.ordered \/ IsOpener(s)]
             w == a.waiting_for_open_ack \/ IsOpener(s)
             q == a.queued_control + 1
  <1>1. a \in DataChannelRecord /\ Steady(s, a) /\ a.wire = s.wire
    <2>1. c \in BOOLEAN /\ "SendControlMessage" \in AssertNames
      BY DEF AssertNames
    <2> HIDE DEF c
    <2> QED
      BY <2>1, AssertedSteady
  <1>2. m \in WireMessage /\ m.type = "CONTROL"
    BY DEF WireMessage, DataChannelRecord
  <1>3. SendControlMessage(s, r) \in
          {[a EXCEPT !.wire = Append(a.wire, m), !.waiting_for_open_ack = w],
           [a EXCEPT !.queued_control = q], Close(a)}
    BY DEF SendControlMessage
  <1> HIDE DEF a, m, w, q
  <1>4. Steady(a, [a EXCEPT !.wire = Append(a.wire, m), !.waiting_for_open_ack = w])
    <2> DEFINE t == [a EXCEPT !.wire = Append(a.wire, m), !.waiting_for_open_ack = w]
    <2>1. /\ t.state = a.state /\ t.connected = a.connected /\ t.listed = a.listed
          /\ t.transport = a.transport /\ t.was_closed = a.was_closed /\ t.stream = a.stream
          /\ t.id = a.id /\ t.observer = a.observer
          /\ t.was_ever_writable = a.was_ever_writable
          /\ t.send_ssrc_set = a.send_ssrc_set /\ t.receive_ssrc_set = a.receive_ssrc_set
          /\ t.delivered = a.delivered /\ t.queued_received = a.queued_received
          /\ t.wire = Append(a.wire, m) /\ t.queued_send = a.queued_send
      BY <1>1 DEF DataChannelRecord
    <2>2. a.wire \in Seq(WireMessage)
      BY <1>1 DEF DataChannelRecord
    <2>3. SameData(a.wire, Append(a.wire, m))
      BY <1>2, <2>2, ControlIsNoData
    <2> HIDE DEF t
    <2>4. Steady(a, t)
      BY <2>1, <2>3 DEF Steady
    <2> QED
      BY <2>4 DEF t
  <1>5. Steady(a, [a EXCEPT !.queued_control = q])
    <2> DEFINE t == [a EXCEPT !.queued_control = q]
    <2>1. /\ t.state = a.state /\ t.connected = a.connected /\ t.listed = a.listed
          /\ t.transport = a.transport /\ t.was_closed = a.was_closed /\ t.stream = a.stream
          /\ t.id = a.id /\ t.observer = a.observer
          /\ t.was_ever_writable = a.was_ever_writable
          /\ t.send_ssrc_set = a.send_ssrc_set /\ t.receive_ssrc_set = a.receive_ssrc_set
          /\ t.delivered = a.delivered /\ t.queued_received = a.queued_received
          /\ t.wire = a.wire /\ t.queued_send = a.queued_send
      BY <1>1 DEF DataChannelRecord
    <2> HIDE DEF t
    <2>2. Steady(a, t)
      BY <2>1, SameWire DEF Steady
    <2> QED
      BY <2>2 DEF t
  <1>6. \A t : Steady(a, t) => Steady(s, t)
    BY <1>1 DEF Steady, SameData
  <1>7. CASE a.state = "kClosed"
    <2>1. Close(a) = a
      BY <1>7 DEF Close
    <2> QED
      BY <1>1, <1>3, <1>4, <1>5, <1>6, <2>1
  <1>8. CASE a.state # "kClosed"
    <2>1. ByType(a)
      BY <1>1 DEF ByType, Steady
    <2>2. Shut(a, Close(a))
      BY <1>1, <1>8, <2>1, CloseShuts
    <2>3. Carries(s, Close(a))
      BY <1>1, <2>2 DEF Shut, Carries, Steady
    <2>4. Shut(s, Close(a))
      BY <1>1, <2>2, <2>3 DEF Shut, Steady
    <2> QED
      BY <1>1, <1>3, <1>4, <1>5, <1>6, <1>8, <2>4 DEF Steady
  <1> QED
    BY <1>7, <1>8

\* Retrying the queued control message does the same.
LEMMA SendQueuedControlWiring ==
    ASSUME NEW s \in DataChannelRecord, ByType(s), NEW r \in SendDataResult
    PROVE  LET t == SendQueuedControlMessages(s, r)
           IN \/ Steady(s, t)
              \/ SCTP /\ s.state # "kClosed" /\ Shut(s, t)
  <1>1. CASE s.queued_control = 0
    <2>1. SendQueuedControlMessages(s, r) = s
      BY <1>1 DEF SendQueuedControlMessages
    <2>2. Steady(s, s)
      BY SameWire DEF Steady
    <2> QED
      BY <2>1, <2>2
  <1>2. CASE s.queued_control # 0
    <2> DEFINE z == [s EXCEPT !.queued_control = 0]
    <2>1. z \in DataChannelRecord
      BY DEF DataChannelRecord
    <2>2. /\ z.state = s.state /\ z.connected = s.connected /\ z.listed = s.listed
          /\ z.transport = s.transport /\ z.was_closed = s.was_closed /\ z.stream = s.stream
          /\ z.id = s.id /\ z.observer = s.observer
          /\ z.was_ever_writable = s.was_ever_writable
          /\ z.send_ssrc_set = s.send_ssrc_set /\ z.receive_ssrc_set = s.receive_ssrc_set
          /\ z.delivered = s.delivered /\ z.queued_received = s.queued_received
          /\ z.wire = s.wire /\ z.queued_send = s.queued_send
      BY DEF DataChannelRecord
    <2>3. SendQueuedControlMessages(s, r) = SendControlMessage(z, r)
      BY <1>2 DEF SendQueuedControlMessages
    <2>4. SCTP
      BY <1>2 DEF ByType
    <2> HIDE DEF z
    <2>5. ByType(z)
      BY <2>2, <2>4 DEF ByType
    <2> DEFINE t == SendControlMessage(z, r)
    <2>6. Steady(z, t) \/ (z.state # "kClosed" /\ Shut(z, t))
      BY <2>1, <2>4, <2>5, SendControlWiring
    <2> HIDE DEF t
    <2>7. Steady(z, t) => Steady(s, t)
      BY <2>2 DEF Steady
    <2>8. Shut(z, t) => Shut(s, t)
      BY <2>2 DEF Shut, Carries
    <2> QED
      BY <2>2, <2>3, <2>4, <2>6, <2>7, <2>8 DEF t
  <1> QED
    BY <1>1, <1>2

\* Retrying it leaves a channel.
LEMMA QueuedControlType ==
    ASSUME NEW s \in DataChannelRecord, ByType(s), NEW r \in SendDataResult
    PROVE  SendQueuedControlMessages(s, r) \in DataChannelRecord
  <1>1. CASE s.queued_control = 0
    BY <1>1 DEF SendQueuedControlMessages
  <1>2. CASE s.queued_control # 0
    <2> DEFINE z == [s EXCEPT !.queued_control = 0]
    <2>1. z \in DataChannelRecord
      BY DEF DataChannelRecord
    <2>2. SendQueuedControlMessages(s, r) = SendControlMessage(z, r)
      BY <1>2 DEF SendQueuedControlMessages
    <2> HIDE DEF z
    <2> QED
      BY <2>1, <2>2, SendControlType
  <1> QED
    BY <1>1, <1>2

\* The fields DeliverQueuedReceivedData keeps, and what it does to the others.
LEMMA DeliverWiring ==
    ASSUME NEW s \in DataChannelRecord
    PROVE  LET t == DeliverQueuedReceivedData(s)
           IN /\ t.state = s.state /\ t.connected = s.connected /\ t.listed = s.listed
              /\ t.transport = s.transport /\ t.was_closed = s.was_closed
              /\ t.stream = s.stream /\ t.id = s.id /\ t.observer = s.observer
              /\ t.was_ever_writable = s.was_ever_writable
              /\ t.send_ssrc_set = s.send_ssrc_set /\ t.receive_ssrc_set = s.receive_ssrc_set
              /\ t.wire = s.wire /\ t.queued_send = s.queued_send
              /\ In(t) = In(s) /\ t.queued_received \in {s.queued_received, EmptyQueue}
              /\ s.was_ever_writable /\ s.observer => t.queued_received.packets = <<>>
  <1>1. CASE s.was_ever_writable /\ s.observer
    <2> DEFINE v == s.delivered \o s.queued_received.packets
               t == [s EXCEPT !.delivered = v, !.queued_received = EmptyQueue]
    <2>1. DeliverQueuedReceivedData(s) = t
      BY <1>1 DEF DeliverQueuedReceivedData
    <2>2. v \in Seq(Packet)
      BY DEF DataChannelRecord, PacketQueue
    <2>3. EmptyQueue.packets = <<>>
      BY DEF EmptyQueue
    <2>4. v \o <<>> = v
      BY <2>2, ConcatEmptySeq
    <2>5. In(s) = v
      BY DEF In
    <2> HIDE DEF v
    <2>6. /\ t.state = s.state /\ t.connected = s.connected /\ t.listed = s.listed
          /\ t.transport = s.transport /\ t.was_closed = s.was_closed
          /\ t.stream = s.stream /\ t.id = s.id /\ t.observer = s.observer
          /\ t.was_ever_writable = s.was_ever_writable
          /\ t.send_ssrc_set = s.send_ssrc_set /\ t.receive_ssrc_set = s.receive_ssrc_set
          /\ t.wire = s.wire /\ t.queued_send = s.queued_send
          /\ t.delivered = v /\ t.queued_received = EmptyQueue
      BY DEF DataChannelRecord
    <2> HIDE DEF t
    <2>7. In(t) = v
      BY <2>3, <2>4, <2>6 DEF In
    <2> QED
      BY <2>1, <2>3, <2>5, <2>6, <2>7
  <1>2. CASE ~(s.was_ever_writable /\ s.observer)
    <2>1. DeliverQueuedReceivedData(s) = s
      BY <1>2 DEF DeliverQueuedReceivedData
    <2> QED
      BY <1>2, <2>1
  <1> QED
    BY <1>1, <1>2

\* Opening a connected channel.  If the OPEN message fails, the channel is kOpen all the
\* same, but off the transport, the list and, with a sid, its stream.
LEMMA OpenedKeeps ==
    ASSUME NEW s, Ok(s), Wiring(s), s.state = "kConnecting", SCTP => s.connected,
           NEW r \in SendDataResult
    PROVE  Keeps(s, Opened(s, r)) /\ Alive(Opened(s, r))
  <1> DEFINE t == SendQueuedControlMessages(s, r)
             u == SetState(t, "kOpen")
             v == DeliverQueuedReceivedData(u)
  <1>1. Opened(s, r) = v
    BY DEF Opened
  <1>2. s \in DataChannelRecord /\ ByType(s) /\ Reachable(s)
    BY DEF Ok
  <1>3. Steady(s, t) \/ (SCTP /\ s.state # "kClosed" /\ Shut(s, t))
    BY <1>2, SendQueuedControlWiring
  <1>4. t \in DataChannelRecord
    BY <1>2, QueuedControlType
  <1> HIDE DEF t
  <1>5. /\ u \in DataChannelRecord
        /\ Untouched(t, u) /\ u.state = "kOpen"
        /\ u.connected = t.connected /\ u.listed = t.listed
        /\ u.was_closed = t.was_closed /\ u.stream = t.stream
    <2>1. t.was_closed \in BOOLEAN
      BY <1>4 DEF DataChannelRecord
    <2>2. u.was_closed = (t.was_closed \/ "kOpen" = "kClosed") /\ u.stream = t.stream
      BY <1>4, SetStateWiring DEF DataState
    <2> QED
      BY <1>4, <2>1, <2>2, SetStateContract DEF DataState
  <1> HIDE DEF u
  <1>6. /\ v.state = "kOpen" /\ v.connected = t.connected /\ v.listed = t.listed
        /\ v.transport = t.transport /\ v.was_closed = t.was_closed
        /\ v.stream = t.stream /\ v.id = t.id
        /\ v.wire = t.wire /\ v.queued_send = t.queued_send
        /\ In(v) = In(t) /\ v.queued_received \in {t.queued_received, EmptyQueue}
        /\ v.was_ever_writable /\ v.observer => v.queued_received.packets = <<>>
    <2>1. /\ v.state = u.state /\ v.connected = u.connected /\ v.listed = u.listed
          /\ v.transport = u.transport /\ v.was_closed = u.was_closed
          /\ v.stream = u.stream /\ v.id = u.id /\ v.observer = u.observer
          /\ v.was_ever_writable = u.was_ever_writable
          /\ v.wire = u.wire /\ v.queued_send = u.queued_send
          /\ In(v) = In(u) /\ v.queued_received \in {u.queued_received, EmptyQueue}
          /\ u.was_ever_writable /\ u.observer => v.queued_received.packets = <<>>
      BY <1>5, DeliverWiring
    <2> HIDE DEF v
    <2>2. In(u) = In(t) /\ u.queued_received = t.queued_received /\ u.transport = t.transport
          /\ u.id = t.id /\ u.wire = t.wire /\ u.queued_send = t.queued_send
      BY <1>5 DEF Untouched, In
    <2> QED
      BY <1>5, <2>1, <2>2
  <1> HIDE DEF v
  <1>7. ~s.was_closed /\ ~Revived(s)
    BY DEF Wiring, Revived
  <1>8. NoBacklog(v) /\ Idle(v)
    BY <1>6 DEF NoBacklog, Idle
  <1>9. CASE Steady(s, t)
    <2>1. Keeps(s, v)
      BY <1>6, <1>7, <1>9 DEF Steady, Keeps, Onward, In
    <2>2. Wiring(v)
      BY <1>6, <1>7, <1>9 DEF Steady, Wiring
    <2> QED
      BY <1>1, <1>8, <2>1, <2>2 DEF Alive
  <1>10. CASE SCTP /\ Shut(s, t)
    <2>1. t.wire = s.wire /\ t.queued_send = s.queued_send /\ t.id = s.id
          /\ t.delivered = s.delivered /\ t.queued_received = s.queued_received
          /\ t.transport = s.transport
          /\ ~t.connected /\ t.was_closed /\ t.state = "kClosed"
      BY <1>10 DEF Shut, Carries, Off
    <2>2. In(t) = In(s) /\ SameData(s.wire, v.wire)
      BY <1>6, <2>1, SameWire DEF In
    <2>3. Keeps(s, v)
      BY <1>6, <1>7, <1>10, <2>1, <2>2 DEF Keeps, Onward, Shut
    <2>4. Wiring(v)
      BY <1>2, <1>6, <1>10, <2>1 DEF Wiring, Reachable
    <2> QED
      BY <1>1, <1>8, <2>3, <2>4 DEF Alive
  <1> QED
    BY <1>3, <1>9, <1>10

\* Connecting changes the connection only.
LEMMA ConnectWiring ==
    ASSUME NEW s \in DataChannelRecord, ~s.connected
    PROVE  LET t == ConnectDataChannel(s)
           IN /\ t \in DataChannelRecord
              /\ t.state = s.state /\ t.connected = s.transport /\ t.listed = s.listed
              /\ t.transport = s.transport /\ t.was_closed = s.was_closed
              /\ t.stream = s.stream /\ t.id = s.id /\ t.observer = s.observer
              /\ t.was_ever_writable = s.was_ever_writable
              /\ t.send_ssrc_set = s.send_ssrc_set /\ t.receive_ssrc_set = s.receive_ssrc_set
              /\ t.queued_control = s.queued_control /\ t.queued_send = s.queued_send
              /\ Keeps(s, t)
  <1> DEFINE b == s.transport
             t == [s EXCEPT !.connected = b]
  <1>1. b \in BOOLEAN
    BY DEF DataChannelRecord
  <1>2. ConnectDataChannel(s) = t
    BY DEF ConnectDataChannel
  <1>3. /\ t \in DataChannelRecord
        /\ t.state = s.state /\ t.connected = b /\ t.listed = s.listed
        /\ t.transport = s.transport /\ t.was_closed = s.was_closed
        /\ t.stream = s.stream /\ t.id = s.id /\ t.observer = s.observer
        /\ t.was_ever_writable = s.was_ever_writable
        /\ t.send_ssrc_set = s.send_ssrc_set /\ t.receive_ssrc_set = s.receive_ssrc_set
        /\ t.delivered = s.delivered /\ t.queued_received = s.queued_received
        /\ t.wire = s.wire /\ t.queued_send = s.queued_send
        /\ t.queued_control = s.queued_control
    <2> HIDE DEF b
    <2> QED
      BY <1>1 DEF DataChannelRecord
  <1> HIDE DEF t
  <1>4. Keeps(s, t)
    <2>1. ~Revived(s)
      BY DEF Revived
    <2>2. In(t) = In(s) /\ SameData(s.wire, t.wire)
      BY <1>3, SameWire DEF In
    <2> QED
      BY <1>3, <2>1, <2>2 DEF Keeps, Onward
  <1> QED
    BY <1>2, <1>3, <1>4

\* UpdateState keeps the order: it opens a channel whose queue it then delivers,
\* or shuts one that is closing.
LEMMA UpdateStateKeeps ==
    ASSUME NEW s, Ok(s), Wiring(s), NEW r \in SendDataResult,
           (MayOpen(s) /\ s.was_ever_writable) \/ NoBacklog(s),
           SCTP /\ s.state = "kConnecting" => s.connected,
           RTP => s.connected \/ (s.listed /\ (s.send_ssrc_set \/ s.receive_ssrc_set))
    PROVE  Keeps(s, UpdateState(s, r)) /\ Alive(UpdateState(s, r))
  <1> DEFINE c == IF RTP /\ ~s.connected THEN ConnectDataChannel(s) ELSE s
  <1>0. s \in DataChannelRecord /\ ByType(s) /\ Reachable(s)
    BY DEF Ok
  <1>1. Keeps(s, s)
    <2>1. Steady(s, s)
      BY SameWire DEF Steady
    <2> QED
      BY <2>1, SteadyKeeps
  <1>2. CASE MayOpen(s)
    <2>1. s.state = "kConnecting" /\ s.send_ssrc_set = s.receive_ssrc_set
      BY <1>2 DEF MayOpen
    <2>2. Keeps(s, c) /\ Ok(c) /\ Wiring(c) /\ c.state = "kConnecting"
          /\ (SCTP => c.connected) /\ c.was_ever_writable = s.was_ever_writable
      <3>1. CASE RTP /\ ~s.connected
        <4> DEFINE t == ConnectDataChannel(s)
        <4>1. /\ t \in DataChannelRecord
              /\ t.state = s.state /\ t.connected = s.transport /\ t.listed = s.listed
              /\ t.transport = s.transport /\ t.was_closed = s.was_closed
              /\ t.was_ever_writable = s.was_ever_writable
              /\ t.send_ssrc_set = s.send_ssrc_set /\ t.receive_ssrc_set = s.receive_ssrc_set
              /\ t.queued_control = s.queued_control /\ t.queued_send = s.queued_send
              /\ Keeps(s, t)
          BY <1>0, <3>1, ConnectWiring
        <4>2. c = t
          BY <3>1
        <4> HIDE DEF t, c
        <4>3. ByType(t) /\ Reachable(t)
          BY <1>0, <3>1, <4>1 DEF ByType, Reachable
        <4>4. Wiring(t)
          BY <2>1, <3>1, <4>1 DEF Wiring
        <4> QED
          BY <2>1, <3>1, <4>1, <4>2, <4>3, <4>4 DEF Ok
      <3>2. CASE ~(RTP /\ ~s.connected)
        <4>1. c = s
          BY <3>2
        <4> QED
          BY <1>1, <2>1, <4>1
      <3> QED
        BY <3>1, <3>2
    <2>3. UpdateState(s, r) = IF s.was_ever_writable THEN Opened(c, r) ELSE c
      BY <1>2 DEF UpdateState
    <2> HIDE DEF c
    <2>4. CASE s.was_ever_writable
      <3>1. Keeps(c, Opened(c, r)) /\ Alive(Opened(c, r))
        BY <2>2, OpenedKeeps
      <3>2. Keeps(s, Opened(c, r))
        BY <2>2, <3>1, KeepsTrans
      <3> QED
        BY <2>3, <2>4, <3>1, <3>2
    <2>5. CASE ~s.was_ever_writable
      BY <2>2, <2>3, <2>5 DEF Alive, Idle, NoBacklog
    <2> QED
      BY <2>4, <2>5
  <1>3. CASE ~MayOpen(s) /\ s.state = "kClosing"
    <2>1. UpdateState(s, r) = ClosingUpdate(s)
      BY <1>3 DEF UpdateState
    <2>2. Shut(s, ClosingUpdate(s))
      BY <1>0, <1>3, ClosingUpdateShuts DEF ByType
    <2> QED
      BY <1>3, <2>1, <2>2, ShutKeeps
  <1>4. CASE ~MayOpen(s) /\ s.state # "kClosing"
    <2>1. UpdateState(s, r) = s
      BY <1>4 DEF UpdateState
    <2>2. NoBacklog(s)
      BY <1>4
    <2>3. Idle(s)
      <3> SUFFICES ASSUME SCTP, s.state = "kConnecting" PROVE FALSE
        BY DEF Idle
      <3>1. s.send_ssrc_set = FALSE /\ s.receive_ssrc_set = FALSE
        BY <1>0 DEF ByType, DataChannelRecord
      <3> QED
        BY <1>4, <3>1 DEF MayOpen
    <2> QED
      BY <1>1, <2>1, <2>2, <2>3 DEF Alive
  <1> QED
    BY <1>2, <1>3, <1>4

\* The first ready signal opens a channel and delivers what it has queued, or finds it
\* closed.
LEMMA FirstWritableKeeps ==
    ASSUME NEW s, Ok(s), QuietBeforeReady(s), Alive(s), ~s.was_ever_writable,
           SCTP /\ s.state = "kConnecting" => s.connected,
           RTP => s.connected,
           NEW r1 \in SendDataResult, NEW r2 \in SendDataResult
    PROVE  Keeps(s, FirstWritable(s, r1, r2)) /\ Alive(FirstWritable(s, r1, r2))
  <1> DEFINE w == [s EXCEPT !.was_ever_writable = TRUE]
             c == IF SCTP /\ s.role # "kNone" THEN SendControlMessage(w, r1) ELSE w
             u == UpdateState(c, r2)
  <1>0. s \in DataChannelRecord /\ ByType(s) /\ Reachable(s) /\ Wiring(s)
    BY DEF Ok, Alive
  <1>1. /\ w \in DataChannelRecord
        /\ w.state = s.state /\ w.connected = s.connected /\ w.listed = s.listed
        /\ w.transport = s.transport /\ w.was_closed = s.was_closed
        /\ w.stream = s.stream /\ w.id = s.id /\ w.observer = s.observer
        /\ w.send_ssrc_set = s.send_ssrc_set /\ w.receive_ssrc_set = s.receive_ssrc_set
        /\ w.delivered = s.delivered /\ w.queued_received = s.queued_received
        /\ w.wire = s.wire /\ w.queued_send = s.queued_send
        /\ w.queued_control = s.queued_control /\ w.was_ever_writable
    BY <1>0 DEF DataChannelRecord
  <1>2. Empty(s.queued_send) /\ s.state # "kOpen"
    BY DEF QuietBeforeReady, Empty
  <1>3. FirstWritable(s, r1, r2) = u
    BY <1>2 DEF FirstWritable, Asserted
  <1> HIDE DEF w
  <1>4. Keeps(s, w) /\ ByType(w) /\ Reachable(w) /\ Wiring(w)
    <2>1. Revived(s) => Revived(w)
      BY <1>1 DEF Revived
    <2>2. In(w) = In(s) /\ SameData(s.wire, w.wire)
      BY <1>1, SameWire DEF In
    <2>3. Keeps(s, w)
      BY <1>1, <2>1, <2>2 DEF Keeps, Onward
    <2>4. Wiring(w)
      BY <1>0, <1>1 DEF Wiring
    <2> QED
      BY <1>0, <1>1, <2>3, <2>4 DEF ByType, Reachable
  <1>5. c \in DataChannelRecord
    BY <1>1, SendControlType
  <1>6. Steady(w, c) \/ (SCTP /\ w.state # "kClosed" /\ Shut(w, c))
    <2>1. CASE SCTP /\ s.role # "kNone"
      BY <1>1, <1>4, <2>1, SendControlWiring
    <2>2. CASE ~(SCTP /\ s.role # "kNone")
      <3>1. c = w
        BY <2>2
      <3> QED
        BY <3>1, SameWire DEF Steady
    <2> QED
      BY <2>1, <2>2
  <1>7. RTP => c = w
    OBVIOUS
  <1> HIDE DEF c
  <1>8. CASE Steady(w, c)
    <2>1. Keeps(w, c) /\ Wiring(c) /\ Reachable(c)
      BY <1>4, <1>8, SteadyKeeps
    <2>2. ByType(c)
      <3>1. CASE SCTP
        BY <1>4, <1>8, <3>1 DEF ByType, Steady
      <3>2. CASE RTP
        BY <1>4, <1>7, <3>2
      <3> QED
        BY <3>1, <3>2
    <2>3. /\ c.state = s.state /\ c.connected = s.connected /\ c.was_closed = s.was_closed
          /\ c.send_ssrc_set = s.send_ssrc_set /\ c.receive_ssrc_set = s.receive_ssrc_set
          /\ c.was_ever_writable
      BY <1>1, <1>8 DEF Steady
    <2>4. MayOpen(c) \/ NoBacklog(c)
      <3>1. CASE s.state = "kConnecting"
        <4>1. s.send_ssrc_set = s.receive_ssrc_set
          <5>1. CASE SCTP
            BY <1>0, <5>1 DEF ByType, DataChannelRecord
          <5>2. CASE RTP
            BY <1>0, <3>1, <5>2 DEF Wiring, DataChannelRecord
          <5> QED
            BY <5>1, <5>2
        <4> QED
          BY <2>3, <3>1, <4>1 DEF MayOpen
      <3>2. CASE s.state = "kClosed"
        BY <1>0, <2>3, <3>2 DEF Wiring, NoBacklog
      <3>3. CASE s.state = "kClosing"
        BY <1>0, <2>3, <3>3 DEF Wiring, NoBacklog
      <3>4. s.state \in {"kConnecting", "kClosing", "kClosed"}
        BY <1>0, <1>2 DEF DataChannelRecord, DataState
      <3> QED
        BY <3>1, <3>2, <3>3, <3>4
    <2>5. Keeps(c, u) /\ Alive(u)
      <3>1. Ok(c)
        BY <1>5, <2>1, <2>2 DEF Ok
      <3> QED
        BY <2>1, <2>3, <2>4, <3>1, UpdateStateKeeps
    <2> HIDE DEF u
    <2>6. Keeps(s, u)
      BY <1>4, <2>1, <2>5, KeepsTrans
    <2> QED
      BY <1>3, <2>5, <2>6
  <1>9. CASE SCTP /\ w.state # "kClosed" /\ Shut(w, c)
    <2>1. c.state = "kClosed"
      BY <1>9 DEF Shut
    <2>2. u = c
      BY <2>1 DEF UpdateState, MayOpen
    <2>3. Keeps(w, c) /\ Alive(c)
      BY <1>4, <1>9, ShutKeeps
    <2>4. Keeps(s, c)
      BY <1>4, <2>3, KeepsTrans
    <2> QED
      BY <1>3, <2>2, <2>3, <2>4
  <1> QED
    BY <1>6, <1>8, <1>9

-----------------------------------------------------------------------------
(* The queues and the order of what goes through them.                     *)

\* byte_count_ is the size of the queue, which its limit bounds.
ReceiveLimit(q) ==
    q.byte_count = TotalSize(q.packets) /\ q.byte_count <= kMaxQueuedReceivedDataBytes

SendLimit(q) ==
    /\ q.byte_count = TotalSize(q.packets)
    /\ \A i \in DOMAIN q.packets :
         i = Len(q.packets) => q.byte_count - q.packets[i].size < kMaxQueuedSendDataBytes

Limits(s) == ReceiveLimit(s.queued_received) /\ SendLimit(s.queued_send)

\* The queue continues the count of the data on the wire.
Follows(q, w) == \A i \in DOMAIN q : q[i].n = DataCount(w) + i

\* What the application sent is on the wire or queued.
Outgoing(s, sent) ==
    SCTP =>
      /\ Numbered(s.wire)
      /\ Follows(s.queued_send.packets, s.wire)
      /\ s.state \in {"kConnecting", "kOpen"} =>
           DataCount(s.wire) + Len(s.queued_send.packets) = sent

Rising(q, n) ==
    /\ \A i, j \in DOMAIN q : i < j => q[i].n < q[j].n
    /\ \A i \in DOMAIN q : q[i].n <= n

\* What arrived is delivered or queued.
Incoming(s, arr) ==
    ~Revived(s) => Rising(In(s), arr) /\ (SCTP => s.was_closed \/ Len(In(s)) = arr)

Ordered(s, sent, arr) == Limits(s) /\ Outgoing(s, sent) /\ Incoming(s, arr)

\* An empty queue is within every limit.
LEMMA EmptyIsBounded == ReceiveLimit(EmptyQueue) /\ SendLimit(EmptyQueue)
  <1>1. EmptyQueue.packets = <<>> /\ EmptyQueue.byte_count = 0 /\ DOMAIN <<>> = {}
    BY DEF EmptyQueue
  <1> QED
    BY <1>1, NoBytes DEF ReceiveLimit, SendLimit

\* A call that neither sends nor receives keeps the order.
LEMMA KeepsOrder ==
    ASSUME NEW s \in DataChannelRecord, NEW t, Wiring(s), Keeps(s, t),
           NEW sent, NEW arr, Ordered(s, sent, arr)
    PROVE  Ordered(t, sent, arr)
  <1>1. Limits(t)
    BY EmptyIsBounded DEF Keeps, Ordered, Limits
  <1>2. Outgoing(t, sent)
    <2> SUFFICES ASSUME SCTP PROVE Outgoing(t, sent)
      BY DEF Outgoing
    <2>1. DataCount(t.wire) = DataCount(s.wire) /\ (Numbered(s.wire) => Numbered(t.wire))
      BY SameDataIsNumbered DEF Keeps
    <2>2. t.queued_send = s.queued_send
      BY DEF Keeps
    <2>3. t.state \in {"kConnecting", "kOpen"} =>
            DataCount(s.wire) + Len(s.queued_send.packets) = sent
      <3> SUFFICES ASSUME t.state \in {"kConnecting", "kOpen"}
                   PROVE  s.state \in {"kConnecting", "kOpen"}
        BY DEF Ordered, Outgoing
      <3>1. s.state # "kClosed" /\ s.state # "kClosing"
        BY DEF Keeps, Onward, Wiring
      <3>2. s.state \in DataState
        BY DEF DataChannelRecord
      <3> QED
        BY <3>1, <3>2 DEF DataState
    <2> QED
      BY <2>1, <2>2, <2>3 DEF Ordered, Outgoing, Follows
  <1>3. Incoming(t, arr)
    BY DEF Keeps, Onward, Ordered, Incoming
  <1> QED
    BY <1>1, <1>2, <1>3 DEF Ordered

\* Popping keeps the count, and the last packet stays the last.
LEMMA PopIsBounded ==
    ASSUME NEW q \in PacketQueue, SendLimit(q), NEW k \in 0 .. Len(q.packets)
    PROVE  /\ SendLimit(Pop(q, k))
           /\ Len(Pop(q, k).packets) = Len(q.packets) - k
           /\ \A i \in DOMAIN Pop(q, k).packets : Pop(q, k).packets[i] = q.packets[k + i]
  <1> DEFINE z == SubSeq(q.packets, k + 1, Len(q.packets))
             a == SubSeq(q.packets, 1, k)
             n == Len(q.packets)
  <1>1. q.packets \in Seq(Packet) /\ n \in Nat /\ q.byte_count \in Int
    BY DEF PacketQueue
  <1>2. z \in Seq(Packet) /\ Len(z) = n - k /\ DOMAIN z = 1 .. n - k
        /\ \A i \in 1 .. n - k : z[i] = q.packets[k + i]
    BY <1>1
  <1>3. a \in Seq(Packet)
    BY <1>1
  <1>4. TotalSize(q.packets) = TotalSize(a) + TotalSize(z)
    BY <1>1, TotalSizeSplit
  <1>5. Pop(q, k).packets = z /\ Pop(q, k).byte_count = q.byte_count - TotalSize(a)
    BY DEF Pop
  <1> HIDE DEF z, a, n
  <1>6. TotalSize(a) \in Nat /\ TotalSize(z) \in Nat
    BY <1>2, <1>3, TotalSizeType
  <1>7. q.byte_count = TotalSize(q.packets)
    BY DEF SendLimit
  <1>8. ASSUME NEW i \in 1 .. n - k, i = n - k
        PROVE  (q.byte_count - TotalSize(a)) - z[i].size < kMaxQueuedSendDataBytes
    <2>1. k + i = n /\ n \in DOMAIN q.packets
      BY <1>1, <1>8 DEF n
    <2>2. q.byte_count - q.packets[n].size < kMaxQueuedSendDataBytes
      BY <2>1 DEF SendLimit, n
    <2>3. q.packets[n] \in Packet
      BY <1>1, <2>1
    <2>4. q.packets[n].size \in Nat
      BY <2>3, PacketSize
    <2>5. z[i] = q.packets[n]
      BY <1>2, <1>8, <2>1
    <2>6. kMaxQueuedSendDataBytes \in Nat
      BY ConstantsOK
    <2>7. \A x, y, u \in Int : \A b \in Nat : x - y < u => (x - b) - y < u
      OBVIOUS
    <2> QED
      BY <1>1, <1>6, <2>2, <2>4, <2>5, <2>6, <2>7
  <1>9. Pop(q, k).byte_count = TotalSize(z)
    BY <1>1, <1>4, <1>5, <1>6, <1>7
  <1>10. SendLimit(Pop(q, k))
    BY <1>2, <1>5, <1>8, <1>9 DEF SendLimit
  <1> QED
    BY <1>2, <1>5, <1>10 DEF n

\* A message is queued while the queue is below its limit.
LEMMA PushIsBounded ==
    ASSUME NEW q \in PacketQueue, SendLimit(q), NEW p \in Packet,
           q.byte_count < kMaxQueuedSendDataBytes
    PROVE  SendLimit(Push(q, p))
  <1> DEFINE z == Append(q.packets, p)
             n == Len(q.packets)
  <1>1. q.packets \in Seq(Packet) /\ n \in Nat /\ q.byte_count \in Int
    BY DEF PacketQueue
  <1>2. z \in Seq(Packet) /\ Len(z) = n + 1 /\ z[n + 1] = p
    BY <1>1
  <1>3. TotalSize(z) = TotalSize(q.packets) + p.size
    BY <1>1, TotalSizeAppend
  <1>4. Push(q, p).packets = z /\ Push(q, p).byte_count = q.byte_count + p.size
    BY DEF Push
  <1> HIDE DEF z, n
  <1>5. p.size \in Nat
    BY PacketSize
  <1>6. q.byte_count = TotalSize(q.packets)
    BY DEF SendLimit
  <1>7. (q.byte_count + p.size) - p.size = q.byte_count
    BY <1>1, <1>5
  <1> QED
    BY <1>2, <1>3, <1>4, <1>6, <1>7 DEF SendLimit

-----------------------------------------------------------------------------
(* Sending.                                                                *)

\* The members that sending data leaves alone.
SameLife(s, t) ==
    /\ t.state = s.state /\ t.connected = s.connected /\ t.listed = s.listed
    /\ t.transport = s.transport /\ t.was_closed = s.was_closed /\ t.stream = s.stream
    /\ t.id = s.id /\ t.observer = s.observer /\ t.was_ever_writable = s.was_ever_writable
    /\ t.send_ssrc_set = s.send_ssrc_set /\ t.receive_ssrc_set = s.receive_ssrc_set
    /\ t.delivered = s.delivered /\ t.queued_received = s.queued_received

\* They are what the life of the channel and the received data depend on.
LEMMA SameLifeLasts ==
    ASSUME NEW s, NEW t, SameLife(s, t)
    PROVE  /\ Onward(s, t)
           /\ Alive(s) => Alive(t)
           /\ Reachable(s) => Reachable(t)
           /\ ReceiveLimit(s.queued_received) => ReceiveLimit(t.queued_received)
           /\ \A arr : Incoming(s, arr) => Incoming(t, arr)
  <1>1. Revived(s) <=> Revived(t)
    BY DEF SameLife, Revived
  <1>2. In(t) = In(s)
    BY DEF SameLife, In
  <1>3. Onward(s, t)
    BY <1>1 DEF SameLife, Onward
  <1>4. Alive(s) => Alive(t)
    <2>1. Wiring(s) => Wiring(t)
      BY DEF SameLife, Wiring
    <2>2. (Idle(s) => Idle(t)) /\ (NoBacklog(s) => NoBacklog(t))
      BY DEF SameLife, Idle, NoBacklog
    <2> QED
      BY <2>1, <2>2 DEF Alive
  <1>5. \A arr : Incoming(s, arr) => Incoming(t, arr)
    <2>1. t.was_closed = s.was_closed
      BY DEF SameLife
    <2> QED
      BY <1>1, <1>2, <2>1 DEF Incoming
  <1>6. Reachable(s) => Reachable(t)
    BY DEF SameLife, Reachable
  <1>7. ReceiveLimit(s.queued_received) => ReceiveLimit(t.queued_received)
    BY DEF SameLife
  <1> QED
    BY <1>3, <1>4, <1>5, <1>6, <1>7

\* d is what the first m packets of q look like on the wire.
Prefix(d, q, m) ==
    /\ d \in Seq(WireMessage) /\ Len(d) = m
    /\ \A i \in 1 .. m : d[i].type = "DATA" /\ d[i].n = q.packets[i].n

\* Data leaves the queue from its head, in the order of the count.
LEMMA FlushInOrder ==
    ASSUME NEW w \in Seq(WireMessage), Numbered(w), NEW q \in PacketQueue, SendLimit(q),
           Follows(q.packets, w), NEW m \in 0 .. Len(q.packets),
           NEW d, Prefix(d, q, m)
    PROVE  /\ Numbered(w \o d) /\ Follows(Pop(q, m).packets, w \o d)
           /\ DataCount(w \o d) + Len(Pop(q, m).packets) = DataCount(w) + Len(q.packets)
  <1> DEFINE z == Pop(q, m).packets
             n == Len(q.packets)
  <1>1. q.packets \in Seq(Packet) /\ n \in Nat /\ DOMAIN q.packets = 1 .. n
    BY DEF PacketQueue
  <1>2. \A i \in 1 .. n : q.packets[i].n = DataCount(w) + i
    BY <1>1 DEF Follows
  <1>3. DataCount(w) \in Nat
    BY DataPlacesFinite
  <1>4. Len(z) = n - m /\ \A i \in DOMAIN z : z[i] = q.packets[m + i]
    BY PopIsBounded
  <1>5. DOMAIN z = 1 .. n - m
    <2>1. z \in Seq(Packet)
      BY PopType DEF PacketQueue
    <2> QED
      BY <1>4, <2>1
  <1> HIDE DEF z, n
  <1>6. /\ d \in Seq(WireMessage) /\ Len(d) = m
        /\ \A i \in 1 .. Len(d) : d[i].type = "DATA" /\ d[i].n = DataCount(w) + i
    BY <1>1, <1>2 DEF n, Prefix
  <1>7. Numbered(w \o d) /\ DataCount(w \o d) = DataCount(w) + m
    BY <1>6, DataFollows
  <1>8. \A i \in DOMAIN z : z[i].n = DataCount(w \o d) + i
    <2> SUFFICES ASSUME NEW i \in DOMAIN z PROVE z[i].n = DataCount(w \o d) + i
      OBVIOUS
    <2>1. m + i \in 1 .. n /\ i \in Nat
      BY <1>1, <1>5 DEF n
    <2>2. q.packets[m + i].n = DataCount(w) + (m + i)
      BY <1>2, <2>1
    <2> QED
      BY <1>3, <1>4, <1>7, <2>1, <2>2
  <1>9. DataCount(w \o d) + Len(z) = DataCount(w) + n
    BY <1>1, <1>3, <1>4, <1>7
  <1> QED
    BY <1>7, <1>8, <1>9 DEF Follows, z, n

\* Flushing the send queue keeps the order, and sends nothing where the stream is not open.
LEMMA SendQueuedDataOrder ==
    ASSUME NEW s, Ok(s), Alive(s), NEW sent, NEW arr, Ordered(s, sent, arr),
           NEW r \in SendDataResult, NEW k \in 0 .. Len(s.queued_send.packets)
    PROVE  LET t == SendQueuedDataMessages(s, k, r)
           IN /\ Onward(s, t) /\ Alive(t) /\ Ordered(t, sent, arr)
              /\ (SCTP => s.stream # "open") => SameData(s.wire, t.wire)
  <1> DEFINE c == s.was_ever_writable /\ s.state = "kOpen"
             a == Asserted(s, "SendQueuedDataMessages", c)
             q == s.queued_send.packets
             m == IF DataResult(s, "SDR_SUCCESS") = "SDR_SUCCESS" THEN k ELSE 0
             d == [i \in 1 .. m |-> DataOnWire(s, q[i])]
             p == Pop(s.queued_send, m)
             b == [a EXCEPT !.wire = a.wire \o d, !.queued_send = p]
  <1>0. /\ s \in DataChannelRecord /\ s.queued_send \in PacketQueue /\ ByType(s)
        /\ q \in Seq(Packet) /\ Len(q) \in Nat /\ s.wire \in Seq(WireMessage)
    BY DEF Ok, DataChannelRecord, PacketQueue
  <1>1. /\ a \in DataChannelRecord /\ Steady(s, a) /\ a.wire = s.wire
        /\ a.queued_control = s.queued_control
    <2>1. c \in BOOLEAN /\ "SendQueuedDataMessages" \in AssertNames
      BY <1>0 DEF AssertNames, DataChannelRecord
    <2> HIDE DEF c
    <2> QED
      BY <1>0, <2>1, AssertedSteady
  <1>2. m \in 0 .. Len(q)
    BY <1>0
  <1>3. (SCTP => s.stream # "open") => m = 0
    <2>1. CASE SCTP
      <3>1. s.stream # "open" => DataResult(s, "SDR_SUCCESS") = "SDR_ERROR"
        BY <2>1 DEF DataResult
      <3> QED
        BY <2>1, <3>1
    <2>2. CASE RTP
      <3>1. Len(q) = 0
        BY <1>0, <2>2 DEF ByType
      <3> QED
        BY <1>2, <3>1
    <2> QED
      BY <2>1, <2>2
  <1>4. SendQueuedDataMessages(s, k, r) \in {b, Close(b)}
    <2>1. a.queued_send = s.queued_send
      BY <1>1 DEF Steady
    <2> QED
      BY <2>1 DEF SendQueuedDataMessages
  <1> HIDE DEF m
  <1>5. p \in PacketQueue /\ SendLimit(p) /\ (RTP => p.packets = <<>>)
    <2>1. RTP => q = <<>>
      BY <1>0 DEF ByType
    <2>2. SendLimit(s.queued_send)
      BY DEF Ordered, Limits
    <2> QED
      BY <1>0, <1>2, <2>1, <2>2, PopType, PopIsBounded
  <1>6. /\ d \in Seq(WireMessage) /\ Len(d) = m
        /\ \A i \in 1 .. m : d[i].type = "DATA" /\ d[i].n = q[i].n
    <2>1. ASSUME NEW i \in 1 .. m
          PROVE  /\ DataOnWire(s, q[i]) \in WireMessage
                 /\ DataOnWire(s, q[i]).type = "DATA"
                 /\ DataOnWire(s, q[i]).n = q[i].n
      <3>1. q[i] \in Packet
        <4>1. i \in 1 .. Len(q)
          BY <1>0, <1>2
        <4> QED
          BY <1>0, <4>1, ElementOfSeq
      <3> HIDE DEF q
      <3> QED
        BY <1>0, <3>1, DataOnWireContract DEF DataOnWire
    <2>2. d \in [1 .. m -> WireMessage]
      BY <2>1
    <2>3. d \in Seq(WireMessage) /\ Len(d) = m
      BY <1>0, <1>2, <2>2
    <2> QED
      BY <2>1, <2>3
  <1> HIDE DEF a, d, p
  <1> DEFINE w == s.wire \o d
  <1>7. b \in DataChannelRecord /\ SameLife(a, b) /\ b.wire = w /\ b.queued_send = p
        /\ b.queued_control = a.queued_control
    <2>1. w \in Seq(WireMessage)
      BY <1>0, <1>6
    <2>2. b = [a EXCEPT !.wire = w, !.queued_send = p]
      BY <1>1
    <2> DEFINE t == [a EXCEPT !.wire = w, !.queued_send = p]
    <2> HIDE DEF w, b
    <2>3. t \in DataChannelRecord /\ SameLife(a, t) /\ t.wire = w /\ t.queued_send = p
          /\ t.queued_control = a.queued_control
      BY <1>1, <1>5, <2>1 DEF DataChannelRecord, SameLife
    <2> QED
      BY <2>2, <2>3
  <1>8. SameLife(s, b)
    <2> HIDE DEF b
    <2> QED
      BY <1>1, <1>7 DEF Steady, SameLife
  <1>9. m = 0 => w = s.wire
    <2>1. m = 0 => d = <<>>
      BY <1>6
    <2> QED
      BY <1>0, <2>1, ConcatEmptySeq
  <1>10. SCTP => Numbered(w) /\ Follows(p.packets, w)
                 /\ DataCount(w) + Len(p.packets) = DataCount(s.wire) + Len(q)
    <2> SUFFICES ASSUME SCTP
                 PROVE  Numbered(w) /\ Follows(p.packets, w)
                        /\ DataCount(w) + Len(p.packets) = DataCount(s.wire) + Len(q)
      OBVIOUS
    <2>1. Numbered(s.wire) /\ Follows(s.queued_send.packets, s.wire)
          /\ SendLimit(s.queued_send)
      BY DEF Ordered, Outgoing, Limits
    <2> DEFINE u == s.queued_send
    <2>2. u \in PacketQueue /\ SendLimit(u) /\ Follows(u.packets, s.wire)
          /\ m \in 0 .. Len(u.packets)
          /\ Prefix(d, u, m)
      BY <1>0, <1>2, <1>6, <2>1 DEF Prefix
    <2> HIDE DEF u
    <2>3. /\ Numbered(s.wire \o d) /\ Follows(Pop(u, m).packets, s.wire \o d)
          /\ DataCount(s.wire \o d) + Len(Pop(u, m).packets)
               = DataCount(s.wire) + Len(u.packets)
      BY <1>0, <2>1, <2>2, FlushInOrder
    <2> QED
      BY <2>3 DEF p, u
  <1> HIDE DEF b, w
  <1>11. Onward(s, b) /\ Alive(b) /\ Reachable(b) /\ Incoming(b, arr)
         /\ ReceiveLimit(b.queued_received)
    BY <1>8, SameLifeLasts DEF Ok, Ordered, Limits
  <1>12. Outgoing(b, sent)
    <2> SUFFICES ASSUME SCTP PROVE Outgoing(b, sent)
      BY DEF Outgoing
    <2>1. b.state = s.state
      BY <1>8 DEF SameLife
    <2> QED
      BY <1>7, <1>10, <2>1 DEF Ordered, Outgoing
  <1>13. Ordered(b, sent, arr)
    BY <1>5, <1>7, <1>11, <1>12 DEF Ordered, Limits
  <1>14. Ok(b)
    <2>1. ByType(b)
      <3>1. SCTP => ~b.send_ssrc_set /\ ~b.receive_ssrc_set
        BY <1>0, <1>8 DEF ByType, SameLife
      <3>2. CASE SCTP
        BY <3>1, <3>2 DEF ByType
      <3>3. CASE RTP
        BY <1>0, <1>1, <1>5, <1>7, <3>3 DEF ByType
      <3> QED
        BY <3>2, <3>3
    <2> QED
      BY <1>7, <1>11, <2>1 DEF Ok
  <1>15. Keeps(b, Close(b)) /\ Alive(Close(b))
    BY <1>11, <1>14, CloseKeeps
  <1>16. Ordered(Close(b), sent, arr) /\ Onward(s, Close(b))
    BY <1>7, <1>11, <1>13, <1>15, KeepsOrder, OnwardTrans DEF Keeps, Alive
  <1>17. SameData(b.wire, Close(b).wire)
    BY <1>15 DEF Keeps
  <1>18. m = 0 => SameData(s.wire, b.wire) /\ SameData(s.wire, Close(b).wire)
    BY <1>7, <1>9, <1>17, SameWire
  <1> QED
    BY <1>3, <1>4, <1>11, <1>13, <1>15, <1>16, <1>18

\* A ready signal keeps the order; it sends nothing while the stream is not open.
LEMMA OnChannelReadyOrder ==
    ASSUME NEW s, NEW h \in BOOLEAN, Good(s, h), Alive(s),
           NEW sent, NEW arr, Ordered(s, sent, arr),
           NEW r1 \in SendDataResult, NEW r2 \in SendDataResult,
           NEW k \in 0 .. Len(s.queued_send.packets),
           SCTP /\ s.state = "kConnecting" => s.connected,
           RTP => s.connected
    PROVE  LET t == OnChannelReady(s, r1, r2, k)
           IN /\ Onward(s, t) /\ Alive(t) /\ Ordered(t, sent, arr)
              /\ (SCTP /\ s.state = "kOpen" => s.stream # "open") => SameData(s.wire, t.wire)
  <1> DEFINE t == OnChannelReady(s, r1, r2, k)
  <1>0. Ok(s) /\ QuietBeforeReady(s) /\ s \in DataChannelRecord /\ ByType(s) /\ Wiring(s)
    BY GoodIsOk DEF Ok, Alive
  <1>1. CASE ~s.was_ever_writable
    <2>1. t = FirstWritable(s, r1, r2)
      BY <1>1 DEF OnChannelReady
    <2>2. Keeps(s, t) /\ Alive(t)
      BY <1>0, <1>1, <2>1, FirstWritableKeeps
    <2> HIDE DEF t
    <2>3. Ordered(t, sent, arr)
      BY <1>0, <2>2, KeepsOrder
    <2> QED
      BY <2>2, <2>3 DEF Keeps, t
  <1>2. CASE s.was_ever_writable /\ s.state = "kOpen"
    <2> DEFINE u == SendQueuedControlMessages(s, r1)
    <2>1. t = SendQueuedDataMessages(u, k, r2)
      BY <1>2 DEF OnChannelReady, Unblock
    <2>2. Good(u, h) /\ u.queued_send = s.queued_send
      BY <1>2, SendQueuedControlIsGood
    <2>3. Steady(s, u) \/ (s.state # "kClosed" /\ Shut(s, u))
      BY <1>0, SendQueuedControlWiring
    <2> HIDE DEF u, t
    <2>4. Keeps(s, u) /\ Alive(u) /\ (u.stream = "open" => s.stream = "open")
      <3>1. CASE Steady(s, u)
        BY <3>1, SteadyKeeps DEF Alive, Steady
      <3>2. CASE s.state # "kClosed" /\ Shut(s, u)
        <4>1. Keeps(s, u) /\ Alive(u)
          BY <1>0, <3>2, ShutKeeps
        <4> QED
          BY <3>2, <4>1 DEF Shut
      <3> QED
        BY <2>3, <3>1, <3>2
    <2>5. Ok(u) /\ Ordered(u, sent, arr)
      BY <1>0, <2>2, <2>4, GoodIsOk, KeepsOrder
    <2>6. /\ Onward(u, t) /\ Alive(t) /\ Ordered(t, sent, arr)
          /\ (SCTP => u.stream # "open") => SameData(u.wire, t.wire)
      BY <2>1, <2>2, <2>4, <2>5, SendQueuedDataOrder
    <2>7. Onward(s, t)
      BY <2>4, <2>6, OnwardTrans DEF Keeps
    <2>8. (SCTP /\ s.state = "kOpen" => s.stream # "open") => SameData(s.wire, t.wire)
      BY <1>2, <2>4, <2>6 DEF Keeps, SameData
    <2> QED
      BY <2>6, <2>7, <2>8 DEF t
  <1>3. CASE s.was_ever_writable /\ s.state # "kOpen"
    <2>1. t = s
      BY <1>3 DEF OnChannelReady
    <2>2. SameLife(s, s) /\ SameData(s.wire, s.wire)
      BY SameWire DEF SameLife
    <2> HIDE DEF t
    <2>3. Onward(s, s)
      BY <2>2, SameLifeLasts
    <2> QED
      BY <2>1, <2>2, <2>3 DEF t
  <1> QED
    BY <1>1, <1>2, <1>3

\* A failed send closes the channel; the message is dropped with it.
LEMMA CloseDrops ==
    ASSUME NEW s, Ok(s), Alive(s), SCTP, NEW sent, NEW arr, Ordered(s, sent, arr), NEW n
    PROVE  Onward(s, Close(s)) /\ Alive(Close(s)) /\ Ordered(Close(s), n, arr)
           /\ SameData(s.wire, Close(s).wire)
  <1> DEFINE t == Close(s)
  <1>0. s \in DataChannelRecord /\ ByType(s) /\ Wiring(s)
    BY DEF Ok, Alive
  <1>1. Keeps(s, t) /\ Alive(t)
    BY CloseKeeps
  <1>2. t.state = "kClosed"
    <2>1. CASE s.state = "kClosed"
      BY <2>1 DEF Close
    <2>2. CASE s.state # "kClosed"
      BY <1>0, <2>2, CloseShuts DEF Shut
    <2> QED
      BY <2>1, <2>2
  <1> HIDE DEF t
  <1>3. Ordered(t, sent, arr)
    BY <1>0, <1>1, KeepsOrder
  <1>4. Ordered(t, n, arr)
    BY <1>2, <1>3 DEF Ordered, Outgoing
  <1> QED
    BY <1>1, <1>4 DEF Keeps, t

\* Sending leaves a channel.
LEMMA SameLifeIsOk ==
    ASSUME NEW s, Ok(s), NEW t \in DataChannelRecord, SameLife(s, t),
           t.queued_control = s.queued_control, RTP => t.queued_send.packets = <<>>
    PROVE  Ok(t)
  <1>1. ByType(s) /\ Reachable(s)
    BY DEF Ok
  <1>2. ByType(t)
    BY <1>1 DEF ByType, SameLife
  <1>3. Reachable(t)
    BY <1>1, SameLifeLasts
  <1> QED
    BY <1>2, <1>3 DEF Ok

\* A message is queued at the end, or the queue is full and the channel closed.
LEMMA QueueSendOrder ==
    ASSUME NEW s, Ok(s), Alive(s), SCTP, s.state = "kOpen",
           NEW sent \in Nat, NEW arr, Ordered(s, sent, arr), NEW p \in Packet, p.n = sent + 1
    PROVE  LET t == QueueSendDataMessage(s, p)
           IN /\ Onward(s, t) /\ Alive(t) /\ Ordered(t, sent + 1, arr)
              /\ SameData(s.wire, t.wire)
  <1> DEFINE u == s.queued_send
             q == Push(u, p)
             t == [s EXCEPT !.queued_send = q]
  <1>0. /\ s \in DataChannelRecord /\ u \in PacketQueue /\ s.wire \in Seq(WireMessage)
        /\ u.packets \in Seq(Packet) /\ u.byte_count \in Int
    BY DEF Ok, DataChannelRecord, PacketQueue
  <1>1. CASE u.byte_count >= kMaxQueuedSendDataBytes
    <2>1. QueueSendDataMessage(s, p) = Close(s)
      BY <1>1 DEF QueueSendDataMessage
    <2> QED
      BY <2>1, CloseDrops
  <1>2. CASE ~(u.byte_count >= kMaxQueuedSendDataBytes)
    <2>1. QueueSendDataMessage(s, p) = t
      BY <1>2 DEF QueueSendDataMessage
    <2>2. q \in PacketQueue
      BY <1>0, PushType
    <2>3. SendLimit(q)
      <3>1. u.byte_count < kMaxQueuedSendDataBytes
        BY <1>0, <1>2
      <3>2. SendLimit(u)
        BY DEF Ordered, Limits
      <3> HIDE DEF u
      <3> QED
        BY <1>0, <3>1, <3>2, PushIsBounded
    <2>4. q.packets = Append(u.packets, p)
      BY DEF Push
    <2> HIDE DEF q, u
    <2>5. Ok(t) /\ SameLife(s, t) /\ t.wire = s.wire /\ t.queued_send = q
      <3>1. t \in DataChannelRecord /\ SameLife(s, t) /\ t.wire = s.wire
            /\ t.queued_send = q /\ t.queued_control = s.queued_control
        BY <1>0, <2>2 DEF DataChannelRecord, SameLife
      <3> HIDE DEF t
      <3> QED
        BY <3>1, SameLifeIsOk
    <2> HIDE DEF t
    <2>6. Onward(s, t) /\ Alive(t) /\ Incoming(t, arr) /\ ReceiveLimit(t.queued_received)
      BY <2>5, SameLifeLasts DEF Ordered, Limits
    <2>7. Outgoing(t, sent + 1)
      <3>1. /\ Numbered(s.wire) /\ Follows(u.packets, s.wire)
            /\ DataCount(s.wire) + Len(u.packets) = sent
        BY DEF Ordered, Outgoing, u
      <3>2. DataCount(s.wire) \in Nat
        BY <1>0, DataPlacesFinite
      <3>3. Len(q.packets) = Len(u.packets) + 1 /\ Len(u.packets) \in Nat
            /\ DOMAIN q.packets = 1 .. Len(u.packets) + 1
            /\ DOMAIN u.packets = 1 .. Len(u.packets)
            /\ q.packets[Len(u.packets) + 1] = p
            /\ \A i \in 1 .. Len(u.packets) : q.packets[i] = u.packets[i]
        BY <1>0, <2>4
      <3>4. Follows(q.packets, s.wire)
        <4> SUFFICES ASSUME NEW i \in 1 .. Len(u.packets) + 1
                     PROVE  q.packets[i].n = DataCount(s.wire) + i
          BY <3>3 DEF Follows
        <4>1. CASE i = Len(u.packets) + 1
          <5>1. q.packets[i].n = sent + 1
            BY <3>3, <4>1
          <5>2. DataCount(s.wire) + i = sent + 1
            BY <3>1, <3>2, <3>3, <4>1
          <5> QED
            BY <5>1, <5>2
        <4>2. CASE i # Len(u.packets) + 1
          <5>1. i \in 1 .. Len(u.packets)
            BY <3>3, <4>2
          <5> QED
            BY <3>1, <3>3, <5>1 DEF Follows
        <4> QED
          BY <4>1, <4>2
      <3>5. DataCount(s.wire) + Len(q.packets) = sent + 1
        BY <3>1, <3>2, <3>3
      <3> QED
        BY <2>5, <3>1, <3>4, <3>5 DEF Outgoing
    <2>8. Ordered(t, sent + 1, arr)
      BY <2>3, <2>5, <2>6, <2>7 DEF Ordered, Limits
    <2> QED
      BY <2>1, <2>5, <2>6, <2>8, SameWire
  <1> QED
    BY <1>1, <1>2

\* A message that waits for nothing goes on the wire next.
LEMMA SendDataOrder ==
    ASSUME NEW s, Ok(s), Alive(s), s.state = "kOpen", Empty(s.queued_send),
           NEW sent \in Nat, NEW arr, Ordered(s, sent, arr), NEW p \in Packet, p.n = sent + 1,
           NEW r \in SendDataResult
    PROVE  LET t == SendDataMessage(s, p, r)
           IN /\ Onward(s, t) /\ Alive(t) /\ Ordered(t, sent + 1, arr)
              /\ SCTP /\ s.stream # "open" => SameData(s.wire, t.wire)
  <1> DEFINE x == DataOnWire(s, p)
             w == Append(s.wire, x)
             t == [s EXCEPT !.wire = w]
  <1>0. /\ s \in DataChannelRecord /\ s.wire \in Seq(WireMessage)
        /\ s.queued_send \in PacketQueue /\ s.queued_send.packets = <<>>
    BY DEF Ok, DataChannelRecord, Empty
  <1>1. x \in WireMessage /\ x.type = "DATA" /\ x.n = sent + 1
    BY <1>0, DataOnWireContract DEF DataOnWire
  <1>2. \/ SendDataMessage(s, p, r) = t /\ (SCTP => s.stream = "open")
        \/ RTP /\ SendDataMessage(s, p, r) = s
        \/ SCTP /\ SendDataMessage(s, p, r) = QueueSendDataMessage(s, p)
        \/ SCTP /\ SendDataMessage(s, p, r) = Close(s)
    BY DEF SendDataMessage, DataResult, SendDataResult
  <1> HIDE DEF x
  <1>3. w \in Seq(WireMessage)
    BY <1>0, <1>1
  <1>4. CASE SendDataMessage(s, p, r) = t /\ (SCTP => s.stream = "open")
    <2>1. Ok(t) /\ SameLife(s, t) /\ t.wire = w /\ t.queued_send = s.queued_send
      <3> HIDE DEF w
      <3>1. t \in DataChannelRecord /\ SameLife(s, t) /\ t.wire = w
            /\ t.queued_send = s.queued_send /\ t.queued_control = s.queued_control
        BY <1>0, <1>3 DEF DataChannelRecord, SameLife
      <3> HIDE DEF t
      <3> QED
        BY <1>0, <3>1, SameLifeIsOk
    <2> HIDE DEF t
    <2>2. Onward(s, t) /\ Alive(t) /\ Incoming(t, arr) /\ ReceiveLimit(t.queued_received)
      BY <2>1, SameLifeLasts DEF Ordered, Limits
    <2>3. Outgoing(t, sent + 1)
      <3> SUFFICES ASSUME SCTP PROVE Outgoing(t, sent + 1)
        BY DEF Outgoing
      <3>1. Numbered(s.wire) /\ DataCount(s.wire) + Len(s.queued_send.packets) = sent
        BY DEF Ordered, Outgoing
      <3>2. DataCount(s.wire) \in Nat /\ Len(s.queued_send.packets) = 0
        BY <1>0, DataPlacesFinite
      <3>3. w = s.wire \o <<x>>
        <4> DEFINE v == s.wire
        <4>1. v \in Seq(WireMessage)
          BY <1>0
        <4> HIDE DEF v
        <4>2. Append(v, x) = v \o <<x>>
          BY <1>1, <4>1, AppendIsConcat
        <4> QED
          BY <4>2 DEF v
      <3> DEFINE d == <<x>>
      <3>4. d \in Seq(WireMessage) /\ Len(d) = 1 /\ d[1] = x
        BY <1>1
      <3>5. \A i \in 1 .. Len(d) : d[i].type = "DATA" /\ d[i].n = DataCount(s.wire) + i
        BY <1>1, <3>1, <3>2, <3>4
      <3> HIDE DEF d
      <3>6. Numbered(s.wire \o d) /\ DataCount(s.wire \o d) = DataCount(s.wire) + Len(d)
        BY <1>0, <3>1, <3>4, <3>5, DataFollows
      <3>7. Numbered(w) /\ DataCount(w) = sent + 1
        BY <3>1, <3>2, <3>3, <3>4, <3>6 DEF d
      <3>8. Follows(s.queued_send.packets, w)
        BY <1>0 DEF Follows
      <3> HIDE DEF w
      <3> QED
        BY <2>1, <3>2, <3>7, <3>8 DEF Outgoing
    <2>4. Ordered(t, sent + 1, arr)
      BY <2>1, <2>2, <2>3 DEF Ordered, Limits
    <2> QED
      BY <1>4, <2>2, <2>4
  <1>5. CASE RTP /\ SendDataMessage(s, p, r) = s
    <2>1. SameLife(s, s)
      BY DEF SameLife
    <2>2. Onward(s, s)
      BY <2>1, SameLifeLasts
    <2>3. Ordered(s, sent + 1, arr)
      BY <1>5 DEF Ordered, Outgoing
    <2> QED
      BY <1>5, <2>2, <2>3
  <1>6. CASE SCTP /\ SendDataMessage(s, p, r) = QueueSendDataMessage(s, p)
    BY <1>6, QueueSendOrder
  <1>7. CASE SCTP /\ SendDataMessage(s, p, r) = Close(s)
    BY <1>7, CloseDrops
  <1> QED
    BY <1>2, <1>4, <1>5, <1>6, <1>7

\* Send keeps the order whatever waits and whatever the transport answers.
LEMMA SendOrQueueOrder ==
    ASSUME NEW s, Ok(s), Alive(s), s.state = "kOpen",
           NEW sent \in Nat, NEW arr, Ordered(s, sent, arr), NEW p \in Packet, p.n = sent + 1,
           NEW r \in SendDataResult
    PROVE  LET t == SendOrQueue(s, p, r)
           IN /\ Onward(s, t) /\ Alive(t) /\ Ordered(t, sent + 1, arr)
              /\ SCTP /\ s.stream # "open" => SameData(s.wire, t.wire)
  <1>1. CASE Empty(s.queued_send)
    <2>1. SendOrQueue(s, p, r) = SendDataMessage(s, p, r)
      BY <1>1 DEF SendOrQueue
    <2> QED
      BY <1>1, <2>1, SendDataOrder
  <1>2. CASE ~Empty(s.queued_send)
    <2>1. SCTP
      BY <1>2 DEF Ok, ByType, Empty
    <2>2. SendOrQueue(s, p, r) = QueueSendDataMessage(s, p)
      BY <1>2, <2>1 DEF SendOrQueue, Asserted
    <2> QED
      BY <2>1, <2>2, QueueSendOrder
  <1> QED
    BY <1>1, <1>2

-----------------------------------------------------------------------------
(* Receiving.                                                              *)

\* The members that receiving data leaves alone.
SameBut(s, t) ==
    /\ t.state = s.state /\ t.connected = s.connected /\ t.listed = s.listed
    /\ t.transport = s.transport /\ t.was_closed = s.was_closed /\ t.stream = s.stream
    /\ t.id = s.id /\ t.observer = s.observer /\ t.was_ever_writable = s.was_ever_writable
    /\ t.send_ssrc_set = s.send_ssrc_set /\ t.receive_ssrc_set = s.receive_ssrc_set
    /\ t.queued_control = s.queued_control
    /\ t.wire = s.wire /\ t.queued_send = s.queued_send

\* They are what the life of the channel and the data sent depend on.
LEMMA SameButLasts ==
    ASSUME NEW s, NEW t, SameBut(s, t)
    PROVE  /\ Onward(s, t) /\ SameData(s.wire, t.wire)
           /\ Wiring(s) => Wiring(t)
           /\ Idle(s) => Idle(t)
           /\ Reachable(s) => Reachable(t)
           /\ ByType(s) => ByType(t)
           /\ Revived(s) <=> Revived(t)
           /\ SendLimit(s.queued_send) => SendLimit(t.queued_send)
           /\ \A sent : Outgoing(s, sent) => Outgoing(t, sent)
  <1>1. Revived(s) <=> Revived(t)
    BY DEF SameBut, Revived
  <1>2. Onward(s, t)
    BY <1>1 DEF SameBut, Onward
  <1>3. Wiring(s) => Wiring(t)
    BY DEF SameBut, Wiring
  <1>4. (Idle(s) => Idle(t)) /\ (Reachable(s) => Reachable(t)) /\ (ByType(s) => ByType(t))
    BY DEF SameBut, Idle, Reachable, ByType
  <1>5. t.wire = s.wire /\ t.queued_send = s.queued_send /\ t.state = s.state
    BY DEF SameBut
  <1>6. SameData(s.wire, t.wire)
    BY <1>5, SameWire
  <1>7. \A sent : Outgoing(s, sent) => Outgoing(t, sent)
    BY <1>5 DEF Outgoing
  <1> QED
    BY <1>1, <1>2, <1>3, <1>4, <1>5, <1>6, <1>7

\* A message with the next number may follow.
LEMMA RisingAppend ==
    ASSUME NEW q \in Seq(Packet), NEW n \in Nat, Rising(q, n), NEW p \in Packet, p.n = n + 1
    PROVE  Rising(Append(q, p), n + 1) /\ Len(Append(q, p)) = Len(q) + 1
  <1> DEFINE z == Append(q, p)
             m == Len(q)
  <1>1. m \in Nat /\ DOMAIN q = 1 .. m /\ DOMAIN z = 1 .. m + 1 /\ Len(z) = m + 1
        /\ z[m + 1] = p /\ \A i \in 1 .. m : z[i] = q[i]
    OBVIOUS
  <1>2. \A i \in 1 .. m : q[i].n \in Nat
    <2>1. \A i \in 1 .. Len(q) : q[i] \in Packet
      BY ElementOfSeq
    <2>2. \A x \in Packet : x.n \in Nat
      BY DEF Packet
    <2> QED
      BY <2>1, <2>2
  <1> HIDE DEF z, m
  <1>3. \A i \in 1 .. m : q[i].n <= n
    BY <1>1 DEF Rising
  <1>4. \A i, j \in 1 .. m : i < j => q[i].n < q[j].n
    BY <1>1 DEF Rising
  <1>5. ASSUME NEW i \in 1 .. m + 1
        PROVE  z[i].n <= n + 1 /\ (i # m + 1 => i \in 1 .. m /\ z[i].n <= n /\ z[i] = q[i])
    <2>1. CASE i = m + 1
      BY <1>1, <2>1
    <2>2. CASE i # m + 1
      <3>1. i \in 1 .. m /\ z[i] = q[i]
        BY <1>1, <2>2
      <3>2. q[i].n <= n /\ q[i].n \in Nat
        BY <1>2, <1>3, <3>1
      <3> QED
        BY <3>1, <3>2
    <2> QED
      BY <2>1, <2>2
  <1>6. ASSUME NEW i \in 1 .. m + 1, NEW j \in 1 .. m + 1, i < j
        PROVE  z[i].n < z[j].n
    <2>1. i # m + 1
      BY <1>1, <1>6
    <2>2. i \in 1 .. m /\ z[i].n <= n /\ z[i] = q[i]
      BY <1>5, <2>1
    <2>3. CASE j = m + 1
      <3>1. z[j].n = n + 1 /\ z[i].n \in Nat
        BY <1>1, <1>2, <2>2, <2>3
      <3> QED
        BY <2>2, <3>1
    <2>4. CASE j # m + 1
      <3>1. j \in 1 .. m /\ z[j] = q[j]
        BY <1>5, <2>4
      <3> QED
        BY <1>4, <1>6, <2>2, <3>1
    <2> QED
      BY <2>3, <2>4
  <1> QED
    BY <1>1, <1>5, <1>6 DEF Rising, z, m

\* The first part of a rising sequence rises.
LEMMA RisingPrefix ==
    ASSUME NEW a \in Seq(Packet), NEW b \in Seq(Packet), NEW n \in Nat, Rising(a \o b, n)
    PROVE  Rising(a, n + 1)
  <1> DEFINE z == a \o b
  <1>1. DOMAIN a = 1 .. Len(a) /\ DOMAIN z = 1 .. Len(a) + Len(b)
        /\ Len(a) \in Nat /\ Len(b) \in Nat
        /\ \A i \in 1 .. Len(a) : z[i] = a[i]
    OBVIOUS
  <1>2. \A i \in 1 .. Len(a) : a[i].n \in Nat
    <2>1. \A i \in 1 .. Len(a) : a[i] \in Packet
      BY ElementOfSeq
    <2>2. \A x \in Packet : x.n \in Nat
      BY DEF Packet
    <2> QED
      BY <2>1, <2>2
  <1> HIDE DEF z
  <1>3. \A i \in 1 .. Len(a) : i \in DOMAIN z /\ z[i] = a[i]
    BY <1>1
  <1>4. \A i, j \in DOMAIN z : i < j => z[i].n < z[j].n
    BY DEF Rising, z
  <1>5. \A i \in DOMAIN z : z[i].n <= n
    BY DEF Rising, z
  <1>6. \A i, j \in DOMAIN a : i < j => a[i].n < a[j].n
    BY <1>1, <1>3, <1>4
  <1>7. ASSUME NEW i \in DOMAIN a
        PROVE  a[i].n <= n + 1
    <2>1. a[i].n <= n /\ a[i].n \in Nat
      BY <1>1, <1>2, <1>3, <1>5
    <2> QED
      BY <2>1
  <1> QED
    BY <1>6, <1>7 DEF Rising

\* Appending to the second part appends to the whole.
LEMMA ConcatAppend ==
    ASSUME NEW a \in Seq(Packet), NEW b \in Seq(Packet), NEW p \in Packet
    PROVE  a \o Append(b, p) = Append(a \o b, p)
  <1>1. Append(b, p) = b \o <<p>>
    BY AppendIsConcat
  <1> DEFINE z == a \o b
  <1>2. z \in Seq(Packet)
    OBVIOUS
  <1> HIDE DEF z
  <1>3. Append(z, p) = z \o <<p>>
    BY <1>2, AppendIsConcat
  <1>4. <<p>> \in Seq(Packet)
    OBVIOUS
  <1>5. (a \o b) \o <<p>> = a \o (b \o <<p>>)
    BY <1>4, ConcatAssociative
  <1> QED
    BY <1>1, <1>3, <1>5 DEF z

\* An OPEN_ACK changes nothing the order depends on.
LEMMA OnOpenAckSame ==
    ASSUME NEW s \in DataChannelRecord
    PROVE  LET t == OnOpenAck(s)
           IN /\ t \in DataChannelRecord /\ SameBut(s, t)
              /\ t.delivered = s.delivered /\ t.queued_received = s.queued_received
  <1> DEFINE t == [s EXCEPT !.waiting_for_open_ack = FALSE]
  <1>1. OnOpenAck(s) = t
    BY DEF OnOpenAck
  <1>2. t \in DataChannelRecord
    BY DEF DataChannelRecord
  <1>3. SameBut(s, t) /\ t.delivered = s.delivered /\ t.queued_received = s.queued_received
    BY DEF DataChannelRecord, SameBut
  <1> QED
    BY <1>1, <1>2, <1>3

\* A message is delivered at once only where none is queued before it.
LEMMA DeliverOrder ==
    ASSUME NEW s \in DataChannelRecord, Ok(s), Alive(s), s.connected,
           s.was_ever_writable, s.observer,
           NEW sent, NEW arr \in Nat, Ordered(s, sent, arr),
           NEW p \in Packet, p.n = arr + 1,
           NEW t \in DataChannelRecord, SameBut(s, t), t.delivered = Append(s.delivered, p),
           t.queued_received = s.queued_received
    PROVE  Onward(s, t) /\ Alive(t) /\ Ordered(t, sent, arr + 1) /\ SameData(s.wire, t.wire)
  <1>1. /\ Onward(s, t) /\ SameData(s.wire, t.wire) /\ Wiring(t) /\ Idle(t)
        /\ (Revived(s) <=> Revived(t)) /\ SendLimit(t.queued_send) /\ Outgoing(t, sent)
    BY SameButLasts DEF Alive, Ordered, Limits
  <1>2. NoBacklog(t)
    BY DEF Alive, NoBacklog, SameBut
  <1>3. Incoming(t, arr + 1)
    <2> SUFFICES ASSUME ~Revived(t) PROVE Incoming(t, arr + 1)
      BY DEF Incoming
    <2>1. ~s.was_closed /\ s.queued_received.packets = <<>>
      BY <1>1 DEF Revived, Alive, NoBacklog
    <2>2. s.delivered \in Seq(Packet) /\ Append(s.delivered, p) \in Seq(Packet)
      BY DEF DataChannelRecord
    <2>3. In(s) = s.delivered /\ In(t) = Append(s.delivered, p)
      BY <2>1, <2>2, ConcatEmptySeq DEF In
    <2>4. Rising(s.delivered, arr) /\ (SCTP => Len(s.delivered) = arr)
      BY <1>1, <2>1, <2>3 DEF Ordered, Incoming
    <2>5. Rising(In(t), arr + 1) /\ (SCTP => Len(In(t)) = arr + 1)
      BY <2>2, <2>3, <2>4, RisingAppend
    <2> QED
      BY <2>5 DEF Incoming
  <1>4. ReceiveLimit(t.queued_received)
    BY DEF Ordered, Limits
  <1> QED
    BY <1>1, <1>2, <1>3, <1>4 DEF Alive, Ordered, Limits

\* A message is queued behind what arrived before it.
LEMMA QueueOrder ==
    ASSUME NEW s \in DataChannelRecord, Ok(s), Alive(s), s.connected,
           ~(s.was_ever_writable /\ s.observer),
           NEW sent, NEW arr \in Nat, Ordered(s, sent, arr),
           NEW p \in Packet, p.n = arr + 1,
           ~(s.queued_received.byte_count + p.size > kMaxQueuedReceivedDataBytes),
           NEW t \in DataChannelRecord, SameBut(s, t), t.delivered = s.delivered,
           t.queued_received = Push(s.queued_received, p)
    PROVE  Onward(s, t) /\ Alive(t) /\ Ordered(t, sent, arr + 1) /\ SameData(s.wire, t.wire)
  <1> DEFINE q == s.queued_received
  <1>1. /\ Onward(s, t) /\ SameData(s.wire, t.wire) /\ Wiring(t) /\ Idle(t)
        /\ (Revived(s) <=> Revived(t)) /\ SendLimit(t.queued_send) /\ Outgoing(t, sent)
    BY SameButLasts DEF Alive, Ordered, Limits
  <1>2. NoBacklog(t)
    BY DEF NoBacklog, SameBut
  <1>3. /\ s.delivered \in Seq(Packet) /\ q \in PacketQueue /\ q.packets \in Seq(Packet)
        /\ q.byte_count \in Int
    BY DEF DataChannelRecord, PacketQueue
  <1>4. Push(q, p).packets = Append(q.packets, p) /\ Push(q, p).byte_count = q.byte_count + p.size
    BY DEF Push
  <1>5. Incoming(t, arr + 1)
    <2> SUFFICES ASSUME ~Revived(t) PROVE Incoming(t, arr + 1)
      BY DEF Incoming
    <2>1. ~s.was_closed
      BY <1>1 DEF Revived
    <2> DEFINE v == s.delivered \o q.packets
    <2>2. v \in Seq(Packet)
      BY <1>3
    <2>3. In(s) = v
      BY DEF In
    <2>4. In(t) = s.delivered \o Append(q.packets, p)
      BY <1>4 DEF In
    <2>5. In(t) = Append(v, p)
      <3> DEFINE a == s.delivered
                 b == q.packets
      <3>1. a \in Seq(Packet) /\ b \in Seq(Packet)
        BY <1>3
      <3> HIDE DEF a, b
      <3>2. a \o Append(b, p) = Append(a \o b, p)
        BY <3>1, ConcatAppend
      <3> QED
        BY <2>4, <3>2 DEF a, b
    <2> HIDE DEF v
    <2>6. Rising(v, arr) /\ (SCTP => Len(v) = arr)
      BY <1>1, <2>1, <2>3 DEF Ordered, Incoming
    <2>7. Rising(In(t), arr + 1) /\ (SCTP => Len(In(t)) = arr + 1)
      BY <2>2, <2>5, <2>6, RisingAppend
    <2> QED
      BY <2>7 DEF Incoming
  <1>6. ReceiveLimit(t.queued_received)
    <2>1. q.byte_count = TotalSize(q.packets)
      BY DEF Ordered, Limits, ReceiveLimit
    <2>2. TotalSize(Append(q.packets, p)) = TotalSize(q.packets) + p.size
      BY <1>3, TotalSizeAppend
    <2>3. p.size \in Nat /\ kMaxQueuedReceivedDataBytes \in Nat
      BY PacketSize, ConstantsOK
    <2>4. q.byte_count + p.size <= kMaxQueuedReceivedDataBytes
      BY <1>3, <2>3
    <2> QED
      BY <1>4, <2>1, <2>2, <2>4 DEF ReceiveLimit
  <1> QED
    BY <1>1, <1>2, <1>5, <1>6 DEF Alive, Ordered, Limits

\* Without room an RTP channel drops what it has queued, and an SCTP channel is closed.
LEMMA OverflowOrder ==
    ASSUME NEW s \in DataChannelRecord, Ok(s), Alive(s), s.connected,
           NEW sent, NEW arr \in Nat, Ordered(s, sent, arr),
           NEW c \in DataChannelRecord, SameBut(s, c), c.delivered = s.delivered,
           c.queued_received = EmptyQueue
    PROVE  LET t == IF RTP THEN c ELSE Close(c)
           IN Onward(s, t) /\ Alive(t) /\ Ordered(t, sent, arr + 1) /\ SameData(s.wire, t.wire)
  <1>1. /\ Onward(s, c) /\ SameData(s.wire, c.wire) /\ Wiring(c) /\ Idle(c)
        /\ Reachable(c) /\ ByType(c)
        /\ (Revived(s) <=> Revived(c)) /\ SendLimit(c.queued_send) /\ Outgoing(c, sent)
    BY SameButLasts DEF Alive, Ordered, Limits, Ok
  <1>2. c.queued_received.packets = <<>> /\ ReceiveLimit(c.queued_received)
    BY EmptyIsBounded DEF EmptyQueue
  <1>3. Alive(c)
    BY <1>1, <1>2 DEF NoBacklog, Alive
  <1>4. ~Revived(c) => Rising(In(c), arr + 1)
    <2> SUFFICES ASSUME ~Revived(c) PROVE Rising(In(c), arr + 1)
      OBVIOUS
    <2>1. s.delivered \in Seq(Packet) /\ s.queued_received.packets \in Seq(Packet)
      BY DEF DataChannelRecord, PacketQueue
    <2>2. In(c) = s.delivered
      BY <1>2, <2>1, ConcatEmptySeq DEF In
    <2>3. Rising(In(s), arr)
      BY <1>1 DEF Ordered, Incoming
    <2> QED
      BY <2>1, <2>2, <2>3, RisingPrefix DEF In
  <1>5. CASE RTP
    <2>1. Incoming(c, arr + 1)
      BY <1>4, <1>5 DEF Incoming
    <2>2. Ordered(c, sent, arr + 1)
      BY <1>1, <1>2, <2>1 DEF Ordered, Limits
    <2> QED
      BY <1>1, <1>3, <1>5, <2>2
  <1>6. CASE SCTP /\ c.state = "kClosed"
    <2>1. Close(c) = c
      BY <1>6 DEF Close
    <2>2. c.connected /\ c.was_closed
      BY <1>1, <1>6 DEF SameBut, Wiring
    <2>3. Incoming(c, arr + 1)
      BY <2>2 DEF Incoming, Revived
    <2>4. Ordered(c, sent, arr + 1)
      BY <1>1, <1>2, <2>3 DEF Ordered, Limits
    <2> QED
      BY <1>1, <1>3, <1>6, <2>1, <2>4
  <1>7. CASE SCTP /\ c.state # "kClosed"
    <2> DEFINE t == Close(c)
    <2>1. Shut(c, t)
      BY <1>1, <1>7, CloseShuts
    <2>2. Keeps(c, t) /\ Alive(t)
      BY <1>1, <1>3, CloseKeeps DEF Ok
    <2> HIDE DEF t
    <2>3. t.wire = c.wire /\ t.queued_send = c.queued_send /\ t.delivered = c.delivered
          /\ t.queued_received = c.queued_received /\ t.state = "kClosed" /\ t.was_closed
      BY <1>7, <2>1 DEF Shut, Carries
    <2>4. Outgoing(t, sent)
      BY <1>1, <2>3 DEF Outgoing
    <2>5. ~Revived(c)
      BY <1>1, <1>7 DEF Revived, Wiring
    <2>6. Incoming(t, arr + 1)
      BY <1>4, <2>3, <2>5 DEF Incoming, In
    <2>7. Ordered(t, sent, arr + 1)
      BY <1>1, <1>2, <2>3, <2>4, <2>6 DEF Ordered, Limits
    <2>8. Onward(s, t) /\ SameData(s.wire, t.wire)
      BY <1>1, <2>2, <2>3, OnwardTrans DEF Keeps
    <2> QED
      BY <1>7, <2>2, <2>7, <2>8 DEF t
  <1> QED
    BY <1>5, <1>6, <1>7

\* A message of the peer keeps the order, delivered, queued or one too many.
LEMMA OnDataReceivedOrder ==
    ASSUME NEW s, Ok(s), Alive(s), s.connected,
           NEW sent, NEW arr \in Nat, Ordered(s, sent, arr),
           NEW p \in Packet, p.n = arr + 1
    PROVE  LET t == OnDataReceived(s, p)
           IN Onward(s, t) /\ Alive(t) /\ Ordered(t, sent, arr + 1) /\ SameData(s.wire, t.wire)
  <1> DEFINE d == [s EXCEPT !.waiting_for_open_ack = FALSE]
             u == Append(d.delivered, p)
             q == Push(d.queued_received, p)
             t1 == [d EXCEPT !.delivered = u]
             t2 == [d EXCEPT !.queued_received = EmptyQueue]
             t3 == [d EXCEPT !.queued_received = q]
  <1>0. s \in DataChannelRecord
    BY DEF Ok
  <1>1. d \in DataChannelRecord /\ SameBut(s, d)
        /\ d.delivered = s.delivered /\ d.queued_received = s.queued_received
    BY <1>0, OnOpenAckSame DEF OnOpenAck
  <1>2. OnDataReceived(s, p) =
          IF s.was_ever_writable /\ s.observer THEN t1
          ELSE IF s.queued_received.byte_count + p.size > kMaxQueuedReceivedDataBytes
               THEN ReceiveOverflow(d) ELSE t3
    BY <1>1 DEF OnDataReceived
  <1>3. ReceiveOverflow(d) = IF RTP THEN t2 ELSE Close(t2)
    BY DEF ReceiveOverflow
  <1> HIDE DEF d
  <1>4. u \in Seq(Packet) /\ u = Append(s.delivered, p)
    BY <1>1 DEF DataChannelRecord
  <1>5. q \in PacketQueue /\ q = Push(s.queued_received, p)
    <2>1. d.queued_received \in PacketQueue
      BY <1>1 DEF DataChannelRecord
    <2> QED
      BY <1>1, <2>1, PushType
  <1>6. EmptyQueue \in PacketQueue
    BY DEF EmptyQueue, PacketQueue
  <1> HIDE DEF u, q
  <1>7. t1 \in DataChannelRecord /\ SameBut(d, t1) /\ t1.delivered = u
        /\ t1.queued_received = d.queued_received
    BY <1>1, <1>4 DEF DataChannelRecord, SameBut
  <1>8. t2 \in DataChannelRecord /\ SameBut(d, t2) /\ t2.delivered = d.delivered
        /\ t2.queued_received = EmptyQueue
    BY <1>1, <1>6 DEF DataChannelRecord, SameBut
  <1>9. t3 \in DataChannelRecord /\ SameBut(d, t3) /\ t3.delivered = d.delivered
        /\ t3.queued_received = q
    BY <1>1, <1>5 DEF DataChannelRecord, SameBut
  <1> HIDE DEF t1, t2, t3
  <1>10. SameBut(s, t1) /\ SameBut(s, t2) /\ SameBut(s, t3)
    BY <1>1, <1>7, <1>8, <1>9 DEF SameBut
  <1>11. CASE s.was_ever_writable /\ s.observer
    BY <1>0, <1>1, <1>2, <1>4, <1>7, <1>10, <1>11, DeliverOrder
  <1>12. CASE ~(s.was_ever_writable /\ s.observer)
              /\ s.queued_received.byte_count + p.size > kMaxQueuedReceivedDataBytes
    BY <1>0, <1>1, <1>2, <1>3, <1>8, <1>10, <1>12, OverflowOrder
  <1>13. CASE ~(s.was_ever_writable /\ s.observer)
              /\ ~(s.queued_received.byte_count + p.size > kMaxQueuedReceivedDataBytes)
    BY <1>0, <1>1, <1>2, <1>5, <1>9, <1>10, <1>13, QueueOrder
  <1> QED
    BY <1>11, <1>12, <1>13

-----------------------------------------------------------------------------
(* The session.                                                            *)

\* The members that are not about the wiring of the channel.
Rewired(s, t) ==
    /\ t.state = s.state /\ t.was_closed = s.was_closed
    /\ t.was_ever_writable = s.was_ever_writable
    /\ t.delivered = s.delivered /\ t.queued_received = s.queued_received
    /\ t.wire = s.wire /\ t.queued_send = s.queued_send

\* A call of the session neither sends nor receives.
LEMMA RewiredKeeps ==
    ASSUME NEW s, NEW t, Rewired(s, t), s.connected => t.connected,
           s.id >= 0 => t.id >= 0, t.listed => s.listed,
           ~s.listed /\ t.stream = "open" => s.stream = "open"
    PROVE  Keeps(s, t) /\ (Idle(s) => Idle(t))
  <1>1. Revived(s) => Revived(t)
    BY DEF Rewired, Revived
  <1>2. SameData(s.wire, t.wire) /\ In(t) = In(s)
    BY SameWire DEF Rewired, In
  <1>3. Onward(s, t)
    BY <1>1 DEF Rewired, Onward
  <1>4. Idle(s) => Idle(t)
    BY DEF Rewired, Idle
  <1> QED
    BY <1>2, <1>3, <1>4 DEF Rewired, Keeps

\* The stream of a channel without data, or of one that is listed, may change.
LEMMA StreamKeeps ==
    ASSUME NEW s \in DataChannelRecord, Alive(s), NEW v \in StreamState,
           v = "open" => s.listed \/ s.stream = "open"
    PROVE  LET t == [s EXCEPT !.stream = v]
           IN /\ Keeps(s, t) /\ Alive(t)
              /\ t.state = s.state /\ t.connected = s.connected /\ t.listed = s.listed
              /\ t.transport = s.transport /\ t.was_closed = s.was_closed
              /\ t.id = s.id /\ t.stream = v
  <1> DEFINE t == [s EXCEPT !.stream = v]
  <1>1. /\ Rewired(s, t) /\ t.connected = s.connected /\ t.id = s.id /\ t.listed = s.listed
        /\ t.transport = s.transport /\ t.observer = s.observer /\ t.stream = v
        /\ t.send_ssrc_set = s.send_ssrc_set /\ t.receive_ssrc_set = s.receive_ssrc_set
    BY DEF DataChannelRecord, Rewired
  <1> HIDE DEF t
  <1>2. Keeps(s, t) /\ Idle(t)
    BY <1>1, RewiredKeeps DEF Alive
  <1>3. Wiring(t) /\ NoBacklog(t)
    BY <1>1 DEF Alive, Rewired, Wiring, NoBacklog
  <1>4. t.state = s.state /\ t.was_closed = s.was_closed
    BY <1>1 DEF Rewired
  <1> QED
    BY <1>1, <1>2, <1>3, <1>4 DEF Alive, t

\* AddSctpDataStream opens the stream of a listed channel.
LEMMA AddStreamKeeps ==
    ASSUME NEW s \in DataChannelRecord, Alive(s), s.listed
    PROVE  Keeps(s, AddSctpDataStream(s)) /\ Alive(AddSctpDataStream(s))
  <1> DEFINE v == IF s.transport /\ s.stream = "none" THEN "open" ELSE s.stream
  <1>1. v \in StreamState
    BY DEF DataChannelRecord, StreamState
  <1>2. AddSctpDataStream(s) = [s EXCEPT !.stream = v]
    BY DEF AddSctpDataStream
  <1> HIDE DEF v
  <1> QED
    BY <1>1, <1>2, StreamKeeps

\* A transport comes to exist.
LEMMA TransportKeeps ==
    ASSUME NEW s \in DataChannelRecord, Alive(s)
    PROVE  LET t == [s EXCEPT !.transport = TRUE]
           IN /\ Keeps(s, t) /\ Alive(t)
              /\ t.state = s.state /\ t.listed = s.listed /\ t.id = s.id
  <1> DEFINE t == [s EXCEPT !.transport = TRUE]
  <1>1. /\ Rewired(s, t) /\ t.connected = s.connected /\ t.id = s.id /\ t.listed = s.listed
        /\ t.transport /\ t.observer = s.observer /\ t.stream = s.stream
        /\ t.send_ssrc_set = s.send_ssrc_set /\ t.receive_ssrc_set = s.receive_ssrc_set
    BY DEF DataChannelRecord, Rewired
  <1> HIDE DEF t
  <1>2. Keeps(s, t) /\ Idle(t)
    BY <1>1, RewiredKeeps DEF Alive
  <1>3. Wiring(t) /\ NoBacklog(t)
    BY <1>1 DEF Alive, Rewired, Wiring, NoBacklog
  <1>4. t.state = s.state
    BY <1>1 DEF Rewired
  <1> QED
    BY <1>1, <1>2, <1>3, <1>4 DEF Alive, t

\* A new transport connects a listed channel that waits for it, or that was closed.
LEMMA OnTransportCreatedKeeps ==
    ASSUME NEW s \in DataChannelRecord, Alive(s), SCTP, s.listed,
           s.state \in {"kConnecting", "kClosed"}
    PROVE  LET t == OnTransportChannelCreated(s)
           IN Keeps(s, t) /\ Alive(t) /\ t.connected = (s.connected \/ s.transport)
  <1> DEFINE c == IF s.connected THEN s ELSE ConnectDataChannel(s)
             t == OnTransportChannelCreated(s)
  <1>0. s.connected \in BOOLEAN /\ s.transport \in BOOLEAN
    BY DEF DataChannelRecord
  <1>1. /\ c \in DataChannelRecord /\ Keeps(s, c) /\ Alive(c) /\ c.listed
        /\ c.connected = (s.connected \/ s.transport)
    <2>1. CASE s.connected
      <3>1. SameLife(s, s)
        BY DEF SameLife
      <3>2. Keeps(s, s)
        BY <3>1, SameLifeLasts, SameWire DEF Keeps
      <3> QED
        BY <1>0, <2>1, <3>2
    <2>2. CASE ~s.connected
      <3>1. /\ c \in DataChannelRecord
            /\ c.state = s.state /\ c.connected = s.transport /\ c.listed = s.listed
            /\ c.transport = s.transport /\ c.was_closed = s.was_closed
            /\ c.observer = s.observer /\ c.was_ever_writable = s.was_ever_writable
            /\ Keeps(s, c)
        BY <2>2, ConnectWiring
      <3> HIDE DEF c
      <3>2. Wiring(c) /\ Idle(c)
        BY <3>1 DEF Alive, Wiring, Idle
      <3>3. NoBacklog(c)
        BY <3>1 DEF Alive, Wiring, Idle, NoBacklog
      <3> QED
        BY <1>0, <2>2, <3>1, <3>2, <3>3 DEF Alive
    <2> QED
      BY <2>1, <2>2
  <1>2. t = IF s.id >= 0 THEN AddSctpDataStream(c) ELSE c
    BY DEF OnTransportChannelCreated
  <1> HIDE DEF c, t
  <1>3. Keeps(c, AddSctpDataStream(c)) /\ Alive(AddSctpDataStream(c))
        /\ AddSctpDataStream(c).connected = c.connected
    <2>1. AddSctpDataStream(c).connected = c.connected
      BY <1>1 DEF AddSctpDataStream, DataChannelRecord
    <2> QED
      BY <1>1, <2>1, AddStreamKeeps
  <1>4. Keeps(s, AddSctpDataStream(c))
    BY <1>1, <1>3, KeepsTrans
  <1> QED
    BY <1>1, <1>2, <1>3, <1>4 DEF t

\* A listed channel gets its sid.
LEMMA SetSctpSidKeeps ==
    ASSUME NEW s \in DataChannelRecord, Alive(s), s.listed
    PROVE  Keeps(s, SetSctpSid(s)) /\ Alive(SetSctpSid(s)) /\ SetSctpSid(s).id = 0
           /\ SetSctpSid(s).state = s.state
  <1> DEFINE b == s.id < 0
             a == Asserted(s, "SetSctpSid", b)
             t == [a EXCEPT !.id = 0]
  <1>1. a \in DataChannelRecord /\ Steady(s, a)
    <2>1. b \in BOOLEAN /\ "SetSctpSid" \in AssertNames
      BY DEF AssertNames
    <2> HIDE DEF b
    <2> QED
      BY <2>1, AssertedSteady
  <1>2. SetSctpSid(s) = AddSctpDataStream(t)
    BY DEF SetSctpSid
  <1> HIDE DEF a
  <1>3. Keeps(s, a) /\ Alive(a) /\ a.listed /\ a.state = s.state
    BY <1>1, SteadyKeeps DEF Alive, Steady
  <1>4. /\ t \in DataChannelRecord /\ Rewired(a, t) /\ t.id = 0
        /\ t.connected = a.connected /\ t.listed = a.listed /\ t.stream = a.stream
        /\ t.transport = a.transport /\ t.observer = a.observer
        /\ t.send_ssrc_set = a.send_ssrc_set /\ t.receive_ssrc_set = a.receive_ssrc_set
    BY <1>1 DEF DataChannelRecord, Rewired
  <1> HIDE DEF t
  <1>5. Keeps(a, t) /\ Idle(t)
    BY <1>3, <1>4, RewiredKeeps DEF Alive
  <1>6. Wiring(t) /\ NoBacklog(t)
    BY <1>3, <1>4 DEF Alive, Rewired, Wiring, NoBacklog
  <1> DEFINE u == AddSctpDataStream(t)
  <1>7. Keeps(t, u) /\ Alive(u)
    BY <1>3, <1>4, <1>5, <1>6, AddStreamKeeps DEF Alive
  <1>8. u.id = t.id /\ u.state = t.state
    BY <1>4 DEF AddSctpDataStream, DataChannelRecord
  <1> HIDE DEF u
  <1>9. Keeps(s, u)
    BY <1>3, <1>5, <1>7, KeepsTrans
  <1>10. u.id = 0 /\ u.state = s.state
    BY <1>3, <1>4, <1>8 DEF Rewired
  <1> QED
    BY <1>2, <1>7, <1>9, <1>10 DEF u

\* SetSendSsrc may connect an RTP channel, open it or end its closing.
LEMMA SetSendSsrcKeeps ==
    ASSUME NEW s, Ok(s), Alive(s), RTP, s.listed, NEW ssrc \in {0, 1}
    PROVE  Keeps(s, SetSendSsrc(s, ssrc)) /\ Alive(SetSendSsrc(s, ssrc))
  <1> DEFINE t == [s EXCEPT !.send_ssrc = ssrc, !.send_ssrc_set = TRUE]
             u == UpdateState(t, "SDR_SUCCESS")
  <1>0. s \in DataChannelRecord /\ ByType(s) /\ Reachable(s)
    BY DEF Ok
  <1>1. /\ t \in DataChannelRecord /\ Rewired(s, t) /\ t.id = s.id
        /\ t.connected = s.connected /\ t.listed = s.listed /\ t.stream = s.stream
        /\ t.transport = s.transport /\ t.observer = s.observer /\ t.send_ssrc_set
        /\ t.receive_ssrc_set = s.receive_ssrc_set /\ t.queued_control = s.queued_control
    BY <1>0 DEF DataChannelRecord, Rewired
  <1>2. SetSendSsrc(s, ssrc) = IF s.send_ssrc_set THEN s ELSE u
    BY DEF SetSendSsrc
  <1>3. "SDR_SUCCESS" \in SendDataResult
    BY DEF SendDataResult
  <1> HIDE DEF t
  <1>4. Keeps(s, t)
    BY <1>1, RewiredKeeps
  <1>5. Wiring(t) /\ NoBacklog(t)
    BY <1>1 DEF Alive, Rewired, Wiring, NoBacklog
  <1>6. Ok(t)
    BY <1>0, <1>1 DEF Ok, ByType, Reachable, Rewired
  <1>7. Keeps(t, u) /\ Alive(u)
    BY <1>1, <1>3, <1>5, <1>6, UpdateStateKeeps
  <1> HIDE DEF u
  <1>8. Keeps(s, u)
    BY <1>4, <1>7, KeepsTrans
  <1>9. Keeps(s, s)
    <2>1. SameLife(s, s)
      BY DEF SameLife
    <2> QED
      BY <2>1, SameLifeLasts, SameWire DEF Keeps
  <1> QED
    BY <1>2, <1>7, <1>8, <1>9

\* SetReceiveSsrc does the same for the other SSRC.
LEMMA SetReceiveSsrcKeeps ==
    ASSUME NEW s, Ok(s), Alive(s), RTP, s.listed
    PROVE  Keeps(s, SetReceiveSsrc(s, 2)) /\ Alive(SetReceiveSsrc(s, 2))
  <1> DEFINE t == [s EXCEPT !.receive_ssrc = 2, !.receive_ssrc_set = TRUE]
             u == UpdateState(t, "SDR_SUCCESS")
  <1>0. s \in DataChannelRecord /\ ByType(s) /\ Reachable(s)
    BY DEF Ok
  <1>1. /\ t \in DataChannelRecord /\ Rewired(s, t) /\ t.id = s.id
        /\ t.connected = s.connected /\ t.listed = s.listed /\ t.stream = s.stream
        /\ t.transport = s.transport /\ t.observer = s.observer /\ t.receive_ssrc_set
        /\ t.send_ssrc_set = s.send_ssrc_set /\ t.queued_control = s.queued_control
    BY <1>0 DEF DataChannelRecord, Rewired
  <1>2. SetReceiveSsrc(s, 2) = IF s.receive_ssrc_set THEN s ELSE u
    BY DEF SetReceiveSsrc
  <1>3. "SDR_SUCCESS" \in SendDataResult
    BY DEF SendDataResult
  <1> HIDE DEF t
  <1>4. Keeps(s, t)
    BY <1>1, RewiredKeeps
  <1>5. Wiring(t) /\ NoBacklog(t)
    BY <1>1 DEF Alive, Rewired, Wiring, NoBacklog
  <1>6. Ok(t)
    BY <1>0, <1>1 DEF Ok, ByType, Reachable, Rewired
  <1>7. Keeps(t, u) /\ Alive(u)
    BY <1>1, <1>3, <1>5, <1>6, UpdateStateKeeps
  <1> HIDE DEF u
  <1>8. Keeps(s, u)
    BY <1>4, <1>7, KeepsTrans
  <1>9. Keeps(s, s)
    <2>1. SameLife(s, s)
      BY DEF SameLife
    <2> QED
      BY <2>1, SameLifeLasts, SameWire DEF Keeps
  <1> QED
    BY <1>2, <1>7, <1>8, <1>9

\* A closed channel leaves the list.
LEMMA DropClosedKeeps ==
    ASSUME NEW s \in DataChannelRecord, Alive(s)
    PROVE  Keeps(s, DropClosed(s)) /\ Alive(DropClosed(s))
  <1> DEFINE b == s.listed /\ s.state # "kClosed"
             t == [s EXCEPT !.listed = b]
  <1>1. DropClosed(s) = t
    BY DEF DropClosed
  <1>2. /\ Rewired(s, t) /\ t.connected = s.connected /\ t.id = s.id /\ t.listed = b
        /\ t.transport = s.transport /\ t.observer = s.observer /\ t.stream = s.stream
        /\ t.send_ssrc_set = s.send_ssrc_set /\ t.receive_ssrc_set = s.receive_ssrc_set
    <2> HIDE DEF b
    <2> QED
      BY DEF DataChannelRecord, Rewired
  <1> HIDE DEF t
  <1>3. Keeps(s, t) /\ Idle(t)
    BY <1>2, RewiredKeeps DEF Alive
  <1>4. Wiring(t) /\ NoBacklog(t)
    BY <1>2 DEF Alive, Rewired, Wiring, NoBacklog
  <1> QED
    BY <1>1, <1>3, <1>4 DEF Alive

\* The engine goes and every listed channel with it.
LEMMA OnDataChannelCloseKeeps ==
    ASSUME NEW s \in DataChannelRecord, Alive(s)
    PROVE  LET t == OnDataChannelClose(s)
           IN /\ t \in DataChannelRecord /\ Keeps(s, t) /\ Alive(t) /\ ~t.listed
              /\ t.state = s.state \/ t.state = "kClosed"
  <1>1. CASE ~s.listed
    <2>1. OnDataChannelClose(s) = s
      BY <1>1 DEF OnDataChannelClose
    <2>2. SameLife(s, s)
      BY DEF SameLife
    <2>3. Keeps(s, s)
      BY <2>2, SameLifeLasts, SameWire DEF Keeps
    <2> QED
      BY <1>1, <2>1, <2>3
  <1>2. CASE s.listed
    <2> DEFINE z == [s EXCEPT !.listed = FALSE]
               t == DoClose(z)
    <2>1. /\ z \in DataChannelRecord /\ Rewired(s, z) /\ z.connected = s.connected
          /\ z.id = s.id /\ ~z.listed
          /\ z.transport = s.transport /\ z.observer = s.observer /\ z.stream = s.stream
          /\ z.send_ssrc_set = s.send_ssrc_set /\ z.receive_ssrc_set = s.receive_ssrc_set
      BY DEF DataChannelRecord, Rewired
    <2>2. OnDataChannelClose(s) = t
      BY <1>2 DEF OnDataChannelClose
    <2> HIDE DEF z
    <2>3. Keeps(s, z) /\ Idle(z)
      BY <2>1, RewiredKeeps DEF Alive
    <2>4. Wiring(z) /\ NoBacklog(z)
      BY <2>1 DEF Alive, Rewired, Wiring, NoBacklog
    <2>5. t \in DataChannelRecord /\ t.state = "kClosed"
      BY <2>1, DoCloseContract
    <2>6. Keeps(z, t) /\ Alive(t) /\ ~t.listed
      <3>1. CASE z.state = "kClosed"
        <4>1. t = z
          BY <3>1 DEF DoClose
        <4>2. SameLife(z, z)
          BY DEF SameLife
        <4>3. Keeps(z, z)
          BY <4>2, SameLifeLasts, SameWire DEF Keeps
        <4> QED
          BY <2>1, <2>3, <2>4, <4>1, <4>3 DEF Alive
      <3>2. CASE z.state # "kClosed"
        <4>1. Shut(z, t)
          BY <2>1, <3>2, DoCloseShuts
        <4> HIDE DEF t
        <4>2. Keeps(z, t) /\ Alive(t)
          BY <2>4, <3>2, <4>1, ShutKeeps
        <4> QED
          BY <2>1, <4>1, <4>2 DEF Shut
      <3> QED
        BY <3>1, <3>2
    <2> HIDE DEF t
    <2>7. Keeps(s, t)
      BY <2>3, <2>6, KeepsTrans
    <2> QED
      BY <2>2, <2>5, <2>6, <2>7
  <1> QED
    BY <1>1, <1>2

\* Then the transport goes.
LEMMA TransportGoneKeeps ==
    ASSUME NEW s \in DataChannelRecord, Alive(s), ~s.listed
    PROVE  LET t == [s EXCEPT !.transport = FALSE, !.stream = "none"]
           IN Keeps(s, t) /\ Alive(t) /\ t.state = s.state
  <1> DEFINE t == [s EXCEPT !.transport = FALSE, !.stream = "none"]
  <1>1. /\ Rewired(s, t) /\ t.connected = s.connected /\ t.id = s.id /\ t.listed = s.listed
        /\ t.observer = s.observer /\ t.stream = "none"
        /\ t.send_ssrc_set = s.send_ssrc_set /\ t.receive_ssrc_set = s.receive_ssrc_set
    BY DEF DataChannelRecord, Rewired
  <1> HIDE DEF t
  <1>2. Keeps(s, t) /\ Idle(t)
    BY <1>1, RewiredKeeps DEF Alive
  <1>3. Wiring(t) /\ NoBacklog(t)
    BY <1>1 DEF Alive, Rewired, Wiring, NoBacklog
  <1>4. t.state = s.state
    BY <1>1 DEF Rewired
  <1> QED
    BY <1>2, <1>3, <1>4 DEF Alive, t

\* A new observer gets what waits for it.
LEMMA RegisterKeeps ==
    ASSUME NEW s \in DataChannelRecord, Alive(s)
    PROVE  LET t == DeliverQueuedReceivedData([s EXCEPT !.observer = TRUE])
           IN Keeps(s, t) /\ Alive(t) /\ t.state = s.state
  <1> DEFINE z == [s EXCEPT !.observer = TRUE]
             t == DeliverQueuedReceivedData(z)
  <1>1. /\ z \in DataChannelRecord /\ Rewired(s, z) /\ z.observer
        /\ z.connected = s.connected /\ z.id = s.id /\ z.listed = s.listed
        /\ z.transport = s.transport /\ z.stream = s.stream
        /\ z.send_ssrc_set = s.send_ssrc_set /\ z.receive_ssrc_set = s.receive_ssrc_set
    BY DEF DataChannelRecord, Rewired
  <1> HIDE DEF z
  <1>2. Keeps(s, z) /\ Idle(z)
    BY <1>1, RewiredKeeps DEF Alive
  <1>3. Wiring(z)
    BY <1>1 DEF Alive, Rewired, Wiring
  <1>4. /\ t.state = z.state /\ t.connected = z.connected /\ t.listed = z.listed
        /\ t.transport = z.transport /\ t.was_closed = z.was_closed
        /\ t.stream = z.stream /\ t.id = z.id /\ t.observer = z.observer
        /\ t.was_ever_writable = z.was_ever_writable
        /\ t.send_ssrc_set = z.send_ssrc_set /\ t.receive_ssrc_set = z.receive_ssrc_set
        /\ t.wire = z.wire /\ t.queued_send = z.queued_send
        /\ In(t) = In(z) /\ t.queued_received \in {z.queued_received, EmptyQueue}
        /\ z.was_ever_writable /\ z.observer => t.queued_received.packets = <<>>
    BY <1>1, DeliverWiring
  <1> HIDE DEF t
  <1>5. Keeps(z, t)
    <2>1. Revived(z) => Revived(t)
      BY <1>4 DEF Revived
    <2>2. Onward(z, t)
      BY <1>4, <2>1 DEF Onward
    <2> QED
      BY <1>4, <2>2, SameWire DEF Keeps
  <1>6. Alive(t)
    BY <1>1, <1>2, <1>3, <1>4 DEF Alive, Wiring, Idle, NoBacklog
  <1>7. Keeps(s, t)
    BY <1>2, <1>5, KeepsTrans
  <1> QED
    BY <1>1, <1>4, <1>6, <1>7 DEF Rewired, t, z

\* Without an observer nothing is delivered.
LEMMA UnregisterKeeps ==
    ASSUME NEW s \in DataChannelRecord, Alive(s)
    PROVE  LET t == [s EXCEPT !.observer = FALSE]
           IN Keeps(s, t) /\ Alive(t) /\ t.state = s.state
  <1> DEFINE t == [s EXCEPT !.observer = FALSE]
  <1>1. /\ Rewired(s, t) /\ ~t.observer
        /\ t.connected = s.connected /\ t.id = s.id /\ t.listed = s.listed
        /\ t.transport = s.transport /\ t.stream = s.stream
        /\ t.send_ssrc_set = s.send_ssrc_set /\ t.receive_ssrc_set = s.receive_ssrc_set
    BY DEF DataChannelRecord, Rewired
  <1> HIDE DEF t
  <1>2. Keeps(s, t) /\ Idle(t)
    BY <1>1, RewiredKeeps DEF Alive
  <1>3. Wiring(t) /\ NoBacklog(t)
    BY <1>1 DEF Alive, Rewired, Wiring, NoBacklog
  <1>4. t.state = s.state
    BY <1>1 DEF Rewired
  <1> QED
    BY <1>2, <1>3, <1>4 DEF Alive, t

\* No call of the peer or the application but Send and a ready signal makes a channel open.
LEMMA ClosesOrStays ==
    ASSUME NEW s \in DataChannelRecord
    PROVE  /\ Close(s).state = s.state \/ Close(s).state # "kOpen"
           /\ \A p \in Packet : OnDataReceived(s, p).state = s.state
                                \/ OnDataReceived(s, p).state # "kOpen"
  <1>1. \A c \in DataChannelRecord : Close(c).state = c.state \/ Close(c).state # "kOpen"
    BY CloseContract DEF Off
  <1> SUFFICES ASSUME NEW p \in Packet
               PROVE  OnDataReceived(s, p).state = s.state \/ OnDataReceived(s, p).state # "kOpen"
    BY <1>1
  <1> DEFINE d == [s EXCEPT !.waiting_for_open_ack = FALSE]
             t1 == [d EXCEPT !.delivered = Append(d.delivered, p)]
             t2 == [d EXCEPT !.queued_received = EmptyQueue]
             q == Push(d.queued_received, p)
             t3 == [d EXCEPT !.queued_received = q]
  <1>2. d \in DataChannelRecord /\ d.state = s.state
    BY DEF DataChannelRecord
  <1>3. OnDataReceived(s, p) \in {t1, t2, Close(t2), t3}
    BY <1>2 DEF OnDataReceived, ReceiveOverflow, DataChannelRecord
  <1> HIDE DEF d, q
  <1>4. EmptyQueue \in PacketQueue
    BY DEF EmptyQueue, PacketQueue
  <1>5. t2 \in DataChannelRecord /\ t1.state = d.state /\ t2.state = d.state /\ t3.state = d.state
    BY <1>2, <1>4 DEF DataChannelRecord
  <1> HIDE DEF t1, t2, t3
  <1>6. Close(t2).state = t2.state \/ Close(t2).state # "kOpen"
    BY <1>1, <1>5
  <1> QED
    BY <1>2, <1>3, <1>5, <1>6

-----------------------------------------------------------------------------
(* The inductive invariant.                                                *)

\* A MSG_CHANNELREADY in the queue finds the channel connected, or past kConnecting.
NotLost == posted => dc.state # "kConnecting" \/ dc.connected

\* The invariant of DataChannelProofs and what is said here of the record.
OrderInv == IndInv /\ Alive(dc) /\ NotLost /\ Ordered(dc, sends, arrived)

\* A channel that was closed and sends nothing: an SCTP channel that reopened after
\* its OPEN message failed has lost its stream.
Silenced(s) == s.was_closed /\ (SCTP /\ s.state = "kOpen" => s.stream # "open")

\* What a step does to the channel and its traffic.
OrderlyStep ==
    /\ Onward(dc, dc') /\ Alive(dc') /\ Ordered(dc', sends', arrived')
    /\ posted' => posted
    /\ Silenced(dc) => SameData(dc.wire, dc'.wire)
    /\ SCTP /\ dc.state = "kConnecting" /\ dc'.state = "kOpen" =>
         posted \/ (roleKnown /\ dc.listed)
    /\ SCTP /\ roleKnown' /\ ~roleKnown /\ dc.listed /\ FALSE \notin AllocResults => dc'.id >= 0

\* A channel fresh from its constructor has no traffic.
LEMMA ConstructedIsOrdered ==
    ASSUME NEW role \in {"kOpener", "kAcker", "kNone"}, NEW ordered \in BOOLEAN,
           NEW id \in {-1, 0}, NEW transport \in BOOLEAN, NEW stream \in StreamState
    PROVE  LET s == Constructed(role, ordered, id, transport, stream)
           IN /\ s \in DataChannelRecord /\ Alive(s) /\ Ordered(s, 0, 0)
              /\ s.listed /\ s.state = "kConnecting" /\ ~s.connected /\ ~s.was_closed
              /\ s.id = id /\ s.transport = transport
  <1> DEFINE s == Constructed(role, ordered, id, transport, stream)
  <1>1. s \in DataChannelRecord
    BY ConstructedIsGood DEF Good, Almost
  <1>2. /\ s.state = "kConnecting" /\ ~s.observer /\ ~s.connected /\ s.listed
        /\ ~s.was_closed /\ ~s.was_ever_writable /\ s.id = id /\ s.transport = transport
        /\ s.queued_send = EmptyQueue /\ s.queued_received = EmptyQueue
        /\ s.wire = <<>> /\ s.delivered = <<>>
    BY DEF Constructed
  <1> HIDE DEF s
  <1>3. Alive(s)
    BY <1>2 DEF Alive, Wiring, Idle, NoBacklog
  <1>4. EmptyQueue.packets = <<>> /\ Len(<<>>) = 0 /\ DOMAIN <<>> = {}
    BY DEF EmptyQueue
  <1>5. In(s) = <<>>
    BY <1>2, <1>4 DEF In
  <1>6. DataPlaces(s.wire) = {} /\ DataCount(s.wire) = 0
    BY <1>2, <1>4, FS_EmptySet DEF DataPlaces, DataCount
  <1>7. Limits(s)
    BY <1>2, EmptyIsBounded DEF Limits
  <1>8. Outgoing(s, 0)
    BY <1>2, <1>4, <1>6 DEF Outgoing, Numbered, Follows
  <1>9. Incoming(s, 0)
    BY <1>4, <1>5 DEF Incoming, Rising
  <1> QED
    BY <1>1, <1>2, <1>3, <1>7, <1>8, <1>9 DEF s, Ordered

\* What the constructor and Init leave, with the sid it has when the role is known.
LEMMA InitIsOrdered ==
    Init => OrderInv /\ ~dc.was_closed /\ (SCTP /\ roleKnown => dc.id >= 0)
                     /\ (posted => roleKnown)
  <1> SUFFICES ASSUME Init
               PROVE  OrderInv /\ ~dc.was_closed /\ (SCTP /\ roleKnown => dc.id >= 0)
                               /\ (posted => roleKnown)
    OBVIOUS
  <1>1. PICK role \in Roles, ordered \in BOOLEAN, transport \in BOOLEAN, stale \in BOOLEAN,
             known \in BOOLEAN, id \in {-1, 0} :
          /\ dc = CreateDataChannel(role, ordered, id, transport, stale)
          /\ roleKnown = known
          /\ known => transport /\ id = 0
    BY DEF Init
  <1> DEFINE v == IF stale THEN "closing" ELSE "none"
             s == Constructed(role, ordered, id, transport, v)
  <1>2. v \in StreamState /\ role \in {"kOpener", "kAcker", "kNone"}
    BY DEF StreamState
  <1>3. /\ s \in DataChannelRecord /\ Alive(s) /\ Ordered(s, 0, 0)
        /\ s.listed /\ s.state = "kConnecting" /\ ~s.connected /\ ~s.was_closed
        /\ s.id = id /\ s.transport = transport
    <2> HIDE DEF v
    <2> QED BY <1>2, ConstructedIsOrdered
  <1>4. dc = IF SCTP THEN OnTransportChannelCreated(s) ELSE s
    BY <1>1 DEF CreateDataChannel
  <1> HIDE DEF s
  <1>5. SCTP => /\ Keeps(s, dc) /\ Alive(dc) /\ dc.connected = transport
                /\ dc.was_closed = s.was_closed
    <2>1. SCTP => Keeps(s, dc) /\ Alive(dc) /\ dc.connected = (s.connected \/ s.transport)
      BY <1>3, <1>4, OnTransportCreatedKeeps
    <2>2. OnTransportChannelCreated(s).was_closed = s.was_closed
      BY <1>3 DEF OnTransportChannelCreated, ConnectDataChannel, AddSctpDataStream,
                  DataChannelRecord
    <2> QED BY <1>3, <1>4, <2>1, <2>2
  <1>6. Alive(dc) /\ ~dc.was_closed
    BY <1>3, <1>4, <1>5
  <1>7. Ordered(dc, 0, 0)
    BY <1>3, <1>4, <1>5, KeepsOrder DEF Alive
  <1>8. /\ sends = 0 /\ arrived = 0 /\ posted = (SCTP /\ ready)
        /\ ready => (SCTP => roleKnown)
    BY DEF Init, PostsChannelReady
  <1>9. NotLost /\ (posted => roleKnown)
    BY <1>1, <1>5, <1>8 DEF NotLost
  <1>10. SCTP /\ roleKnown => dc.id >= 0
    <2>1. roleKnown => s.id >= 0
      BY <1>1, <1>3
    <2>2. SCTP => (s.id >= 0 => dc.id >= 0)
      BY <1>5 DEF Keeps, Onward
    <2> QED BY <2>1, <2>2
  <1> QED
    BY <1>6, <1>7, <1>8, <1>9, <1>10, InitIsGood DEF OrderInv

\* A step that neither sends nor receives data.
LEMMA KeepingStep ==
    ASSUME OrderInv, Keeps(dc, dc'), Alive(dc'), sends' = sends, arrived' = arrived,
           posted' => posted, roleKnown' => roleKnown,
           SCTP /\ dc.state = "kConnecting" /\ dc'.state = "kOpen" =>
             posted \/ (roleKnown /\ dc.listed)
    PROVE  OrderlyStep
  <1>1. dc \in DataChannelRecord /\ Wiring(dc)
    BY DEF OrderInv, IndInv, TypeOK, Alive
  <1>2. Ordered(dc', sends', arrived')
    BY <1>1, KeepsOrder DEF OrderInv
  <1> QED
    BY <1>2 DEF OrderlyStep, Keeps

\* What the session's calls leave of a channel they wire.
LEMMA TransportCreatedSame ==
    ASSUME NEW s \in DataChannelRecord
    PROVE  LET t == OnTransportChannelCreated(s)
           IN t.state = s.state /\ t.listed = s.listed /\ t.id = s.id
  BY DEF OnTransportChannelCreated, ConnectDataChannel, AddSctpDataStream, DataChannelRecord

\* Every action is an orderly step.
LEMMA NextIsOrderly == OrderInv /\ [Next]_vars => OrderlyStep
  <1> SUFFICES ASSUME OrderInv, [Next]_vars PROVE OrderlyStep
    OBVIOUS
  <1> USE DEF env
  <1>0. /\ Good(dc, heard) /\ Ok(dc) /\ dc \in DataChannelRecord /\ heard \in BOOLEAN
        /\ sends \in Nat /\ arrived \in Nat /\ (posted => SCTP)
        /\ Alive(dc) /\ Wiring(dc) /\ NotLost /\ Ordered(dc, sends, arrived) /\ Reachable(dc)
    BY GoodIsOk DEF OrderInv, IndInv, TypeOK, Good, Almost, Alive
  <1>1. CASE RegisterObserver
    <2>1. Keeps(dc, dc') /\ Alive(dc') /\ dc'.state = dc.state
      BY <1>0, <1>1, RegisterKeeps DEF RegisterObserver
    <2> QED BY <1>1, <2>1, KeepingStep DEF RegisterObserver
  <1>2. CASE UnregisterObserver
    <2>1. Keeps(dc, dc') /\ Alive(dc') /\ dc'.state = dc.state
      BY <1>0, <1>2, UnregisterKeeps DEF UnregisterObserver
    <2> QED BY <1>2, <2>1, KeepingStep DEF UnregisterObserver
  <1>3. CASE AppClose
    <2>1. Keeps(dc, dc') /\ Alive(dc') /\ (dc'.state = dc.state \/ dc'.state # "kOpen")
      BY <1>0, <1>3, CloseKeeps, ClosesOrStays DEF AppClose
    <2> QED BY <1>3, <2>1, KeepingStep DEF AppClose
  <1>4. ASSUME NEW size \in Sizes, NEW r \in SendDataResult, Send(size, r)
        PROVE  OrderlyStep
    <2> DEFINE p == [n |-> sends', size |-> size]
    <2>1. p \in Packet /\ p.n = sends + 1 /\ sends' = sends + 1
      BY <1>0, <1>4 DEF Send, Packet
    <2>2. dc.state = "kOpen" /\ dc' = SendOrQueue(dc, p, r)
      BY <1>4 DEF Send, SendAllowed
    <2> HIDE DEF p
    <2>3. /\ Onward(dc, dc') /\ Alive(dc') /\ Ordered(dc', sends + 1, arrived)
          /\ SCTP /\ dc.stream # "open" => SameData(dc.wire, dc'.wire)
      BY <1>0, <2>1, <2>2, SendOrQueueOrder
    <2>4. Silenced(dc) => SCTP /\ dc.stream # "open"
      BY <1>0, <2>2 DEF Silenced, Wiring
    <2>5. arrived' = arrived /\ posted' = posted /\ roleKnown' = roleKnown
      BY <1>4 DEF Send
    <2> QED BY <2>1, <2>2, <2>3, <2>4, <2>5 DEF OrderlyStep
  <1>5. ASSUME NEW r1 \in SendDataResult, NEW r2 \in SendDataResult,
               NEW k \in 0 .. Len(dc.queued_send.packets), OnMessage(r1, r2, k)
        PROVE  OrderlyStep
    <2>1. posted /\ SCTP /\ (dc.state = "kConnecting" => dc.connected)
      BY <1>0, <1>5 DEF OnMessage, NotLost
    <2>2. dc' = OnChannelReady(dc, r1, r2, k)
      BY <1>5 DEF OnMessage
    <2>3. /\ Onward(dc, dc') /\ Alive(dc') /\ Ordered(dc', sends, arrived)
          /\ (SCTP /\ dc.state = "kOpen" => dc.stream # "open") => SameData(dc.wire, dc'.wire)
      BY <1>0, <2>1, <2>2, OnChannelReadyOrder
    <2>4. /\ sends' = sends /\ arrived' = arrived /\ posted' = FALSE /\ roleKnown' = roleKnown
      BY <1>5 DEF OnMessage
    <2> QED BY <2>1, <2>3, <2>4 DEF OrderlyStep, Silenced
  <1>6. ASSUME NEW r1 \in SendDataResult, NEW r2 \in SendDataResult,
               NEW k \in 0 .. Len(dc.queued_send.packets), ReadyToSendData(r1, r2, k)
        PROVE  OrderlyStep
    <2>1. /\ dc.connected /\ (SCTP => roleKnown)
          /\ dc.state = "kConnecting" => dc.listed
      BY <1>0, <1>6 DEF ReadyToSendData, Reachable
    <2>2. dc' = OnChannelReady(dc, r1, r2, k)
      BY <1>6 DEF ReadyToSendData
    <2>3. /\ Onward(dc, dc') /\ Alive(dc') /\ Ordered(dc', sends, arrived)
          /\ (SCTP /\ dc.state = "kOpen" => dc.stream # "open") => SameData(dc.wire, dc'.wire)
      BY <1>0, <2>1, <2>2, OnChannelReadyOrder
    <2>4. /\ sends' = sends /\ arrived' = arrived /\ posted' = posted /\ roleKnown' = roleKnown
      BY <1>6 DEF ReadyToSendData
    <2> QED BY <2>1, <2>3, <2>4 DEF OrderlyStep, Silenced
  <1>7. CASE ReceiveOpenAck
    <2>1. dc' = OnOpenAck(dc)
      BY <1>7 DEF ReceiveOpenAck
    <2>2. /\ SameBut(dc, dc')
          /\ dc'.delivered = dc.delivered /\ dc'.queued_received = dc.queued_received
      BY <1>0, <2>1, OnOpenAckSame
    <2>3. Steady(dc, dc') /\ dc'.state = dc.state
      BY <2>2, SameButLasts DEF Steady, SameBut
    <2>4. Keeps(dc, dc') /\ Alive(dc')
      BY <1>0, <2>3, SteadyKeeps DEF Alive
    <2> QED BY <1>7, <2>3, <2>4, KeepingStep DEF ReceiveOpenAck
  <1>8. ASSUME NEW size \in Sizes, ReceiveData(size)
        PROVE  OrderlyStep
    <2> DEFINE p == [n |-> arrived', size |-> size]
    <2>1. p \in Packet /\ p.n = arrived + 1 /\ arrived' = arrived + 1
      BY <1>0, <1>8 DEF ReceiveData, Packet
    <2>2. dc.connected /\ dc' = OnDataReceived(dc, p)
      BY <1>8 DEF ReceiveData, PeerMaySend
    <2> HIDE DEF p
    <2>3. /\ Onward(dc, dc') /\ Alive(dc') /\ Ordered(dc', sends, arrived + 1)
          /\ SameData(dc.wire, dc'.wire)
      BY <1>0, <2>1, <2>2, OnDataReceivedOrder
    <2>4. dc'.state = dc.state \/ dc'.state # "kOpen"
      BY <1>0, <2>1, <2>2, ClosesOrStays
    <2>5. sends' = sends /\ posted' = posted /\ roleKnown' = roleKnown
      BY <1>8 DEF ReceiveData
    <2> QED BY <2>1, <2>3, <2>4, <2>5 DEF OrderlyStep
  <1>9. CASE OnStreamClosedRemotely
    <2>1. dc' = [dc EXCEPT !.stream = "none"] /\ "none" \in StreamState /\ "none" # "open"
      BY <1>9 DEF OnStreamClosedRemotely, StreamState
    <2>2. Keeps(dc, dc') /\ Alive(dc') /\ dc'.state = dc.state
      BY <1>0, <2>1, StreamKeeps
    <2> QED BY <1>9, <2>2, KeepingStep DEF OnStreamClosedRemotely
  <1>10. CASE OnRemoteSctpDataChannelClosed
    <2>1. dc' \in {dc, Close(dc)}
      BY <1>10 DEF OnRemoteSctpDataChannelClosed, CloseListed
    <2>2. Keeps(dc, dc)
      BY SameWire DEF Keeps, Onward
    <2>3. Keeps(dc, dc') /\ Alive(dc') /\ (dc'.state = dc.state \/ dc'.state # "kOpen")
      BY <1>0, <2>1, <2>2, CloseKeeps, ClosesOrStays
    <2> QED BY <1>10, <2>3, KeepingStep DEF OnRemoteSctpDataChannelClosed
  <1>11. CASE ResetAcknowledged
    <2>1. dc' = [dc EXCEPT !.stream = "none"] /\ "none" \in StreamState /\ "none" # "open"
      BY <1>11 DEF ResetAcknowledged, StreamState
    <2>2. Keeps(dc, dc') /\ Alive(dc') /\ dc'.state = dc.state
      BY <1>0, <2>1, StreamKeeps
    <2> QED BY <1>11, <2>2, KeepingStep DEF ResetAcknowledged
  <1>12. ASSUME NEW known \in BOOLEAN, NEW allocated \in AllocResults,
                SetSctpDescription(known, allocated)
         PROVE  OrderlyStep
    <2> DEFINE c == [dc EXCEPT !.transport = TRUE]
               t == IF dc.transport \/ ~dc.listed THEN c ELSE OnTransportChannelCreated(c)
    <2>1. /\ Good(c, heard) /\ Keeps(dc, c) /\ Alive(c)
          /\ c.state = dc.state /\ c.listed = dc.listed /\ c.id = dc.id
      BY <1>0, TransportIsGood, TransportKeeps
    <2>2. /\ SCTP /\ roleKnown' = known
          /\ dc' = IF known /\ dc.listed /\ dc.id < 0 /\ allocated THEN SetSctpSid(t) ELSE t
          /\ sends' = sends /\ arrived' = arrived /\ posted' = posted
      BY <1>12 DEF SetSctpDescription
    <2> HIDE DEF c
    <2>3. c \in DataChannelRecord
      BY <2>1 DEF Good, Almost
    <2>4. ~(dc.transport \/ ~dc.listed) => dc.state \in {"kConnecting", "kClosed"}
      BY <1>0, <2>2 DEF Wiring, Reachable, DataChannelRecord, DataState
    <2>5. /\ Keeps(c, t) /\ Alive(t) /\ Good(t, heard)
          /\ t.state = c.state /\ t.listed = c.listed /\ t.id = c.id
      <3>1. CASE dc.transport \/ ~dc.listed
        <4>1. t = c
          BY <3>1
        <4>2. Keeps(c, c)
          BY SameWire DEF Keeps, Onward
        <4> QED BY <2>1, <4>1, <4>2
      <3>2. CASE ~(dc.transport \/ ~dc.listed)
        <4>1. t = OnTransportChannelCreated(c)
          BY <3>2
        <4>2. Keeps(c, t) /\ Alive(t)
          BY <2>1, <2>2, <2>3, <2>4, <3>2, <4>1, OnTransportCreatedKeeps
        <4>3. t.state = c.state /\ t.listed = c.listed /\ t.id = c.id
          BY <2>3, <4>1, TransportCreatedSame
        <4>4. Good(t, heard)
          BY <1>0, <2>1, <3>2, <4>1, OnTransportCreatedIsGood
        <4> QED BY <4>2, <4>3, <4>4
      <3> QED BY <3>1, <3>2
    <2> HIDE DEF t
    <2>6. t \in DataChannelRecord
      BY <2>5 DEF Good, Almost
    <2>7. dc.listed => /\ Keeps(t, SetSctpSid(t)) /\ Alive(SetSctpSid(t))
                       /\ SetSctpSid(t).id = 0 /\ SetSctpSid(t).state = t.state
      BY <2>1, <2>5, <2>6, SetSctpSidKeeps
    <2>8. Keeps(dc, t)
      BY <2>1, <2>5, KeepsTrans
    <2>9. Keeps(dc, dc') /\ Alive(dc') /\ dc'.state = dc.state
      BY <2>1, <2>2, <2>5, <2>7, <2>8, KeepsTrans
    <2>10. dc.id \in {-1, 0}
      BY <1>0 DEF DataChannelRecord
    <2>11. known /\ dc.listed /\ FALSE \notin AllocResults => dc'.id >= 0
      <3> SUFFICES ASSUME known, dc.listed, FALSE \notin AllocResults PROVE dc'.id >= 0
        OBVIOUS
      <3>1. allocated
        BY Zenon
      <3>2. CASE dc.id < 0
        BY <2>2, <2>7, <3>1, <3>2
      <3>3. CASE ~(dc.id < 0)
        BY <2>1, <2>2, <2>5, <2>10, <3>3
      <3> QED BY <3>2, <3>3
    <2>12. Ordered(dc', sends', arrived')
      BY <1>0, <2>2, <2>9, KeepsOrder
    <2> QED BY <2>2, <2>9, <2>11, <2>12 DEF OrderlyStep, Keeps
  <1>13. CASE CreateDescription
    <2>1. Keeps(dc, dc)
      BY SameWire DEF Keeps, Onward
    <2> QED BY <1>0, <1>13, <2>1, KeepingStep DEF CreateDescription
  <1>14. CASE SetLocalRtpDescription
    <2> DEFINE t == [dc EXCEPT !.transport = TRUE]
    <2>1. /\ Good(t, heard) /\ t.listed = dc.listed /\ Keeps(dc, t) /\ Alive(t)
      BY <1>0, TransportIsGood, TransportKeeps
    <2>2. RTP /\ \/ dc' = t
                 \/ t.listed /\ dc' = SetSendSsrc(t, 1)
                 \/ t.listed /\ dc' = DropClosed(SetSendSsrc(t, 0))
      BY <1>14, <2>1 DEF SetLocalRtpDescription
    <2> HIDE DEF t
    <2>3. Ok(t)
      BY <1>0, <2>1, GoodIsOk
    <2>4. t.listed => /\ Keeps(t, SetSendSsrc(t, 1)) /\ Alive(SetSendSsrc(t, 1))
                      /\ Keeps(t, SetSendSsrc(t, 0)) /\ Alive(SetSendSsrc(t, 0))
      BY <2>1, <2>2, <2>3, SetSendSsrcKeeps
    <2>5. t.listed => SetSendSsrc(t, 0) \in DataChannelRecord
      BY <1>0, <2>1, <2>2, SetSendSsrcIsGood DEF Good, Almost
    <2>6. t.listed => /\ Keeps(SetSendSsrc(t, 0), DropClosed(SetSendSsrc(t, 0)))
                      /\ Alive(DropClosed(SetSendSsrc(t, 0)))
      BY <2>4, <2>5, DropClosedKeeps
    <2>7. t.listed => Keeps(t, DropClosed(SetSendSsrc(t, 0)))
      BY <2>4, <2>6, KeepsTrans
    <2>8. Keeps(dc, dc') /\ Alive(dc')
      BY <2>1, <2>2, <2>4, <2>6, <2>7, KeepsTrans
    <2>9. /\ sends' = sends /\ arrived' = arrived /\ posted' = posted /\ roleKnown' = roleKnown
          /\ ~SCTP
      BY <1>14, <2>2 DEF SetLocalRtpDescription
    <2> QED BY <2>8, <2>9, KeepingStep
  <1>15. ASSUME NEW has \in BOOLEAN, SetRemoteRtpDescription(has)
         PROVE  OrderlyStep
    <2> DEFINE t == [dc EXCEPT !.transport = TRUE]
    <2>1. Good(t, heard) /\ t.listed = dc.listed /\ Keeps(dc, t) /\ Alive(t)
      BY <1>0, TransportIsGood, TransportKeeps
    <2>2. RTP /\ \/ dc' = t
                 \/ t.listed /\ dc' = SetReceiveSsrc(t, 2)
                 \/ dc' = DropClosed(DoClose(t))
      BY <1>15, <2>1 DEF SetRemoteRtpDescription
    <2> HIDE DEF t
    <2>3. Ok(t)
      BY <1>0, <2>1, GoodIsOk
    <2>4. t.listed => Keeps(t, SetReceiveSsrc(t, 2)) /\ Alive(SetReceiveSsrc(t, 2))
      BY <2>1, <2>2, <2>3, SetReceiveSsrcKeeps
    <2>5. Keeps(t, DoClose(t)) /\ Alive(DoClose(t)) /\ DoClose(t) \in DataChannelRecord
      BY <1>0, <2>1, <2>3, DoCloseKeeps, DoCloseIsGood DEF Good, Almost
    <2>6. Keeps(DoClose(t), DropClosed(DoClose(t))) /\ Alive(DropClosed(DoClose(t)))
      BY <2>5, DropClosedKeeps
    <2>7. Keeps(t, DropClosed(DoClose(t)))
      BY <2>5, <2>6, KeepsTrans
    <2>8. Keeps(dc, dc') /\ Alive(dc')
      BY <2>1, <2>2, <2>4, <2>6, <2>7, KeepsTrans
    <2>9. /\ sends' = sends /\ arrived' = arrived /\ posted' = posted /\ roleKnown' = roleKnown
          /\ ~SCTP
      BY <1>15, <2>2 DEF SetRemoteRtpDescription
    <2> QED BY <2>8, <2>9, KeepingStep
  <1>16. CASE DestroyTransport
    <2> DEFINE c == OnDataChannelClose(dc)
               t == [c EXCEPT !.transport = FALSE, !.stream = "none"]
    <2>1. /\ c \in DataChannelRecord /\ Keeps(dc, c) /\ Alive(c) /\ ~c.listed
          /\ c.state = dc.state \/ c.state = "kClosed"
      BY <1>0, OnDataChannelCloseKeeps
    <2>2. dc' = t
      BY <1>16 DEF DestroyTransport
    <2> HIDE DEF c
    <2>3. Keeps(c, t) /\ Alive(t) /\ t.state = c.state
      BY <2>1, TransportGoneKeeps
    <2> HIDE DEF t
    <2>4. Keeps(dc, dc') /\ Alive(dc') /\ (dc'.state = dc.state \/ dc'.state # "kOpen")
      BY <2>1, <2>2, <2>3, KeepsTrans
    <2> QED BY <1>16, <2>4, KeepingStep DEF DestroyTransport
  <1>17. CASE UNCHANGED vars
    <2>1. Keeps(dc, dc)
      BY SameWire DEF Keeps, Onward
    <2> QED BY <1>0, <1>17, <2>1, KeepingStep DEF vars
  <1> QED BY <1>1, <1>2, <1>3, <1>4, <1>5, <1>6, <1>7, <1>8, <1>9, <1>10, <1>11, <1>12,
             <1>13, <1>14, <1>15, <1>16, <1>17 DEF Next

\* The invariant is inductive.
LEMMA OrderIsKept == OrderInv /\ [Next]_vars => OrderInv'
  <1> SUFFICES ASSUME OrderInv, [Next]_vars PROVE OrderInv'
    OBVIOUS
  <1>1. OrderlyStep
    BY NextIsOrderly
  <1>2. IndInv'
    BY NextIsGood DEF OrderInv
  <1>3. NotLost'
    BY <1>1 DEF OrderInv, NotLost, OrderlyStep, Onward
  <1> QED
    BY <1>1, <1>2, <1>3 DEF OrderInv, OrderlyStep

\* Where AllocateSctpSid never fails: a listed channel has a sid once the role is
\* known, so that the close of a failed OPEN message takes its stream away.
HushInv ==
    /\ SCTP /\ roleKnown /\ dc.listed => dc.id >= 0
    /\ posted => dc.id >= 0
    /\ SCTP /\ dc.was_closed /\ dc.state = "kOpen" => dc.stream # "open" /\ ~dc.listed

\* It is inductive, given OrderInv.
LEMMA HushIsKept ==
    ASSUME FALSE \notin AllocResults
    PROVE  OrderInv /\ HushInv /\ [Next]_vars => HushInv'
  <1> SUFFICES ASSUME OrderInv, HushInv, [Next]_vars PROVE HushInv'
    OBVIOUS
  <1>1. OrderlyStep
    BY NextIsOrderly
  <1>2. Onward(dc, dc')
    BY <1>1 DEF OrderlyStep
  <1>3. (SCTP /\ roleKnown /\ dc.listed => dc.id >= 0)'
    BY <1>1, <1>2 DEF HushInv, OrderlyStep, Onward
  <1>4. (posted => dc.id >= 0)'
    BY <1>1, <1>2 DEF HushInv, OrderlyStep, Onward
  <1>5. (SCTP /\ dc.was_closed /\ dc.state = "kOpen" => dc.stream # "open" /\ ~dc.listed)'
    <2> SUFFICES ASSUME SCTP, dc'.was_closed, dc'.state = "kOpen"
                 PROVE  dc'.stream # "open" /\ ~dc'.listed
      OBVIOUS
    <2>1. CASE dc.state = "kConnecting"
      <3>1. dc.id >= 0
        BY <1>1, <2>1 DEF HushInv, OrderlyStep
      <3> QED BY <1>2, <2>1, <3>1 DEF Onward
    <2>2. CASE dc.state # "kConnecting"
      BY <1>2, <2>2 DEF HushInv, Onward
    <2> QED BY <2>1, <2>2
  <1> QED BY <1>3, <1>4, <1>5 DEF HushInv

-----------------------------------------------------------------------------
(* The theorems.                                                           *)

\* The invariant of the channel's traffic holds in every reachable state.
THEOREM OrderInvariance == Spec => []OrderInv
<1>1. Init => OrderInv
  BY InitIsOrdered
<1>2. OrderInv /\ [Next]_vars => OrderInv'
  BY OrderIsKept
<1> QED BY <1>1, <1>2, PTL DEF Spec

\* Both queues of the DataChannel count their bytes right and keep to their limits,
\* for every limit and every message size (PacketQueue, OnDataReceived,
\* QueueSendDataMessage).
THEOREM QueuesAreAlwaysBounded == Spec => []QueuesAreBounded
<1>1. OrderInv => QueuesAreBounded
  BY DEF OrderInv, Ordered, Limits, ReceiveLimit, SendLimit, QueuesAreBounded
<1> QED BY <1>1, OrderInvariance, PTL

\* What Send was given is on the wire or queued, in order, without a gap, however
\* many messages there are and however often the transport blocks.
THEOREM DataIsSentInOrder == Spec => []SentInOrder
<1>1. OrderInv => SentInOrder
  <2> SUFFICES ASSUME OrderInv, SCTP PROVE SentInOrder
    BY DEF SentInOrder
  <2>1. DOMAIN WireData(dc) = DataPlaces(dc.wire)
        /\ \A i \in DataPlaces(dc.wire) : WireData(dc)[i] = dc.wire[i]
    BY DEF WireData
  <2>2. Outgoing(dc, sends) /\ Wiring(dc) /\ dc.state \in DataState
    BY DEF OrderInv, Ordered, Alive, IndInv, TypeOK, DataChannelRecord
  <2>3. dc.was_closed \/ dc.state \in {"kConnecting", "kOpen"}
    BY <2>2 DEF Wiring, DataState
  <2>4. \A i \in DOMAIN WireData(dc) :
          WireData(dc)[i].n = Cardinality({j \in DOMAIN WireData(dc) : j <= i})
    BY <2>1, <2>2 DEF Outgoing, Numbered
  <2>5. Cardinality(DOMAIN WireData(dc)) = DataCount(dc.wire)
    BY <2>1 DEF DataCount
  <2> QED BY <2>2, <2>3, <2>4, <2>5 DEF SentInOrder, Outgoing, Follows
<1> QED BY <1>1, OrderInvariance, PTL

\* What the observer got and what still waits for it is what arrived, in order.
THEOREM DataIsDeliveredInOrder == Spec => []DeliveredInOrder
<1>1. OrderInv => DeliveredInOrder
  BY DEF OrderInv, Ordered, Incoming, Rising, In, DeliveredInOrder
<1> QED BY <1>1, OrderInvariance, PTL

\* An RTP channel that has been kClosed stays kClosed; the SCTP channel's late
\* SetState(kOpen) is the finding about UpdateState.
THEOREM ClosedRtpIsFinal ==
    ASSUME RTP
    PROVE  Spec => []ClosedIsFinal
<1>1. OrderInv => ClosedIsFinal
  BY DEF OrderInv, Alive, Wiring, ClosedIsFinal
<1> QED BY <1>1, OrderInvariance, PTL

\* Where AllocateSctpSid never fails, no data follows a close onto the wire.
THEOREM ClosedNeverSendsData ==
    ASSUME FALSE \notin AllocResults
    PROVE  Spec => ClosedSendsNoData
<1>1. Init => HushInv
  BY InitIsOrdered DEF OrderInv, IndInv, HushInv
<1>2. OrderInv /\ HushInv /\ [Next]_vars => HushInv'
  BY HushIsKept
<1>3. OrderInv /\ HushInv /\ [Next]_vars => [dc.was_closed => WireData(dc)' = WireData(dc)]_vars
  <2> SUFFICES ASSUME OrderInv, HushInv, [Next]_vars, dc.was_closed
               PROVE  WireData(dc)' = WireData(dc)
    OBVIOUS
  <2>1. Silenced(dc)
    BY DEF HushInv, Silenced
  <2>2. SameData(dc.wire, dc'.wire)
    BY <2>1, NextIsOrderly DEF OrderlyStep
  <2>3. WireData(dc') = WireData(dc)
    BY <2>2, SameWireData
  <2> QED BY <2>3 DEF WireData, DataPlaces
<1> QED BY <1>1, <1>2, <1>3, OrderInvariance, PTL DEF Spec, ClosedSendsNoData
=============================================================================
