--------------------------- MODULE SctpSidsProofs ---------------------------
(***************************************************************************)
(* Machine-checked proofs about SctpSids, for every number of ids and any  *)
(* number of channels.                                                     *)
(***************************************************************************)
EXTENDS SctpSids, TLAPS

\* The inductive invariant: the properties need each other, since an id that is
\* missed below the counter, or a list that is not typed, could be handed out twice.
SidsInv == SidsTypeOK /\ SidsAreUnique /\ NoFreeSidIsMissed

\* Used is the set of the ids of the list.
LEMMA UsedMember ==
    ASSUME NEW ch, NEW x
    PROVE  x \in Used(ch) <=> \E i \in DOMAIN ch : ch[i] = x /\ ch[i] >= 0
  BY DEF Used

\* The parity of an id is one of two, and the next id of the same parity is 2 away.
LEMMA ParityFacts ==
    ASSUME NEW x \in Int
    PROVE  Parity(x) \in {"even", "odd"} /\ Parity(x - 2) = Parity(x)
  BY DEF Parity

\* A channel is appended under an id that no other channel has.
LEMMA ListedKeeps ==
    ASSUME SidsInv, NEW id \in Sid \cup {-1}, NEW valid \in BOOLEAN,
           id \notin Used(sctp_data_channels), Listed(id, valid)
    PROVE  /\ sctp_data_channels' \in Seq(Sid \cup {-1})
           /\ SidsAreUnique'
           /\ dropped' \subseteq Sid
           /\ Used(sctp_data_channels) \cup dropped
                \subseteq Used(sctp_data_channels') \cup dropped'
           /\ id >= 0 => id \in Used(sctp_data_channels') \cup dropped'
  <1>0. sctp_data_channels \in Seq(Sid \cup {-1}) /\ dropped \subseteq Sid
    BY DEF SidsInv, SidsTypeOK
  <1>1. CASE valid
    <2> DEFINE n == Len(sctp_data_channels) + 1
    <2>1. sctp_data_channels' = Append(sctp_data_channels, id)
      BY <1>1 DEF Listed
    <2>2. /\ sctp_data_channels' \in Seq(Sid \cup {-1})
          /\ DOMAIN sctp_data_channels' = 1 .. n
          /\ DOMAIN sctp_data_channels = 1 .. n - 1
          /\ sctp_data_channels'[n] = id
          /\ \A i \in 1 .. n - 1 : sctp_data_channels'[i] = sctp_data_channels[i]
          /\ n \in Nat
      BY <1>0, <2>1
    <2>3. \A i \in 1 .. n - 1 : sctp_data_channels[i] >= 0 => sctp_data_channels[i] # id
      BY <2>2, UsedMember
    <2>4. SidsAreUnique'
      BY <1>0, <2>2, <2>3 DEF SidsInv, SidsAreUnique
    <2>5. Used(sctp_data_channels) \subseteq Used(sctp_data_channels')
      BY <1>0, <2>2, UsedMember
    <2>6. id >= 0 => id \in Used(sctp_data_channels')
      BY <1>0, <2>2, UsedMember
    <2>7. dropped' = dropped \ {id}
      BY <1>1 DEF Listed
    <2>8. id \in dropped => id >= 0
      BY <1>0 DEF Sid
    <2> QED
      BY <1>0, <2>2, <2>4, <2>5, <2>6, <2>7, <2>8
  <1>2. CASE ~valid
    <2>1. sctp_data_channels' = sctp_data_channels /\ dropped' = dropped \cup ({id} \cap Sid)
      BY <1>2 DEF Listed
    <2>2. SidsAreUnique'
      BY <2>1 DEF SidsInv, SidsAreUnique
    <2>3. id >= 0 => id \in Sid
      BY DEF Sid
    <2> QED
      BY <1>0, <2>1, <2>2, <2>3
  <1> QED
    BY <1>1, <1>2

-----------------------------------------------------------------------------
(* One lemma per action.                                                   *)

\* A channel is created under an id that the caller or the peer has chosen.
LEMMA CreateWithSidKeeps ==
    ASSUME SidsInv, NEW sid, CreateWithSid(sid)
    PROVE  SidsInv'
  <1>1. sid \in Sid /\ sid \notin Used(sctp_data_channels)
    BY DEF CreateWithSid, IsSctpSidAvailable
  <1>2. /\ sctp_data_channels' \in Seq(Sid \cup {-1})
        /\ SidsAreUnique'
        /\ dropped' \subseteq Sid
        /\ Used(sctp_data_channels) \cup dropped
             \subseteq Used(sctp_data_channels') \cup dropped'
    BY <1>1, ListedKeeps DEF CreateWithSid
  <1>3. UNCHANGED <<last_allocated, role, roleKnown>>
    BY DEF CreateWithSid
  <1>4. SidsTypeOK'
    BY <1>2, <1>3 DEF SidsInv, SidsTypeOK
  <1>5. NoFreeSidIsMissed'
    BY <1>2, <1>3 DEF SidsInv, NoFreeSidIsMissed
  <1> QED
    BY <1>2, <1>4, <1>5 DEF SidsInv

\* A channel is created before the role is known.
LEMMA CreateWithoutRoleKeeps ==
    ASSUME SidsInv, CreateWithoutRole
    PROVE  SidsInv'
  <1>1. -1 \notin Used(sctp_data_channels)
    BY UsedMember
  <1>2. /\ sctp_data_channels' \in Seq(Sid \cup {-1})
        /\ SidsAreUnique'
        /\ dropped' \subseteq Sid
        /\ Used(sctp_data_channels) \cup dropped
             \subseteq Used(sctp_data_channels') \cup dropped'
    BY <1>1, ListedKeeps DEF CreateWithoutRole
  <1>3. UNCHANGED <<last_allocated, role, roleKnown>>
    BY DEF CreateWithoutRole
  <1>4. SidsTypeOK'
    BY <1>2, <1>3 DEF SidsInv, SidsTypeOK
  <1>5. NoFreeSidIsMissed'
    BY <1>2, <1>3 DEF SidsInv, NoFreeSidIsMissed
  <1> QED
    BY <1>2, <1>4, <1>5 DEF SidsInv

\* What the loop of AllocateSctpSid passes over is taken.
LEMMA AllocatePasses ==
    ASSUME NEW last_id \in Int, NEW taken, NEW n \in Int, AllocateSctpSid(last_id, taken, n),
           NEW x \in Int, Parity(x) = Parity(last_id), x <= n
    PROVE  x <= last_id \/ x = n \/ x \in taken
  BY DEF AllocateSctpSid

\* Moving the counter of one parity keeps the type of both.
LEMMA CounterKeeps ==
    ASSUME SidsTypeOK, NEW n \in Int, n >= -2, Parity(n) = RoleParity,
           last_allocated' = [last_allocated EXCEPT ![RoleParity] = n]
    PROVE  /\ RoleParity \in {"even", "odd"}
           /\ last_allocated' \in [{"even", "odd"} -> Int]
           /\ \A p \in {"even", "odd"} : last_allocated'[p] >= -2 /\ Parity(last_allocated'[p]) = p
           /\ last_allocated'[RoleParity] = n
           /\ \A p \in {"even", "odd"} : p # RoleParity => last_allocated'[p] = last_allocated[p]
  <1>1. RoleParity \in {"even", "odd"}
    BY DEF RoleParity
  <1>2. last_allocated \in [{"even", "odd"} -> Int]
    BY DEF SidsTypeOK
  <1>3. \A p \in {"even", "odd"} : last_allocated[p] >= -2 /\ Parity(last_allocated[p]) = p
    BY DEF SidsTypeOK
  <1>4. last_allocated' \in [{"even", "odd"} -> Int]
    BY <1>1, <1>2
  <1>5. /\ last_allocated'[RoleParity] = n
        /\ \A p \in {"even", "odd"} : p # RoleParity => last_allocated'[p] = last_allocated[p]
    BY <1>1, <1>2
  <1> QED
    BY <1>1, <1>3, <1>4, <1>5

\* A channel is created under an allocated id, or none is left.
LEMMA CreateAllocatedKeeps ==
    ASSUME SidsInv, NEW n \in 0 .. MaxLastId, NEW valid \in BOOLEAN, CreateAllocated(n, valid)
    PROVE  SidsInv'
  <1> DEFINE last == last_allocated[RoleParity]
             used == Used(sctp_data_channels)
  <1>0. n \in Int /\ n >= 0 /\ RoleParity \in {"even", "odd"} /\ last \in Int
        /\ Parity(last) = RoleParity
    BY SidsConstantsOK DEF RoleParity, SidsInv, SidsTypeOK
  <1>1. AllocateSctpSid(last, used, n) /\ Parity(n) = RoleParity /\ n \notin used
    BY <1>0 DEF CreateAllocated, AllocateSctpSid
  <1>2. last_allocated' = [last_allocated EXCEPT ![RoleParity] = n] /\ UNCHANGED <<role, roleKnown>>
    BY DEF CreateAllocated
  <1>3. /\ sctp_data_channels' \in Seq(Sid \cup {-1})
        /\ SidsAreUnique'
        /\ dropped' \subseteq Sid
        /\ used \cup dropped \subseteq Used(sctp_data_channels') \cup dropped'
        /\ n \in Sid => n \in Used(sctp_data_channels') \cup dropped'
    <2>1. CASE n <= kMaxSctpSid
      <3>1. n \in Sid
        BY <1>0, <2>1, SidsConstantsOK DEF Sid
      <3>2. Listed(n, valid)
        BY <2>1 DEF CreateAllocated
      <3> QED
        BY <1>0, <1>1, <3>1, <3>2, ListedKeeps
    <2>2. CASE ~(n <= kMaxSctpSid)
      <3>1. n \notin Sid
        BY <2>2, SidsConstantsOK DEF Sid
      <3>2. UNCHANGED <<sctp_data_channels, dropped>>
        BY <2>2 DEF CreateAllocated
      <3> QED
        BY <3>1, <3>2 DEF SidsInv, SidsTypeOK, SidsAreUnique
    <2> QED
      BY <2>1, <2>2
  <1>4. /\ last_allocated' \in [{"even", "odd"} -> Int]
        /\ \A p \in {"even", "odd"} : last_allocated'[p] >= -2 /\ Parity(last_allocated'[p]) = p
        /\ last_allocated'[RoleParity] = n
        /\ \A p \in {"even", "odd"} : p # RoleParity => last_allocated'[p] = last_allocated[p]
    <2>1. n >= -2
      BY <1>0
    <2>2. SidsTypeOK
      BY DEF SidsInv
    <2> QED
      BY <1>0, <1>1, <1>2, <2>1, <2>2, CounterKeeps
  <1>5. SidsTypeOK'
    BY <1>2, <1>3, <1>4 DEF SidsInv, SidsTypeOK
  <1>6. NoFreeSidIsMissed'
    <2> SUFFICES ASSUME NEW x \in Sid, x <= last_allocated'[Parity(x)]
                 PROVE  x \in Used(sctp_data_channels') \cup dropped'
      BY DEF NoFreeSidIsMissed
    <2>0. x \in Int /\ Parity(x) \in {"even", "odd"}
      BY ParityFacts, SidsConstantsOK DEF Sid
    <2>1. CASE Parity(x) # RoleParity
      BY <1>3, <1>4, <2>0, <2>1 DEF SidsInv, NoFreeSidIsMissed
    <2>2. CASE Parity(x) = RoleParity
      <3>1. x <= last \/ x = n \/ x \in used
        BY <1>0, <1>1, <1>4, <2>0, <2>2, AllocatePasses
      <3>2. x <= last => x \in used \cup dropped
        BY <2>2 DEF SidsInv, NoFreeSidIsMissed
      <3> QED
        BY <1>3, <3>1, <3>2
    <2> QED
      BY <2>1, <2>2
  <1> QED
    BY <1>3, <1>5, <1>6 DEF SidsInv

\* The list is emptied and its ids are given up.
LEMMA OnDataChannelCloseKeeps ==
    ASSUME SidsInv, OnDataChannelClose
    PROVE  SidsInv'
  <1>1. /\ sctp_data_channels' = <<>> /\ dropped' = dropped \cup Used(sctp_data_channels)
        /\ roleKnown' \in BOOLEAN /\ last_allocated' = last_allocated /\ role' = role
    BY DEF OnDataChannelClose, SidsInv, SidsTypeOK
  <1>2. Used(sctp_data_channels) \subseteq Sid
    BY UsedMember DEF SidsInv, SidsTypeOK
  <1>3. SidsTypeOK'
    BY <1>1, <1>2 DEF SidsInv, SidsTypeOK
  <1>4. SidsAreUnique'
    BY <1>1 DEF SidsAreUnique
  <1>5. NoFreeSidIsMissed'
    BY <1>1 DEF SidsInv, NoFreeSidIsMissed
  <1> QED
    BY <1>3, <1>4, <1>5 DEF SidsInv

\* The elements of the list that RemoveSctpDataChannel leaves.
LEMMA WithoutFacts ==
    ASSUME NEW S, NEW ch \in Seq(S), NEW i \in DOMAIN ch
    PROVE  /\ Without(ch, i) \in Seq(S)
           /\ DOMAIN Without(ch, i) = 1 .. Len(ch) - 1
           /\ \A j \in 1 .. Len(ch) - 1 :
                Without(ch, i)[j] = IF j < i THEN ch[j] ELSE ch[j + 1]
  <1> DEFINE a == SubSeq(ch, 1, i - 1)
             b == SubSeq(ch, i + 1, Len(ch))
  <1>1. i \in Nat /\ 1 <= i /\ i <= Len(ch) /\ Len(ch) \in Nat
    OBVIOUS
  <1>2. a \in Seq(S) /\ Len(a) = i - 1 /\ \A j \in 1 .. i - 1 : a[j] = ch[j]
    BY <1>1
  <1>3. b \in Seq(S) /\ Len(b) = Len(ch) - i /\ \A j \in 1 .. Len(ch) - i : b[j] = ch[i + j]
    BY <1>1
  <1> HIDE DEF a, b
  <1>4. /\ a \o b \in Seq(S) /\ DOMAIN (a \o b) = 1 .. Len(ch) - 1
        /\ \A j \in 1 .. Len(ch) - 1 :
             (a \o b)[j] = IF j <= Len(a) THEN a[j] ELSE b[j - Len(a)]
    <2>1. /\ a \o b \in Seq(S) /\ DOMAIN (a \o b) = 1 .. Len(a) + Len(b)
          /\ \A j \in 1 .. Len(a) + Len(b) :
               (a \o b)[j] = IF j <= Len(a) THEN a[j] ELSE b[j - Len(a)]
      BY <1>2, <1>3
    <2>2. Len(a) + Len(b) = Len(ch) - 1
      BY <1>1, <1>2, <1>3
    <2> QED
      BY <2>1, <2>2
  <1>5. \A j \in 1 .. Len(ch) - 1 : (a \o b)[j] = IF j < i THEN ch[j] ELSE ch[j + 1]
    <2> TAKE j \in 1 .. Len(ch) - 1
    <2>1. CASE j < i
      <3>1. (a \o b)[j] = a[j]
        BY <1>1, <1>2, <1>4, <2>1
      <3> QED
        BY <1>1, <1>2, <2>1, <3>1
    <2>2. CASE ~(j < i)
      <3>1. (a \o b)[j] = b[j - (i - 1)]
        BY <1>1, <1>2, <1>4, <2>2
      <3>2. j - (i - 1) \in 1 .. Len(ch) - i /\ i + (j - (i - 1)) = j + 1
        BY <1>1, <2>2
      <3> QED
        BY <1>3, <2>2, <3>1, <3>2
    <2> QED
      BY <2>1, <2>2
  <1> QED
    BY <1>4, <1>5 DEF Without, a, b

\* A channel closes and the counter of its parity goes below its id.
LEMMA RemoveKeeps ==
    ASSUME SidsInv, NEW i \in DOMAIN sctp_data_channels, RemoveSctpDataChannel(i)
    PROVE  SidsInv'
  <1> DEFINE ch == sctp_data_channels
             s == sctp_data_channels[i]
             p == Parity(s)
  <1>0. /\ ch \in Seq(Sid \cup {-1}) /\ Len(ch) \in Nat /\ DOMAIN ch = 1 .. Len(ch)
        /\ s \in Sid /\ s \in Int /\ s >= 0
        /\ p \in {"even", "odd"}
        /\ Parity(s - 2) = p
    <2>1. ch \in Seq(Sid \cup {-1})
      BY DEF SidsInv, SidsTypeOK
    <2>2. s >= 0
      BY DEF RemoveSctpDataChannel
    <2>3. s \in Sid
      BY <2>1, <2>2
    <2>4. s \in Int
      BY <2>3 DEF Sid
    <2>5. p \in {"even", "odd"} /\ Parity(s - 2) = p
      BY <2>4, ParityFacts
    <2>6. Len(ch) \in Nat /\ DOMAIN ch = 1 .. Len(ch)
      BY <2>1
    <2> QED
      BY <2>1, <2>2, <2>3, <2>4, <2>5, <2>6
  <1>1. /\ ch' \in Seq(Sid \cup {-1})
        /\ DOMAIN ch' = 1 .. Len(ch) - 1
        /\ \A j \in 1 .. Len(ch) - 1 : ch'[j] = IF j < i THEN ch[j] ELSE ch[j + 1]
    BY <1>0, WithoutFacts DEF RemoveSctpDataChannel
  <1>2. SidsAreUnique'
    <2> SUFFICES ASSUME NEW j \in DOMAIN ch', NEW k \in DOMAIN ch', ch'[j] >= 0, ch'[j] = ch'[k]
                 PROVE  j = k
      BY DEF SidsAreUnique
    <2> DEFINE up(m) == IF m < i THEN m ELSE m + 1
    <2>1. /\ up(j) \in DOMAIN ch /\ up(k) \in DOMAIN ch
          /\ ch'[j] = ch[up(j)] /\ ch'[k] = ch[up(k)]
      BY <1>0, <1>1
    <2>2. up(j) = up(k)
      BY <2>1 DEF SidsInv, SidsAreUnique
    <2> QED
      BY <1>0, <1>1, <2>2
  <1>3. \A x : x \in Used(ch) /\ x # s => x \in Used(ch')
    <2> SUFFICES ASSUME NEW x, x \in Used(ch), x # s PROVE x \in Used(ch')
      OBVIOUS
    <2>1. PICK j \in DOMAIN ch : ch[j] = x /\ ch[j] >= 0
      BY UsedMember
    <2>2. j # i
      BY <2>1
    <2> DEFINE d == IF j < i THEN j ELSE j - 1
    <2>3. d \in DOMAIN ch' /\ ch'[d] = ch[j]
      BY <1>0, <1>1, <2>2
    <2> QED
      BY <2>1, <2>3, UsedMember
  <1>4. /\ last_allocated \in [{"even", "odd"} -> Int]
        /\ \A q \in {"even", "odd"} : last_allocated[q] >= -2 /\ Parity(last_allocated[q]) = q
    BY DEF SidsInv, SidsTypeOK
  <1>5. /\ last_allocated' = IF s <= last_allocated[p] THEN [last_allocated EXCEPT ![p] = s - 2]
                             ELSE last_allocated
        /\ UNCHANGED <<role, roleKnown, dropped>>
    BY DEF RemoveSctpDataChannel, Lowered
  <1>6. /\ last_allocated' \in [{"even", "odd"} -> Int]
        /\ last_allocated'[p] < s
        /\ \A q \in {"even", "odd"} : last_allocated'[q] <= last_allocated[q]
    BY <1>0, <1>4, <1>5
  <1>7. \A q \in {"even", "odd"} : last_allocated'[q] >= -2 /\ Parity(last_allocated'[q]) = q
    BY <1>0, <1>4, <1>5
  <1>8. SidsTypeOK'
    BY <1>1, <1>5, <1>6, <1>7 DEF SidsInv, SidsTypeOK
  <1>9. NoFreeSidIsMissed'
    <2> SUFFICES ASSUME NEW x \in Sid, x <= last_allocated'[Parity(x)]
                 PROVE  x \in Used(ch') \cup dropped'
      BY DEF NoFreeSidIsMissed
    <2>0. x \in Int /\ Parity(x) \in {"even", "odd"}
      BY ParityFacts, SidsConstantsOK DEF Sid
    <2>1. x # s
      BY <1>0, <1>6, <2>0
    <2>2. x <= last_allocated[Parity(x)]
      BY <1>4, <1>6, <2>0
    <2>3. x \in Used(ch) \cup dropped
      BY <2>2 DEF SidsInv, NoFreeSidIsMissed
    <2> QED
      BY <1>3, <1>5, <2>1, <2>3
  <1> QED
    BY <1>2, <1>8, <1>9 DEF SidsInv

\* The channels without an id get different new ones, and the ids that the loop passes
\* over are used.
LEMMA RoleReadyKeeps ==
    ASSUME SidsInv, NEW lasts \in [Idless -> 0 .. MaxLastId], OnDtlsRoleReadyForSctp(lasts),
           roleKnown' \in BOOLEAN, role' = role
    PROVE  SidsInv'
  <1> DEFINE ch == sctp_data_channels
             used == Used(sctp_data_channels)
             last == last_allocated[RoleParity]
             before(i) == {lasts[j] : j \in {h \in Idless : h < i}}
  <1>0. /\ ch \in Seq(Sid \cup {-1}) /\ DOMAIN ch = 1 .. Len(ch) /\ Len(ch) \in Nat
        /\ RoleParity \in {"even", "odd"} /\ last \in Int /\ Parity(last) = RoleParity
        /\ Idless \subseteq DOMAIN ch
        /\ \A i \in Idless : lasts[i] \in Int /\ lasts[i] >= 0
        /\ \A i \in Idless : i \in Int
    <2>1. ch \in Seq(Sid \cup {-1})
      BY DEF SidsInv, SidsTypeOK
    <2>2. RoleParity \in {"even", "odd"}
      BY DEF RoleParity
    <2>3. last \in Int /\ Parity(last) = RoleParity
      BY <2>2 DEF SidsInv, SidsTypeOK
    <2>4. Idless \subseteq DOMAIN ch
      BY DEF Idless
    <2>5. \A i \in Idless : lasts[i] \in Int /\ lasts[i] >= 0
      BY SidsConstantsOK
    <2> QED
      BY <2>1, <2>2, <2>3, <2>4, <2>5
  <1>1. \A i \in Idless : AllocateSctpSid(last, used \cup before(i), lasts[i])
    BY DEF OnDtlsRoleReadyForSctp
  <1>2. ch' = [i \in DOMAIN ch |-> IF i \notin Idless THEN ch[i]
                                   ELSE IF lasts[i] <= kMaxSctpSid THEN lasts[i] ELSE -1]
    BY DEF OnDtlsRoleReadyForSctp
  <1>3. \A i \in Idless : lasts[i] <= kMaxSctpSid => lasts[i] \in Sid
    BY <1>0, SidsConstantsOK DEF Sid
  <1>4. ch' \in Seq(Sid \cup {-1}) /\ DOMAIN ch' = DOMAIN ch
    <2>1. \A i \in DOMAIN ch : ch'[i] \in Sid \cup {-1}
      BY <1>0, <1>2, <1>3
    <2> QED
      BY <1>0, <1>2, <2>1
  <1>5. \A i \in Idless : Parity(lasts[i]) = RoleParity /\ lasts[i] \notin used
      /\ lasts[i] \notin before(i)
    BY <1>0, <1>1 DEF AllocateSctpSid
  <1>6. \A i, j \in Idless : lasts[i] = lasts[j] => i = j
    <2> SUFFICES ASSUME NEW i \in Idless, NEW j \in Idless, i < j, lasts[i] = lasts[j] PROVE FALSE
      BY <1>0
    <2>1. lasts[i] \in before(j)
      OBVIOUS
    <2> QED
      BY <1>5, <2>1
  <1>7. SidsAreUnique'
    <2> SUFFICES ASSUME NEW i \in DOMAIN ch, NEW j \in DOMAIN ch, ch'[i] >= 0, ch'[i] = ch'[j]
                 PROVE  i = j
      BY <1>4 DEF SidsAreUnique
    <2>1. \A k \in DOMAIN ch : k \notin Idless => ch[k] >= 0 /\ ch'[k] = ch[k]
      <3>1. \A k \in DOMAIN ch : ch[k] \in Sid \cup {-1}
        BY <1>0
      <3>2. \A k \in DOMAIN ch : ch[k] \in Int
        BY <3>1 DEF Sid
      <3> QED
        BY <1>2, <3>2 DEF Idless
    <2>2. \A k \in Idless : ch'[k] >= 0 => ch'[k] = lasts[k]
      BY <1>0, <1>2
    <2>3. \A k \in DOMAIN ch : k \notin Idless => ch[k] \in used
      BY <2>1, UsedMember
    <2>4. CASE i \notin Idless /\ j \notin Idless
      BY <2>1, <2>4 DEF SidsInv, SidsAreUnique
    <2>5. CASE i \in Idless /\ j \in Idless
      BY <1>6, <2>2, <2>5
    <2>6. CASE i \in Idless /\ j \notin Idless
      BY <1>5, <2>1, <2>2, <2>3, <2>6
    <2>7. CASE i \notin Idless /\ j \in Idless
      BY <1>5, <2>1, <2>2, <2>3, <2>7
    <2> QED
      BY <2>4, <2>5, <2>6, <2>7
  <1>8. used \subseteq Used(ch')
    <2> SUFFICES ASSUME NEW x \in used PROVE x \in Used(ch')
      OBVIOUS
    <2>1. PICK i \in DOMAIN ch : ch[i] = x /\ ch[i] >= 0
      BY UsedMember
    <2>2. i \notin Idless
      <3>1. ch[i] \in Sid \cup {-1}
        BY <1>0
      <3>2. ch[i] \in Int
        BY <3>1 DEF Sid
      <3> QED
        BY <2>1, <3>2 DEF Idless
    <2>3. ch'[i] = x
      BY <1>2, <2>1, <2>2
    <2> QED
      BY <1>4, <2>1, <2>3, UsedMember
  <1>9. \A i \in Idless : lasts[i] \in Sid => lasts[i] \in Used(ch')
    <2> SUFFICES ASSUME NEW i \in Idless, lasts[i] \in Sid PROVE lasts[i] \in Used(ch')
      OBVIOUS
    <2>1. lasts[i] <= kMaxSctpSid
      BY SidsConstantsOK DEF Sid
    <2>2. i \in DOMAIN ch' /\ ch'[i] = lasts[i] /\ ch'[i] >= 0
      BY <1>0, <1>2, <1>4, <2>1
    <2> QED
      BY <2>2, UsedMember
  <1>10. dropped' = dropped \ {lasts[i] : i \in Idless}
    BY DEF OnDtlsRoleReadyForSctp
  <1>11. PICK k \in Idless : /\ \A i \in Idless : i <= k
                             /\ last_allocated' = [last_allocated EXCEPT ![RoleParity] = lasts[k]]
    BY DEF OnDtlsRoleReadyForSctp
  <1>12. /\ last_allocated' \in [{"even", "odd"} -> Int]
         /\ \A p \in {"even", "odd"} : last_allocated'[p] >= -2 /\ Parity(last_allocated'[p]) = p
         /\ last_allocated'[RoleParity] = lasts[k]
         /\ \A p \in {"even", "odd"} : p # RoleParity => last_allocated'[p] = last_allocated[p]
    <2>1. lasts[k] \in Int /\ lasts[k] >= -2 /\ Parity(lasts[k]) = RoleParity
      BY <1>0, <1>5
    <2>2. SidsTypeOK
      BY DEF SidsInv
    <2> QED
      BY <1>11, <2>1, <2>2, CounterKeeps
  <1>13. SidsTypeOK'
    <2>1. dropped' \subseteq Sid
      BY <1>10 DEF SidsInv, SidsTypeOK
    <2> QED
      BY <1>4, <1>12, <2>1 DEF SidsInv, SidsTypeOK
  <1>14. \A x \in Sid : x \in used \cup dropped => x \in Used(ch') \cup dropped'
    BY <1>8, <1>9, <1>10
  <1>15. NoFreeSidIsMissed'
    <2> SUFFICES ASSUME NEW x \in Sid, x <= last_allocated'[Parity(x)]
                 PROVE  x \in Used(ch') \cup dropped'
      BY DEF NoFreeSidIsMissed
    <2>0. x \in Int /\ Parity(x) \in {"even", "odd"}
      BY ParityFacts, SidsConstantsOK DEF Sid
    <2>1. CASE Parity(x) # RoleParity
      <3>1. x \in used \cup dropped
        BY <1>12, <2>0, <2>1 DEF SidsInv, NoFreeSidIsMissed
      <3> QED
        BY <1>14, <3>1
    <2>2. CASE Parity(x) = RoleParity
      <3>1. x <= last \/ x = lasts[k] \/ x \in used \cup before(k)
        BY <1>0, <1>1, <1>12, <2>0, <2>2, AllocatePasses
      <3>2. x <= last => x \in used \cup dropped
        BY <2>2 DEF SidsInv, NoFreeSidIsMissed
      <3>3. x \in before(k) => \E j \in Idless : x = lasts[j]
        OBVIOUS
      <3> QED
        BY <1>9, <1>14, <3>1, <3>2, <3>3
    <2> QED
      BY <2>1, <2>2
  <1> QED
    BY <1>7, <1>13, <1>15 DEF SidsInv

\* The list starts empty, the counters below the first ids.
LEMMA SidsInitHolds == Init => SidsInv
  <1> SUFFICES ASSUME Init PROVE SidsInv
    OBVIOUS
  <1>1. last_allocated["even"] = -2 /\ last_allocated["odd"] = -1
    BY DEF Init
  <1>2. Parity(-2) = "even" /\ Parity(-1) = "odd"
    BY DEF Parity
  <1>3. SidsTypeOK
    <2>1. last_allocated \in [{"even", "odd"} -> Int]
      BY DEF Init
    <2>2. \A p \in {"even", "odd"} : last_allocated[p] >= -2 /\ Parity(last_allocated[p]) = p
      BY <1>1, <1>2
    <2>3. sctp_data_channels \in Seq(Sid \cup {-1}) /\ dropped \subseteq Sid
      BY DEF Init
    <2>4. role \in {"SSL_CLIENT", "SSL_SERVER"} /\ roleKnown \in BOOLEAN
      BY DEF Init
    <2> QED
      BY <2>1, <2>2, <2>3, <2>4 DEF SidsTypeOK
  <1>4. SidsAreUnique
    BY DEF Init, SidsAreUnique
  <1>5. NoFreeSidIsMissed
    BY <1>1, SidsConstantsOK DEF NoFreeSidIsMissed, Sid, Parity
  <1> QED
    BY <1>3, <1>4, <1>5 DEF SidsInv

-----------------------------------------------------------------------------
\* The invariant holds in every state, for every kMaxSctpSid.
THEOREM SidsInvariance == Spec => []SidsInv
  <1>1. SidsInv /\ [Next]_vars => SidsInv'
    <2> SUFFICES ASSUME SidsInv, [Next]_vars PROVE SidsInv'
      OBVIOUS
    <2>1. CASE \E sid \in 0 .. kMaxSctpSid + 1 : CreateWithSid(sid)
      BY <2>1, CreateWithSidKeeps
    <2>2. CASE CreateWithoutRole
      BY <2>2, CreateWithoutRoleKeeps
    <2>3. CASE \E n \in 0 .. MaxLastId, valid \in {TRUE} \cup InvalidConfigs :
                 CreateAllocated(n, valid)
      BY <2>3, CreateAllocatedKeeps, SidsConstantsOK
    <2>4. CASE DtlsRoleReady
      <3>1. CASE Idless = {}
        BY <2>4, <3>1 DEF DtlsRoleReady, SidsInv, SidsTypeOK, SidsAreUnique, NoFreeSidIsMissed
      <3>2. CASE Idless # {}
        BY <2>4, <3>2, RoleReadyKeeps DEF DtlsRoleReady
      <3> QED
        BY <3>1, <3>2
    <2>5. CASE \E i \in DOMAIN sctp_data_channels : RemoveSctpDataChannel(i)
      BY <2>5, RemoveKeeps
    <2>6. CASE OnDataChannelClose
      BY <2>6, OnDataChannelCloseKeeps
    <2>7. CASE UNCHANGED vars
      BY <2>7 DEF vars, SidsInv, SidsTypeOK, SidsAreUnique, NoFreeSidIsMissed
    <2> QED
      BY <2>1, <2>2, <2>3, <2>4, <2>5, <2>6, <2>7 DEF Next
  <1> QED
    BY <1>1, SidsInitHolds, PTL DEF Spec

\* Two listed channels never share a stream id, whoever chose the ids: IsSctpSidAvailable
\* and AllocateSctpSid together are enough.
THEOREM NoTwoChannelsShareASid == Spec => []SidsAreUnique
  <1>1. SidsInv => SidsAreUnique
    BY DEF SidsInv
  <1> QED
    BY <1>1, SidsInvariance, PTL

\* RemoveSctpDataChannel lowers the counters far enough for AllocateSctpSid to find
\* every id that it has freed.
THEOREM FreedSidsAreFound == Spec => []NoFreeSidIsMissed
  <1>1. SidsInv => NoFreeSidIsMissed
    BY DEF SidsInv
  <1> QED
    BY <1>1, SidsInvariance, PTL

=============================================================================
