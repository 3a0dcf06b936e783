---------------------------- MODULE ThreadsProofs ----------------------------
(***************************************************************************)
(* Machine-checked proofs about Threads, for any number of threads, any    *)
(* topology of calls and any depth of nesting.                             *)
(***************************************************************************)
EXTENDS Threads, FiniteSetTheorems, WellFoundedInduction, TLAPS

AllHandlers == Handlers \cup {MQID_DISPOSE, "app"}
Message == [id : Nat, handler : AllHandlers, due : Nat, delayed : BOOLEAN]
Delayed == [msTrigger : Nat, num : Nat, msg : Message]
SendMessage == [id : Nat, from : Threads, handler : Handlers]

GetFrame == [call : {"Get"}, at : {"ReceiveSends", "Pull", "PullNext", "CheckStop", "Wait"},
             msCurrent : Nat, delay : Int]
SendFrame == [call : {"Send"}, at : {"Push", "WakeUp", "Test", "ReceiveSends", "Wait"},
              to : Threads, id : Nat, handler : Handlers, waited : BOOLEAN]
OnMessageFrame == [call : {"OnMessage"}, by : {"Dispatch", "Send", "Direct"}, id : Nat,
                   from : Threads]
PostFrame == [call : {"Post"}, to : Threads, msg : Message]
Frame == GetFrame \cup SendFrame \cup OnMessageFrame \cup PostFrame

Typed ==
    /\ msgq \in [Threads -> Seq(Message)] /\ dmsgq \in [Threads -> Seq(Delayed)]
    /\ sendlist \in [Threads -> Seq(SendMessage)]
    /\ wake \in [Threads -> BOOLEAN] /\ fStop \in [Threads -> BOOLEAN]
    /\ owner \in [Threads -> {"running", "quit", "joining", "destroyed"}]
    /\ now \in Nat /\ sends \in Nat /\ posts \in Nat
    /\ pushed \in [Threads -> SUBSET Message] /\ handled \in [Threads -> Seq(Message)]

\* Call g may be made by call f: a handler by Get or Send, a Send or a Post by a handler.
Fits(f, g) ==
    \/ f.call = "Get" /\ g.call = "OnMessage" /\ g.by = "Dispatch"
    \/ f.call = "Get" /\ f.at = "ReceiveSends" /\ g.call = "OnMessage" /\ g.by = "Send"
    \/ /\ f.call = "Send" /\ f.at = "ReceiveSends"
       /\ g.call = "OnMessage" /\ g.by = "Send" /\ g.from = f.to
    \/ f.call = "OnMessage" /\ g.call \in {"Send", "Post"}
    \/ f.call = "OnMessage" /\ g.call = "OnMessage" /\ g.by = "Direct"

\* A stack of calls: Get at the bottom, and each call is one the call below it makes.
StackOK(q) ==
    /\ q \in Seq(Frame)
    /\ q # <<>> => q[1].call = "Get"
    /\ \A i \in 1 .. Len(q) - 1 : Fits(q[i], q[i + 1])

Shape == stack \in [Threads -> Seq(Frame)] /\ \A t \in Threads : StackOK(stack[t])

IsSend(t, i) == i \in 1 .. Len(stack[t]) /\ stack[t][i].call = "Send"
IsRun(t, i) == i \in 1 .. Len(stack[t]) /\ stack[t][i].call = "OnMessage" /\ stack[t][i].by = "Send"

\* Thread t is in a Send to u, number id, which has put its message in the list.
Caller(t, u, id) ==
    \E i \in Nat : IsSend(t, i) /\ stack[t][i].to = u /\ stack[t][i].id = id /\ stack[t][i].at # "Push"

\* The numbers of Sends under way tell them apart, and one that has not put its message in
\* the list has no answer.
Numbered ==
    \A t \in Threads, i \in Nat : IsSend(t, i) =>
        /\ stack[t][i].id \in 1 .. sends
        /\ stack[t][i].at = "Push" => stack[t][i].id \notin ready
        /\ \A u \in Threads, j \in Nat :
             IsSend(u, j) /\ stack[u][j].id = stack[t][i].id => u = t /\ j = i

\* A message in a list is there once, and its sender waits for the answer.
Listed ==
    \A u \in Threads : \A k \in 1 .. Len(sendlist[u]) :
        /\ sendlist[u][k].id \notin ready
        /\ Caller(sendlist[u][k].from, u, sendlist[u][k].id)
        /\ \A l \in 1 .. Len(sendlist[u]) : sendlist[u][l].id = sendlist[u][k].id => l = k

\* So does the sender of a message that a thread handles, which is in the list no more.
Run ==
    \A u \in Threads, k \in Nat : IsRun(u, k) =>
        /\ stack[u][k].id \notin ready
        /\ Caller(stack[u][k].from, u, stack[u][k].id)
        /\ \A l \in 1 .. Len(sendlist[u]) : sendlist[u][l].id # stack[u][k].id
        /\ \A l \in Nat : IsRun(u, l) /\ stack[u][l].id = stack[u][k].id => l = k

\* Message id is in the list of u, or u handles it.
InList(u, id) == \E k \in 1 .. Len(sendlist[u]) : sendlist[u][k].id = id
InRun(u, id) == \E k \in Nat : IsRun(u, k) /\ stack[u][k].id = id

\* A Send without an answer is in the list or being handled.
Held ==
    \A t \in Threads, i \in Nat :
        IsSend(t, i) /\ stack[t][i].at # "Push" /\ stack[t][i].id \notin ready =>
            InList(stack[t][i].to, stack[t][i].id) \/ InRun(stack[t][i].to, stack[t][i].id)

HeldInv == Numbered /\ Listed /\ Run /\ Held /\ ready \subseteq 1 .. sends

\* u's Send to t has put message id in the list and not yet signalled t.
Pending(u, t, id) ==
    \E i \in Nat : /\ IsSend(u, i) /\ stack[u][i].to = t /\ stack[u][i].id = id
                   /\ stack[u][i].at = "WakeUp"

\* The thread is woken for message k of its list, or will be.
Seen(t, k) == wake[t] \/ Pending(sendlist[t][k].from, t, sendlist[t][k].id)

\* Some Send above call i of t has used up a wakeup that it will give back.
Owed(t, i) == \E j \in Nat : j > i /\ IsSend(t, j) /\ stack[t][j].waited

\* The answer of a Send that does not look: the thread is woken, or will be.
AnswersSeen(t) ==
    \A i \in Nat :
        IsSend(t, i) /\ stack[t][i].at \in {"ReceiveSends", "Wait"} /\ stack[t][i].id \in ready
            => wake[t] \/ Owed(t, i)

\* A call that comes in during the wait of a Send.
CallsSeen(t) ==
    \A i \in Nat : IsSend(t, i) /\ stack[t][i].at = "Wait" =>
        \A k \in 1 .. Len(sendlist[t]) : sendlist[t][k].from = stack[t][i].to => Seen(t, k)

\* What Get, at place a with timer d, has looked at already and must not miss: the Sends,
\* the delayed messages, the queue, fStop_.
GetSees(t, a, d) ==
    /\ a \in {"Pull", "PullNext", "CheckStop", "Wait"} => \A k \in 1 .. Len(sendlist[t]) : Seen(t, k)
    /\ a \in {"PullNext", "CheckStop", "Wait"} => (Len(dmsgq[t]) > 0 /\ d = kForever => wake[t])
    /\ a \in {"PullNext", "CheckStop"} => d = kForever \/ d > 0
    /\ a \in {"CheckStop", "Wait"} => (Len(msgq[t]) > 0 => wake[t])
    /\ a = "Wait" => (fStop[t] => wake[t] \/ owner[t] = "quit")

WakeOf(t) ==
    /\ AnswersSeen(t) /\ CallsSeen(t)
    /\ Len(stack[t]) = 1 => GetSees(t, stack[t][1].at, stack[t][1].delay)

WakeInv == \A t \in Threads : WakeOf(t)

\* The messages a queue was given; the first one was there from the start.
Given(t) == pushed[t] \cup {FirstMessage}

\* Message m is in a queue of t, or t has dispatched it.
Holds(t, m) ==
    \/ \E i \in 1 .. Len(msgq[t]) : m = msgq[t][i]
    \/ \E i \in 1 .. Len(dmsgq[t]) : m = dmsgq[t][i].msg
    \/ \E i \in 1 .. Len(handled[t]) : m = handled[t][i]

\* The numbers of messages tell them apart, and none that was cleared is left or dispatched.
PostInv ==
    /\ \A t \in Threads : \A m \in pushed[t] :
         /\ m.id \in 1 .. posts
         /\ \A u \in Threads : \A p \in pushed[u] : p.id = m.id => u = t /\ p = m
    /\ \A t \in Threads : \A m : Holds(t, m) => m \in Given(t) /\ m.id \notin cleared
    /\ cleared \subseteq 1 .. posts

-----------------------------------------------------------------------------
(* Sequences.                                                              *)

\* A set of sets of positions has a smallest.
LEMMA PositionsWellFounded ==
    ASSUME NEW n \in Nat
    PROVE  IsWellFoundedOn(StrictSubsetOrdering(1 .. n), SUBSET (1 .. n))
  <1>1. IsFiniteSet(1 .. n)
    BY FS_Interval
  <1>2. PICK P : P = 1 .. n
    OBVIOUS
  <1>3. FiniteSubsetsOf(P) = SUBSET P
    BY <1>1, <1>2, FS_FiniteSubsetsOfFinite
  <1>4. IsWellFoundedOn(StrictSubsetOrdering(P), FiniteSubsetsOf(P))
    BY FS_StrictSubsetOrderingWellFounded
  <1> QED
    BY <1>2, <1>3, <1>4

\* A set of positions has a first and a last: a smallest set without would have them.
LEMMA EndsExist ==
    ASSUME NEW n \in Nat, NEW T \in SUBSET (1 .. n), T # {}
    PROVE  \E a, b \in T : \A k \in T : a <= k /\ k <= b
  <1> DEFINE HasEnds(D) == \E a, b \in D : \A k \in D : a <= k /\ k <= b
             Bad == {D \in SUBSET (1 .. n) : D # {} /\ ~HasEnds(D)}
             Order == StrictSubsetOrdering(1 .. n)
  <1>1. IsWellFoundedOn(Order, SUBSET (1 .. n))
    BY PositionsWellFounded
  <1>2. ASSUME Bad # {} PROVE FALSE
    <2>1. PICK D \in Bad : \A E \in Bad : <<E, D>> \notin Order
      <3> HIDE DEF Bad, Order
      <3>1. Bad \subseteq SUBSET (1 .. n)
        BY DEF Bad
      <3> QED
        BY <1>1, <1>2, <3>1, WFMin
    <2>2. PICK x \in D : TRUE
      OBVIOUS
    <2> DEFINE E == D \ {x}
    <2>3. x \in Int /\ \A k \in D : k \in Int
      OBVIOUS
    <2>4. CASE E = {}
      BY <2>3, <2>4
    <2>5. CASE E # {}
      <3>1. <<E, D>> \in Order
        BY DEF StrictSubsetOrdering
      <3>2. HasEnds(E)
        BY <2>1, <2>5, <3>1
      <3>3. PICK a, b \in E : \A k \in E : a <= k /\ k <= b
        BY <3>2
      <3> DEFINE c == IF x < a THEN x ELSE a
                 d == IF b < x THEN x ELSE b
      <3>4. c \in D /\ d \in D /\ \A k \in D : c <= k /\ k <= d
        <4> HIDE DEF HasEnds, Bad, Order
        <4>1. a \in Int /\ b \in Int /\ a \in D /\ b \in D /\ a <= b
          BY <2>3, <3>3
        <4>2. c \in D /\ d \in D /\ c <= x /\ x <= d /\ c <= a /\ b <= d /\ c \in Int /\ d \in Int
          BY <2>3, <4>1
        <4> HIDE DEF c, d
        <4>3. ASSUME NEW k \in D PROVE c <= k /\ k <= d
          <5>1. k \in Int /\ (k = x \/ (a <= k /\ k <= b))
            BY <2>3, <3>3
          <5> QED
            BY <2>3, <4>1, <4>2, <5>1
        <4> QED
          BY <4>2, <4>3
      <3> QED
        BY <3>4
    <2> QED
      BY <2>4, <2>5
  <1> QED
    BY <1>2

\* f lists S in order.
Lists(f, S, n) ==
    /\ f \in [1 .. n -> S]
    /\ \A i, j \in 1 .. n : i < j => f[i] < f[j]
    /\ \A k \in S : \E i \in 1 .. n : f[i] = k

\* A set of positions can be listed in order.
LEMMA ListExists ==
    ASSUME NEW n \in Nat, NEW T \in SUBSET (1 .. n)
    PROVE  \E f : Lists(f, T, Cardinality(T))
  <1> DEFINE HasList(D) == \E f : Lists(f, D, Cardinality(D))
             Bad == {D \in SUBSET (1 .. n) : ~HasList(D)}
             Order == StrictSubsetOrdering(1 .. n)
  <1>1. IsWellFoundedOn(Order, SUBSET (1 .. n))
    BY PositionsWellFounded
  <1>2. ASSUME Bad # {} PROVE FALSE
    <2>1. PICK D \in Bad : \A E \in Bad : <<E, D>> \notin Order
      <3> HIDE DEF Bad, Order
      <3>1. Bad \subseteq SUBSET (1 .. n)
        BY DEF Bad
      <3> QED
        BY <1>1, <1>2, <3>1, WFMin
    <2>2. D \in SUBSET (1 .. n) /\ ~HasList(D) /\ IsFiniteSet(D)
      <3>1. IsFiniteSet(1 .. n)
        BY FS_Interval
      <3> QED
        BY <3>1, FS_Subset
    <2>3. CASE D = {}
      <3>1. Cardinality(D) = 0
        BY <2>3, FS_EmptySet
      <3>2. Lists([i \in 1 .. 0 |-> 0], D, 0)
        BY <2>3 DEF Lists
      <3> QED
        BY <2>2, <3>1, <3>2
    <2>4. CASE D # {}
      <3>1. PICK m \in D : \A k \in D : k <= m
        BY <2>2, <2>4, EndsExist
      <3> DEFINE E == D \ {m}
      <3>2. <<E, D>> \in Order
        BY DEF StrictSubsetOrdering
      <3>3. HasList(E)
        BY <2>1, <3>2
      <3>4. PICK f : Lists(f, E, Cardinality(E))
        BY <3>3
      <3>5. Cardinality(D) \in Nat /\ Cardinality(E) \in Nat
            /\ Cardinality(D) = Cardinality(E) + 1
        <4>1. IsFiniteSet(E) /\ Cardinality(E) = Cardinality(D) - 1
          BY <2>2, FS_RemoveElement
        <4>2. Cardinality(D) \in Nat
          BY <2>2, FS_CardinalityType
        <4>3. Cardinality(E) \in Nat
          BY <4>1, FS_CardinalityType
        <4> QED
          BY <4>1, <4>2, <4>3
      <3>6. \A k \in D : k \in Int
        BY <2>2
      <3> DEFINE c == Cardinality(E)
                 g == [i \in 1 .. c + 1 |-> IF i = c + 1 THEN m ELSE f[i]]
      <3>7. c \in Nat /\ Cardinality(D) = c + 1 /\ Lists(f, E, c)
        BY <3>4, <3>5
      <3> HIDE DEF c
      <3>8. Lists(g, D, c + 1)
        <4>1. \A i \in 1 .. c : g[i] = f[i] /\ f[i] \in E
          BY <3>7 DEF Lists
        <4>2. g[c + 1] = m
          BY <3>7
        <4>3. g \in [1 .. c + 1 -> D]
          <5>1. \A i \in 1 .. c + 1 : i = c + 1 \/ i \in 1 .. c
            BY <3>7
          <5>2. \A i \in 1 .. c + 1 : g[i] \in D
            BY <4>1, <4>2, <5>1
          <5> QED
            BY <5>2
        <4>4. ASSUME NEW i \in 1 .. c + 1, NEW j \in 1 .. c + 1, i < j PROVE g[i] < g[j]
          <5>1. i \in 1 .. c
            BY <3>7, <4>4
          <5>2. CASE j = c + 1
            <6>1. g[j] = m /\ g[i] \in D /\ g[i] # m
              BY <4>1, <4>2, <5>1, <5>2
            <6>2. g[i] <= m /\ g[i] \in Int /\ m \in Int
              BY <3>1, <3>6, <6>1
            <6> QED
              BY <6>1, <6>2
          <5>3. CASE j \in 1 .. c
            BY <3>7, <4>1, <4>4, <5>1, <5>3 DEF Lists
          <5> QED
            BY <3>7, <5>2, <5>3
        <4>5. ASSUME NEW k \in D PROVE \E i \in 1 .. c + 1 : g[i] = k
          <5>1. CASE k = m
            BY <3>7, <4>2, <5>1
          <5>2. CASE k # m
            <6>1. PICK i \in 1 .. c : f[i] = k
              BY <3>7, <5>2 DEF Lists
            <6> QED
              BY <3>7, <4>1, <6>1
          <5> QED
            BY <5>1, <5>2
        <4> QED
          BY <4>3, <4>4, <4>5 DEF Lists
      <3> QED
        BY <2>2, <3>7, <3>8
    <2> QED
      BY <2>3, <2>4
  <1> QED
    BY <1>2

\* Clear keeps the others, each once.
LEMMA KeptFacts ==
    ASSUME NEW X, NEW q \in Seq(X), NEW S \in SUBSET (1 .. Len(q))
    PROVE  /\ Kept(q, S) \in Seq(X)
           /\ \E f : /\ Lists(f, S, Len(Kept(q, S)))
                     /\ \A i \in 1 .. Len(Kept(q, S)) : Kept(q, S)[i] = q[f[i]]
  <1>0. Len(q) \in Nat
    OBVIOUS
  <1>1. IsFiniteSet(S) /\ Cardinality(S) \in Nat
    <2>1. IsFiniteSet(1 .. Len(q))
      BY <1>0, FS_Interval
    <2> QED
      BY <2>1, FS_Subset, FS_CardinalityType
  <1>2. PICK n \in Nat : n = Cardinality(S)
    BY <1>1
  <1>3. \E g : Lists(g, S, n)
    BY <1>0, <1>2, ListExists
  <1>4. Lists(Ordered(S), S, n)
    <2> DEFINE P(g) == /\ \A i, j \in 1 .. n : i < j => g[i] < g[j]
                       /\ \A k \in S : \E i \in 1 .. n : g[i] = k
    <2>1. \E g \in [1 .. n -> S] : P(g)
      BY <1>3 DEF Lists
    <2>2. Ordered(S) = CHOOSE g \in [1 .. n -> S] : P(g)
      BY <1>2 DEF Ordered
    <2>3. Lists(Ordered(S), S, n) <=> Ordered(S) \in [1 .. n -> S] /\ P(Ordered(S))
      BY DEF Lists
    <2> HIDE DEF P
    <2> QED
      BY <2>1, <2>2, <2>3
  <1>5. PICK f : f = Ordered(S)
    OBVIOUS
  <1> DEFINE r == [i \in 1 .. n |-> q[f[i]]]
  <1>6. Kept(q, S) = r
    BY <1>2, <1>5 DEF Kept
  <1>7. Lists(f, S, n)
    BY <1>4, <1>5
  <1>8. \A i \in 1 .. n : f[i] \in 1 .. Len(q)
    BY <1>7 DEF Lists
  <1>9. \A i \in 1 .. n : q[f[i]] \in X
    BY <1>8
  <1>10. r \in Seq(X) /\ Len(r) = n
    BY <1>2, <1>9
  <1>11. \A i \in 1 .. n : r[i] = q[f[i]]
    OBVIOUS
  <1> HIDE DEF r
  <1> QED
    BY <1>6, <1>7, <1>10, <1>11

\* Sequence r is a, of length m, and behind it b, of length n.
Joins(r, a, b, m, n) ==
    /\ Len(r) = m + n
    /\ \A k \in 1 .. m + n : r[k] = IF k <= m THEN a[k] ELSE b[k - m]

\* Two sequences, one behind the other.
LEMMA ConcatFacts ==
    ASSUME NEW X, NEW a \in Seq(X), NEW b \in Seq(X)
    PROVE  a \o b \in Seq(X) /\ Joins(a \o b, a, b, Len(a), Len(b))
  BY DEF Joins

\* The last element taken away, or replaced.
LEMMA LastFacts ==
    ASSUME NEW X, NEW q \in Seq(X), NEW n \in Nat, n = Len(q), n >= 1, NEW g \in X
    PROVE  /\ Returned(q) \in Seq(X) /\ Len(Returned(q)) = n - 1
           /\ \A i \in 1 .. n - 1 : Returned(q)[i] = q[i]
           /\ Goto(q, g) \in Seq(X) /\ Len(Goto(q, g)) = n /\ Goto(q, g)[n] = g
           /\ \A i \in 1 .. n - 1 : Goto(q, g)[i] = q[i]
  BY DEF Returned, Goto

\* The only element replaced.
LEMMA OnlyFacts ==
    ASSUME NEW X, NEW q \in Seq(X), Len(q) = 1, NEW g \in X
    PROVE  Goto(q, g) \in Seq(X) /\ Len(Goto(q, g)) = 1 /\ Goto(q, g)[1] = g
  <1>1. q \in [1 .. 1 -> X]
    OBVIOUS
  <1>2. Goto(q, g) = [q EXCEPT ![1] = g]
    BY DEF Goto
  <1>3. Goto(q, g) \in [1 .. 1 -> X] /\ Goto(q, g)[1] = g
    BY <1>1, <1>2
  <1> QED
    BY <1>3

\* An element added at the end.
LEMMA AppendFacts ==
    ASSUME NEW X, NEW q \in Seq(X), NEW m \in X, NEW l \in Nat, l = Len(q)
    PROVE  /\ Append(q, m) \in Seq(X) /\ Len(Append(q, m)) = l + 1 /\ Append(q, m)[l + 1] = m
           /\ \A k \in 1 .. l : Append(q, m)[k] = q[k]
  OBVIOUS

-----------------------------------------------------------------------------
(* The stack of calls: what a thread's own step does to it.                *)

\* Thread t makes call g; the calls below stay, and so do the other stacks.
Pushes(t, g) ==
    LET n == Len(stack[t])
    IN  /\ Len(stack'[t]) = n + 1 /\ stack'[t][n + 1] = g
        /\ \A i \in 1 .. n : stack'[t][i] = stack[t][i]
        /\ \A u \in Threads \ {t} : stack'[u] = stack[u]

\* Its running call returns.
Pops(t) ==
    LET n == Len(stack[t])
    IN  /\ Len(stack'[t]) = n - 1
        /\ \A i \in 1 .. n - 1 : stack'[t][i] = stack[t][i]
        /\ \A u \in Threads \ {t} : stack'[u] = stack[u]

\* Its running call goes on, as g.
Moves(t, g) ==
    LET n == Len(stack[t])
    IN  /\ Len(stack'[t]) = n /\ stack'[t][n] = g
        /\ \A i \in 1 .. n - 1 : stack'[t][i] = stack[t][i]
        /\ \A u \in Threads \ {t} : stack'[u] = stack[u]

\* The stacks are stacks of frames.
LEMMA StackFacts ==
    ASSUME Shape, NEW t \in Threads
    PROVE  /\ stack[t] \in Seq(Frame) /\ Len(stack[t]) \in Nat
           /\ \A i \in 1 .. Len(stack[t]) : stack[t][i] \in Frame
           /\ Running(t) => Len(stack[t]) >= 1 /\ Top(t) = stack[t][Len(stack[t])]
                            /\ Top(t) \in Frame /\ stack[t][1].call = "Get"
           /\ ~Running(t) => Len(stack[t]) = 0
           /\ \A i \in 1 .. Len(stack[t]) - 1 : Fits(stack[t][i], stack[t][i + 1])
  <1>1. StackOK(stack[t]) /\ stack[t] \in Seq(Frame)
    BY DEF Shape
  <1>2. \A i \in 1 .. Len(stack[t]) : stack[t][i] \in Frame
    BY <1>1
  <1>3. Len(stack[t]) \in Nat /\ (stack[t] # <<>> <=> Len(stack[t]) >= 1)
    BY <1>1
  <1> QED
    BY <1>1, <1>2, <1>3 DEF StackOK, Running, Top

\* A frame is of the kind that it calls itself.
LEMMA FrameKinds ==
    ASSUME NEW f \in Frame
    PROVE  /\ f.call \in {"Get", "Send", "OnMessage", "Post"}
           /\ f.call = "Get" => f \in GetFrame
           /\ f.call = "Send" => f \in SendFrame
           /\ f.call = "OnMessage" => f \in OnMessageFrame
           /\ f.call = "Post" => f \in PostFrame
  <1>1. \A g \in GetFrame : g.call = "Get"
    BY DEF GetFrame
  <1>2. \A g \in SendFrame : g.call = "Send"
    BY DEF SendFrame
  <1>3. \A g \in OnMessageFrame : g.call = "OnMessage"
    BY DEF OnMessageFrame
  <1>4. \A g \in PostFrame : g.call = "Post"
    BY DEF PostFrame
  <1> QED
    BY <1>1, <1>2, <1>3, <1>4 DEF Frame

\* The stack of t becomes q, which is in order.
LEMMA StackStep ==
    ASSUME Shape, NEW t \in Threads, NEW q, StackOK(q), stack' = [stack EXCEPT ![t] = q]
    PROVE  Shape' /\ stack'[t] = q /\ \A u \in Threads \ {t} : stack'[u] = stack[u]
  <1>1. q \in Seq(Frame) /\ stack \in [Threads -> Seq(Frame)]
    BY DEF StackOK, Shape
  <1>2. stack' \in [Threads -> Seq(Frame)]
    BY <1>1
  <1>3. stack'[t] = q /\ \A u \in Threads \ {t} : stack'[u] = stack[u]
    BY <1>1
  <1>4. \A u \in Threads : StackOK(stack'[u])
    BY <1>3 DEF Shape
  <1> QED
    BY <1>2, <1>3, <1>4 DEF Shape

\* A call that the running one makes.
LEMMA PushStep ==
    ASSUME Shape, NEW t \in Threads, Running(t), NEW g \in Frame, Fits(Top(t), g),
           stack' = [stack EXCEPT ![t] = Append(@, g)]
    PROVE  Shape' /\ Pushes(t, g)
  <1> DEFINE q == Append(stack[t], g)
  <1>1. PICK n \in Nat : n = Len(stack[t])
    BY StackFacts
  <1>2. /\ q \in Seq(Frame) /\ Len(q) = n + 1 /\ q[n + 1] = g
        /\ \A i \in 1 .. n : q[i] = stack[t][i]
    BY <1>1, StackFacts
  <1>3. stack' = [stack EXCEPT ![t] = q]
    BY DEF Shape
  <1> HIDE DEF q
  <1>4. n >= 1 /\ Fits(stack[t][n], g) /\ stack[t][1].call = "Get"
        /\ \A i \in 1 .. n - 1 : Fits(stack[t][i], stack[t][i + 1])
    BY <1>1, StackFacts
  <1>5. ASSUME NEW i \in 1 .. n PROVE Fits(q[i], q[i + 1])
    <2>1. CASE i = n
      BY <1>2, <1>4, <2>1
    <2>2. CASE i \in 1 .. n - 1
      <3>1. i + 1 \in 1 .. n
        BY <2>2
      <3> QED
        BY <1>2, <1>4, <2>2, <3>1
    <2> QED
      BY <2>1, <2>2
  <1>6. StackOK(q)
    <2>1. q[1].call = "Get"
      BY <1>2, <1>4
    <2>2. Len(q) - 1 = n
      BY <1>2
    <2> QED
      BY <1>2, <1>5, <2>1, <2>2 DEF StackOK
  <1>7. Shape' /\ stack'[t] = q /\ \A u \in Threads \ {t} : stack'[u] = stack[u]
    BY <1>3, <1>6, StackStep
  <1> QED
    BY <1>1, <1>2, <1>7 DEF Pushes

\* A call above Get that returns.
LEMMA PopStep ==
    ASSUME Shape, NEW t \in Threads, Running(t), Top(t).call # "Get",
           stack' = [stack EXCEPT ![t] = Returned(@)]
    PROVE  Shape' /\ Pops(t) /\ Len(stack[t]) >= 2
  <1> DEFINE q == Returned(stack[t])
  <1>1. PICK n \in Nat : n = Len(stack[t])
    BY StackFacts
  <1>2. n >= 1 /\ stack[t][1].call = "Get" /\ Top(t) = stack[t][n]
        /\ \A i \in 1 .. n - 1 : Fits(stack[t][i], stack[t][i + 1])
    BY <1>1, StackFacts
  <1>3. n >= 2
    <2>1. n # 1
      BY <1>2
    <2> QED
      BY <1>2, <2>1
  <1>4. /\ q \in Seq(Frame) /\ Len(q) = n - 1
        /\ \A i \in 1 .. n - 1 : q[i] = stack[t][i]
    BY <1>1, <1>3, StackFacts DEF Returned
  <1>5. stack' = [stack EXCEPT ![t] = q]
    BY DEF Shape
  <1> HIDE DEF q
  <1>6. StackOK(q)
    <2>1. q[1].call = "Get"
      BY <1>2, <1>3, <1>4
    <2>2. \A i \in 1 .. (n - 1) - 1 : i \in 1 .. n - 1 /\ i + 1 \in 1 .. n - 1
      OBVIOUS
    <2> QED
      BY <1>2, <1>4, <2>1, <2>2 DEF StackOK
  <1>7. Shape' /\ stack'[t] = q /\ \A u \in Threads \ {t} : stack'[u] = stack[u]
    BY <1>5, <1>6, StackStep
  <1> QED
    BY <1>1, <1>3, <1>4, <1>7 DEF Pops

\* A Get or a Send that goes on.
LEMMA MoveStep ==
    ASSUME Shape, NEW t \in Threads, Running(t), NEW g \in Frame,
           g.call = Top(t).call, g.call \in {"Get", "Send"},
           stack' = [stack EXCEPT ![t] = Goto(@, g)]
    PROVE  Shape' /\ Moves(t, g)
  <1> DEFINE q == Goto(stack[t], g)
  <1>1. PICK n \in Nat : n = Len(stack[t])
    BY StackFacts
  <1>2. n >= 1 /\ stack[t][1].call = "Get" /\ Top(t) = stack[t][n]
        /\ \A i \in 1 .. n - 1 : Fits(stack[t][i], stack[t][i + 1])
    BY <1>1, StackFacts
  <1>3. /\ q \in Seq(Frame) /\ Len(q) = n /\ q[n] = g
        /\ \A i \in 1 .. n - 1 : q[i] = stack[t][i]
    BY <1>1, <1>2, StackFacts DEF Goto
  <1>4. stack' = [stack EXCEPT ![t] = q]
    BY DEF Shape
  <1> HIDE DEF q
  <1>5. ASSUME NEW i \in 1 .. n - 1 PROVE Fits(q[i], q[i + 1])
    <2>1. Fits(stack[t][i], stack[t][i + 1]) /\ q[i] = stack[t][i]
      BY <1>2, <1>3
    <2>2. CASE i + 1 = n
      BY <1>2, <1>3, <2>1, <2>2 DEF Fits
    <2>3. CASE i + 1 \in 1 .. n - 1
      BY <1>3, <2>1, <2>3
    <2> QED
      BY <2>2, <2>3
  <1>6. StackOK(q)
    <2>1. q[1].call = "Get"
      <3>1. n = 1 \/ 1 \in 1 .. n - 1
        BY <1>2
      <3> QED
        BY <1>2, <1>3, <3>1
    <2> QED
      BY <1>3, <1>5, <2>1 DEF StackOK
  <1>7. Shape' /\ stack'[t] = q /\ \A u \in Threads \ {t} : stack'[u] = stack[u]
    BY <1>4, <1>6, StackStep
  <1> QED
    BY <1>1, <1>3, <1>7 DEF Moves

\* Get is at the bottom and nowhere else.
LEMMA GetIsBottom ==
    ASSUME Shape, NEW t \in Threads, NEW i \in 1 .. Len(stack[t]), stack[t][i].call = "Get"
    PROVE  i = 1
  <1>1. Len(stack[t]) \in Nat
    BY StackFacts
  <1>2. ASSUME i # 1 PROVE FALSE
    <2>1. i - 1 \in 1 .. Len(stack[t]) - 1 /\ (i - 1) + 1 = i
      BY <1>1, <1>2
    <2>2. Fits(stack[t][i - 1], stack[t][i])
      BY <2>1, StackFacts
    <2> QED
      BY <2>2 DEF Fits
  <1> QED
    BY <1>2

\* The call below the running one.
LEMMA Below ==
    ASSUME Shape, NEW t \in Threads, Running(t), Top(t).call # "Get"
    PROVE  /\ Len(stack[t]) >= 2 /\ Len(stack[t]) - 1 \in 1 .. Len(stack[t])
           /\ Fits(stack[t][Len(stack[t]) - 1], Top(t))
  <1>1. PICK n \in Nat : n = Len(stack[t])
    BY StackFacts
  <1>2. n >= 1 /\ stack[t][1].call = "Get" /\ Top(t) = stack[t][n]
        /\ \A i \in 1 .. n - 1 : Fits(stack[t][i], stack[t][i + 1])
    BY <1>1, StackFacts
  <1>3. n # 1
    BY <1>2
  <1>4. n - 1 \in 1 .. n - 1 /\ (n - 1) + 1 = n
    BY <1>2, <1>3
  <1>5. Fits(stack[t][n - 1], stack[t][n])
    BY <1>2, <1>4
  <1>6. n >= 2 /\ n - 1 \in 1 .. n
    BY <1>4
  <1> QED
    BY <1>1, <1>2, <1>5, <1>6

\* ProcessMessages calls Get again.
LEMMA DispatchedStep ==
    ASSUME Shape, NEW t \in Threads, InHandler(t), Top(t).by = "Dispatch", NEW g \in GetFrame,
           stack' = [stack EXCEPT ![t] = Goto(Returned(@), g)]
    PROVE  /\ Shape' /\ Len(stack[t]) = 2 /\ Len(stack'[t]) = 1 /\ stack'[t][1] = g
           /\ \A u \in Threads \ {t} : stack'[u] = stack[u]
  <1> DEFINE r == Returned(stack[t])
             q == Goto(r, g)
  <1>1. PICK n \in Nat : n = Len(stack[t])
    BY StackFacts
  <1>2. n >= 2 /\ n - 1 \in 1 .. n /\ Fits(stack[t][n - 1], Top(t))
    BY <1>1, Below DEF InHandler
  <1>3. stack[t][n - 1].call = "Get"
    BY <1>2 DEF InHandler, Fits
  <1>4. n = 2
    <2>1. n - 1 \in 1 .. Len(stack[t])
      BY <1>1, <1>2
    <2>2. n - 1 = 1
      BY <1>3, <2>1, GetIsBottom
    <2> QED
      BY <2>2
  <1>5. g \in Frame /\ g.call = "Get"
    BY DEF Frame, GetFrame
  <1>6. r \in Seq(Frame) /\ Len(r) = 1
    <2>1. stack[t] \in Seq(Frame) /\ n >= 1
      BY <1>4, StackFacts
    <2>2. r \in Seq(Frame) /\ Len(r) = n - 1
      BY <1>1, <1>5, <2>1, LastFacts
    <2> QED
      BY <1>4, <2>2
  <1>7. stack' = [stack EXCEPT ![t] = q]
    BY DEF Shape
  <1> HIDE DEF r
  <1>8. q \in Seq(Frame) /\ Len(q) = 1 /\ q[1] = g
    <2>1. r \in Seq(Frame) /\ Len(r) = 1 /\ g \in Frame
      BY <1>5, <1>6
    <2> QED
      BY <2>1, OnlyFacts
  <1> HIDE DEF q
  <1>9. StackOK(q)
    BY <1>5, <1>8 DEF StackOK
  <1> QED
    BY <1>1, <1>4, <1>7, <1>8, <1>9, StackStep

\* The stack of a thread that ends.
LEMMA EndedStep ==
    ASSUME Shape, NEW t \in Threads, stack' = [stack EXCEPT ![t] = <<>>]
    PROVE  Shape' /\ Len(stack'[t]) = 0 /\ \A u \in Threads \ {t} : stack'[u] = stack[u]
  <1> DEFINE q == <<>>
  <1>1. StackOK(q) /\ Len(q) = 0
    BY DEF StackOK
  <1>2. stack' = [stack EXCEPT ![t] = q]
    OBVIOUS
  <1> HIDE DEF q
  <1> QED
    BY <1>1, <1>2, StackStep

\* The list without one of its messages.
LEMMA WithoutFacts ==
    ASSUME NEW X, NEW q \in Seq(X), NEW i \in 1 .. Len(q)
    PROVE  /\ Without(q, i) \in Seq(X) /\ Len(Without(q, i)) = Len(q) - 1
           /\ \A k \in 1 .. Len(q) - 1 :
                Without(q, i)[k] = IF k < i THEN q[k] ELSE q[k + 1]
  <1>0. PICK a, b : a = SubSeq(q, 1, i - 1) /\ b = SubSeq(q, i + 1, Len(q))
    OBVIOUS
  <1>1. Len(q) \in Nat
    OBVIOUS
  <1>2. a \in Seq(X) /\ Len(a) = i - 1 /\ \A k \in 1 .. i - 1 : a[k] = q[k]
    BY <1>0, <1>1
  <1>3. b \in Seq(X) /\ Len(b) = Len(q) - i
        /\ \A k \in 1 .. Len(q) - i : b[k] = q[k + i]
    BY <1>0, <1>1
  <1>4. Without(q, i) = a \o b
    BY <1>0 DEF Without
  <1>5. /\ a \o b \in Seq(X) /\ Len(a \o b) = Len(q) - 1
        /\ \A k \in 1 .. Len(q) - 1 : (a \o b)[k] = IF k <= i - 1 THEN a[k] ELSE b[k - (i - 1)]
    <2>1. i - 1 \in Nat /\ Len(q) - i \in Nat /\ (i - 1) + (Len(q) - i) = Len(q) - 1
      BY <1>1
    <2>2. PICK m \in Nat, k \in Nat : m = i - 1 /\ k = Len(q) - i
      BY <2>1
    <2>3. a \in Seq(X) /\ b \in Seq(X) /\ Len(a) = m /\ Len(b) = k
      BY <1>2, <1>3, <2>2
    <2>4. a \o b \in Seq(X) /\ Joins(a \o b, a, b, Len(a), Len(b))
      BY <2>3, ConcatFacts
    <2>5. PICK r : r = a \o b
      OBVIOUS
    <2>6. Joins(r, a, b, m, k)
      BY <2>3, <2>4, <2>5
    <2>7. Len(r) = m + k /\ \A j \in 1 .. m + k : r[j] = IF j <= m THEN a[j] ELSE b[j - m]
      BY <2>6 DEF Joins
    <2>8. Len(r) = Len(q) - 1
          /\ \A j \in 1 .. Len(q) - 1 : r[j] = IF j <= i - 1 THEN a[j] ELSE b[j - (i - 1)]
      BY <2>1, <2>2, <2>7
    <2> QED
      BY <2>4, <2>5, <2>8
  <1>6. ASSUME NEW k \in 1 .. Len(q) - 1
        PROVE  (a \o b)[k] = IF k < i THEN q[k] ELSE q[k + 1]
    <2>1. CASE k < i
      <3>1. k <= i - 1 /\ k \in 1 .. i - 1
        BY <2>1
      <3> QED
        BY <1>2, <1>5, <2>1, <3>1
    <2>2. CASE ~(k < i)
      <3>1. k - (i - 1) \in 1 .. Len(q) - i /\ (k - (i - 1)) + i = k + 1
            /\ ~(k <= i - 1)
        BY <1>1, <2>2
      <3> QED
        BY <1>3, <1>5, <2>2, <3>1
    <2> QED
      BY <2>1, <2>2
  <1> QED
    BY <1>4, <1>5, <1>6

-----------------------------------------------------------------------------
(* Where a Send is held.                                                   *)

\* A step that leaves call i of u alone, as far as Sends and their handlers go.
SameCall(u, i) ==
    /\ IsSend(u, i)' <=> IsSend(u, i)
    /\ IsSend(u, i) => /\ stack'[u][i].to = stack[u][i].to /\ stack'[u][i].id = stack[u][i].id
                       /\ stack'[u][i].at = "Push" <=> stack[u][i].at = "Push"
    /\ IsRun(u, i)' <=> IsRun(u, i)
    /\ IsRun(u, i) => stack'[u][i].id = stack[u][i].id /\ stack'[u][i].from = stack[u][i].from

SameCalls == \A u \in Threads, i \in Nat : SameCall(u, i)
SameBut(t, n) == \A u \in Threads, i \in Nat : u # t \/ i # n => SameCall(u, i)

\* What the frames of Sends and of handlers of sent messages hold.
LEMMA CallFacts ==
    ASSUME Shape, NEW u \in Threads, NEW i \in Nat
    PROVE  /\ IsSend(u, i) => stack[u][i] \in SendFrame /\ stack[u][i].to \in Threads
                              /\ stack[u][i].id \in Nat
           /\ IsRun(u, i) => stack[u][i] \in OnMessageFrame /\ stack[u][i].from \in Threads
                             /\ stack[u][i].id \in Nat
  <1>1. i \in 1 .. Len(stack[u]) => stack[u][i] \in Frame
    BY StackFacts
  <1>2. IsSend(u, i) => stack[u][i] \in SendFrame
    BY <1>1, FrameKinds DEF IsSend
  <1>3. IsRun(u, i) => stack[u][i] \in OnMessageFrame
    BY <1>1, FrameKinds DEF IsRun
  <1>4. \A f \in SendFrame : f.to \in Threads /\ f.id \in Nat
    BY DEF SendFrame
  <1>5. \A f \in OnMessageFrame : f.from \in Threads /\ f.id \in Nat
    BY DEF OnMessageFrame
  <1> QED
    BY <1>2, <1>3, <1>4, <1>5

\* What the lists hold.
LEMMA ListFacts ==
    ASSUME sendlist \in [Threads -> Seq(SendMessage)], NEW u \in Threads
    PROVE  /\ sendlist[u] \in Seq(SendMessage) /\ Len(sendlist[u]) \in Nat
           /\ \A k \in 1 .. Len(sendlist[u]) :
                /\ sendlist[u][k] \in SendMessage /\ sendlist[u][k].from \in Threads
                /\ sendlist[u][k].id \in Nat /\ sendlist[u][k].handler \in Handlers
  <1>1. sendlist[u] \in Seq(SendMessage)
    OBVIOUS
  <1>2. \A k \in 1 .. Len(sendlist[u]) : sendlist[u][k] \in SendMessage
    BY <1>1
  <1>3. \A m \in SendMessage : m.from \in Threads /\ m.id \in Nat /\ m.handler \in Handlers
    BY DEF SendMessage
  <1> QED
    BY <1>1, <1>2, <1>3

\* Such a step keeps every Send where it is.
LEMMA QuietKeeps ==
    ASSUME HeldInv, SameCalls, sendlist' = sendlist, ready' = ready, sends \in Nat, sends' \in Nat,
           sends <= sends', sendlist \in [Threads -> Seq(SendMessage)], Shape
    PROVE  HeldInv'
  <1>0. \A k \in 1 .. sends : k \in 1 .. sends'
    OBVIOUS
  <1>1. Numbered'
    BY <1>0 DEF HeldInv, Numbered, SameCalls, SameCall
  <1>2. \A t \in Threads : \A u, id : Caller(t, u, id) => Caller(t, u, id)'
    BY DEF Caller, SameCalls, SameCall
  <1>3. Listed'
    <2>1. \A u \in Threads : \A k \in 1 .. Len(sendlist[u]) : sendlist[u][k].from \in Threads
      BY ListFacts
    <2> QED
      BY <1>2, <2>1 DEF HeldInv, Listed
  <1>4. Run'
    <2>1. \A u \in Threads, k \in Nat : IsRun(u, k) => stack[u][k].from \in Threads
      BY CallFacts
    <2>2. \A u \in Threads, k \in Nat :
            /\ IsRun(u, k)' <=> IsRun(u, k)
            /\ IsRun(u, k) => stack'[u][k].id = stack[u][k].id /\ stack'[u][k].from = stack[u][k].from
      BY DEF SameCalls, SameCall
    <2>3. ASSUME NEW u \in Threads, NEW k \in Nat, IsRun(u, k)
          PROVE  /\ stack[u][k].id \notin ready
                 /\ \A v \in {stack[u][k].from}, id \in {stack[u][k].id} : Caller(v, u, id)'
                 /\ \A l \in 1 .. Len(sendlist[u]) : sendlist[u][l].id # stack[u][k].id
                 /\ \A l \in Nat : IsRun(u, l) /\ stack[u][l].id = stack[u][k].id => l = k
      BY <1>2, <2>1, <2>3 DEF HeldInv, Run
    <2> QED
      BY <2>2, <2>3 DEF Run
  <1>5. Held'
    <2> SUFFICES ASSUME NEW t \in Threads, NEW i \in Nat,
                        IsSend(t, i)', stack'[t][i].at # "Push", stack'[t][i].id \notin ready'
                 PROVE  InList(stack[t][i].to, stack[t][i].id)'
                        \/ InRun(stack[t][i].to, stack[t][i].id)'
      BY DEF Held
    <2>1. /\ IsSend(t, i) /\ stack'[t][i].to = stack[t][i].to /\ stack'[t][i].id = stack[t][i].id
          /\ stack[t][i].at # "Push" /\ stack[t][i].id \notin ready
      BY DEF SameCalls, SameCall
    <2>2. PICK u, id : u = stack[t][i].to /\ id = stack[t][i].id
      OBVIOUS
    <2>3. u \in Threads
      BY <2>1, <2>2, CallFacts
    <2>4. InList(u, id) \/ InRun(u, id)
      BY <2>1, <2>2 DEF HeldInv, Held
    <2>5. CASE InList(u, id)
      BY <2>1, <2>2, <2>5 DEF InList
    <2>6. CASE InRun(u, id)
      BY <2>1, <2>2, <2>3, <2>6 DEF InRun, SameCalls, SameCall
    <2> QED
      BY <2>4, <2>5, <2>6
  <1>6. ready' \subseteq 1 .. sends'
    BY <1>0 DEF HeldInv
  <1> QED
    BY <1>1, <1>3, <1>4, <1>5, <1>6 DEF HeldInv

\* Only call n of t changes.
OnlyCall(t, n) ==
    \A u \in Threads, i \in Nat : u # t \/ i # n =>
        /\ i \in 1 .. Len(stack'[u]) <=> i \in 1 .. Len(stack[u])
        /\ i \in 1 .. Len(stack[u]) => stack'[u][i] = stack[u][i]

\* The call that is made is the only one that changes, ...
LEMMA PushOnly ==
    ASSUME Shape, NEW t \in Threads, NEW g, Pushes(t, g), NEW n \in Nat, n = Len(stack[t])
    PROVE  OnlyCall(t, n + 1)
  <1>1. \A i \in Nat : i \in 1 .. n + 1 <=> i \in 1 .. n \/ i = n + 1
    OBVIOUS
  <1> QED
    BY <1>1 DEF OnlyCall, Pushes

\* ... and so are the one that returns ...
LEMMA PopOnly ==
    ASSUME Shape, NEW t \in Threads, Pops(t), NEW n \in Nat, n = Len(stack[t])
    PROVE  OnlyCall(t, n)
  <1>1. \A i \in Nat : i # n => (i \in 1 .. n - 1 <=> i \in 1 .. n)
    OBVIOUS
  <1> QED
    BY <1>1 DEF OnlyCall, Pops

\* ... and the one that goes on.
LEMMA MoveOnly ==
    ASSUME Shape, NEW t \in Threads, NEW g, Moves(t, g), NEW n \in Nat, n = Len(stack[t])
    PROVE  OnlyCall(t, n)
  <1>1. \A i \in Nat : i # n => (i \in 1 .. n - 1 <=> i \in 1 .. n)
    OBVIOUS
  <1> QED
    BY <1>1 DEF OnlyCall, Moves

\* The other calls are the same.
LEMMA OnlySame ==
    ASSUME NEW t \in Threads, NEW n \in Nat, OnlyCall(t, n)
    PROVE  SameBut(t, n)
  BY DEF OnlyCall, SameBut, SameCall, IsSend, IsRun

\* Call n of t is neither a Send nor the handler of a sent message.
Plain(t, n) == ~IsSend(t, n) /\ ~IsRun(t, n)

\* A step that changes only such a call.
LEMMA PlainIsQuiet ==
    ASSUME NEW t \in Threads, NEW n \in Nat, OnlyCall(t, n), Plain(t, n), Plain(t, n)'
    PROVE  SameCalls
  <1>1. SameBut(t, n)
    BY OnlySame
  <1>2. SameCall(t, n)
    BY DEF SameCall, Plain
  <1> QED
    BY <1>1, <1>2 DEF SameCalls, SameBut

\* So is a Send that goes on.
LEMMA SendIsQuiet ==
    ASSUME NEW t \in Threads, NEW n \in Nat, OnlyCall(t, n), IsSend(t, n), IsSend(t, n)',
           stack'[t][n].to = stack[t][n].to, stack'[t][n].id = stack[t][n].id,
           stack'[t][n].at # "Push", stack[t][n].at # "Push"
    PROVE  SameCalls
  <1>1. SameBut(t, n)
    BY OnlySame
  <1>2. SameCall(t, n)
    BY DEF SameCall, IsSend, IsRun
  <1> QED
    BY <1>1, <1>2 DEF SameCalls, SameBut

-----------------------------------------------------------------------------
(* What each action does to the stack.                                     *)

\* The running call of t is f, number n of its stack.
TopIs(t, n, f) ==
    /\ n \in Nat /\ n >= 1 /\ n = Len(stack[t]) /\ f = stack[t][n] /\ f = Top(t) /\ Running(t)
    /\ f \in Frame

\* A thread that runs is in some call.
LEMMA TopExists ==
    ASSUME Shape, NEW t \in Threads, Running(t)
    PROVE  \E n, f : TopIs(t, n, f)
  BY StackFacts DEF TopIs

\* The effect of a step of t on the stacks: call n becomes g, or is gone if g is not a frame.
Sets(t, n, g) ==
    /\ Shape' /\ OnlyCall(t, n)
    /\ n \in 1 .. Len(stack'[t]) /\ stack'[t][n] = g
Drops(t, n) ==
    /\ Shape' /\ OnlyCall(t, n) /\ n >= 2
    /\ n \notin 1 .. Len(stack'[t])

\* A call that is made.
LEMMA CallStep ==
    ASSUME Shape, NEW t \in Threads, NEW n, NEW f, TopIs(t, n, f), NEW g \in Frame, Fits(f, g),
           stack' = [stack EXCEPT ![t] = Append(@, g)]
    PROVE  Sets(t, n + 1, g) /\ n + 1 \in Nat /\ ~IsSend(t, n + 1) /\ ~IsRun(t, n + 1)
  <1>1. Running(t) /\ Fits(Top(t), g) /\ n \in Nat /\ n = Len(stack[t])
    BY DEF TopIs
  <1>2. Shape' /\ Pushes(t, g)
    BY <1>1, PushStep
  <1>3. OnlyCall(t, n + 1)
    BY <1>1, <1>2, PushOnly
  <1>4. n + 1 \in 1 .. Len(stack'[t]) /\ stack'[t][n + 1] = g /\ n + 1 \notin 1 .. Len(stack[t])
    BY <1>1, <1>2 DEF Pushes
  <1> QED
    BY <1>1, <1>2, <1>3, <1>4 DEF Sets, IsSend, IsRun

\* A call that returns.
LEMMA ReturnStep ==
    ASSUME Shape, NEW t \in Threads, NEW n, NEW f, TopIs(t, n, f), f.call # "Get",
           stack' = [stack EXCEPT ![t] = Returned(@)]
    PROVE  Drops(t, n) /\ ~IsSend(t, n)' /\ ~IsRun(t, n)'
  <1>1. Running(t) /\ Top(t).call # "Get" /\ n \in Nat /\ n = Len(stack[t])
    BY DEF TopIs
  <1>2. Shape' /\ Pops(t) /\ Len(stack[t]) >= 2
    BY <1>1, PopStep
  <1>3. OnlyCall(t, n)
    BY <1>1, <1>2, PopOnly
  <1>4. n \notin 1 .. Len(stack'[t])
    BY <1>1, <1>2 DEF Pops
  <1> QED
    BY <1>1, <1>2, <1>3, <1>4 DEF Drops, IsSend, IsRun

\* A Get or a Send that goes on.
LEMMA GotoStep ==
    ASSUME Shape, NEW t \in Threads, NEW n, NEW f, TopIs(t, n, f), NEW g \in Frame,
           g.call = f.call, g.call \in {"Get", "Send"},
           stack' = [stack EXCEPT ![t] = Goto(@, g)]
    PROVE  Sets(t, n, g)
  <1>1. Running(t) /\ g.call = Top(t).call /\ n \in Nat /\ n = Len(stack[t]) /\ n >= 1
    BY DEF TopIs
  <1>2. Shape' /\ Moves(t, g)
    BY <1>1, MoveStep
  <1>3. OnlyCall(t, n)
    BY <1>1, <1>2, MoveOnly
  <1>4. n \in 1 .. Len(stack'[t]) /\ stack'[t][n] = g
    BY <1>1, <1>2 DEF Moves
  <1> QED
    BY <1>1, <1>2, <1>3, <1>4 DEF Sets

\* ReceiveSend(t): the first message of the source leaves the list and is handled.
Receives(t, n, f, i, m, g) ==
    /\ TopIs(t, n, f) /\ f.call \in {"Get", "Send"} /\ f.at = "ReceiveSends"
    /\ i \in 1 .. Len(sendlist[t]) /\ m = sendlist[t][i]
    /\ f.call = "Send" => m.from = f.to
    /\ g \in OnMessageFrame /\ g.call = "OnMessage" /\ g.by = "Send" /\ g.id = m.id /\ g.from = m.from
    /\ n + 1 \in Nat /\ Sets(t, n + 1, g) /\ ~IsSend(t, n + 1) /\ ~IsRun(t, n + 1)
    /\ sendlist' = [sendlist EXCEPT ![t] = Without(sendlist[t], i)]

\* This is what ReceiveSend does.
LEMMA ReceiveSendStack ==
    ASSUME Shape, Typed, NEW t \in Threads, ReceiveSend(t)
    PROVE  \E n, f, i, m, g : Receives(t, n, f, i, m, g)
  <1>1. PICK n, f : TopIs(t, n, f)
    BY TopExists DEF ReceiveSend
  <1>2. f \in Frame /\ f = Top(t) /\ f.call \in {"Get", "Send"} /\ f.at = "ReceiveSends"
    BY <1>1 DEF TopIs, ReceiveSend
  <1> DEFINE S == FromSource(t)
             First(j) == \A k \in S : j <= k
  <1>3. S # {} /\ S \subseteq 1 .. Len(sendlist[t]) /\ Len(sendlist[t]) \in Nat
        /\ sendlist[t] \in Seq(SendMessage) /\ sendlist \in [Threads -> Seq(SendMessage)]
    <2>1. sendlist \in [Threads -> Seq(SendMessage)]
      BY DEF Typed
    <2>2. sendlist[t] \in Seq(SendMessage)
      BY <2>1
    <2>3. DOMAIN sendlist[t] = 1 .. Len(sendlist[t]) /\ Len(sendlist[t]) \in Nat
      BY <2>2
    <2>4. S # {} /\ S \subseteq DOMAIN sendlist[t]
      BY DEF ReceiveSend, FromSource
    <2> HIDE DEF S
    <2> QED
      BY <2>1, <2>2, <2>3, <2>4
  <1>4. \E j \in S : First(j)
    <2> HIDE DEF S
    <2>1. \E a, b \in S : \A k \in S : a <= k /\ k <= b
      BY <1>3, EndsExist
    <2> QED
      BY <2>1
  <1>5. PICK i : i = CHOOSE j \in S : First(j)
    OBVIOUS
  <1>6. i \in S
    <2> HIDE DEF S, First
    <2> QED
      BY <1>4, <1>5
  <1>7. PICK m : m = sendlist[t][i]
    OBVIOUS
  <1>8. m \in SendMessage /\ m.id \in Nat /\ m.from \in Threads
    <2>1. m \in SendMessage
      BY <1>3, <1>6, <1>7
    <2> QED
      BY <2>1 DEF SendMessage
  <1>9. f.call = "Send" => m.from = f.to
    BY <1>2, <1>6, <1>7 DEF FromSource, Source
  <1>10. PICK g : g = OnMessageCall("Send", m.id, m.from)
    OBVIOUS
  <1>11. g \in OnMessageFrame /\ g.call = "OnMessage" /\ g.by = "Send" /\ g.id = m.id
         /\ g.from = m.from
    BY <1>8, <1>10 DEF OnMessageCall, OnMessageFrame
  <1>12. Fits(f, g) /\ g \in Frame
    BY <1>2, <1>9, <1>11 DEF Fits, Frame
  <1>13. /\ stack' = [stack EXCEPT ![t] = Append(@, g)]
         /\ sendlist' = [sendlist EXCEPT ![t] = Without(@, i)]
    BY <1>5, <1>7, <1>10 DEF ReceiveSend
  <1>14. sendlist' = [sendlist EXCEPT ![t] = Without(sendlist[t], i)]
    BY <1>3, <1>13
  <1>15. n + 1 \in Nat /\ Sets(t, n + 1, g) /\ ~IsSend(t, n + 1) /\ ~IsRun(t, n + 1)
    BY <1>1, <1>12, <1>13, CallStep
  <1>16. i \in 1 .. Len(sendlist[t])
    BY <1>3, <1>6
  <1> HIDE DEF S
  <1> QED
    BY <1>1, <1>2, <1>7, <1>9, <1>11, <1>14, <1>15, <1>16 DEF Receives

\* ReceivedSends(t): there is none left.
Received(t, n, f, g) ==
    /\ TopIs(t, n, f) /\ f.call \in {"Get", "Send"} /\ f.at = "ReceiveSends"
    /\ Sets(t, n, g) /\ g.call = f.call
    /\ f.call = "Get" => g.at = "Pull"
    /\ f.call = "Send" => /\ g.at = "Wait" /\ g.to = f.to /\ g.id = f.id /\ g.waited = f.waited
                          /\ \A k \in 1 .. Len(sendlist[t]) : sendlist[t][k].from # f.to
    /\ f.call = "Get" => Len(sendlist[t]) = 0

\* This is what ReceivedSends does.
LEMMA ReceivedSendsStack ==
    ASSUME Shape, Typed, NEW t \in Threads, ReceivedSends(t)
    PROVE  \E n, f, g : Received(t, n, f, g)
  <1>1. PICK n, f : TopIs(t, n, f)
    BY TopExists DEF ReceivedSends
  <1>2. f \in Frame /\ f = Top(t) /\ f.call \in {"Get", "Send"} /\ f.at = "ReceiveSends"
    BY <1>1 DEF TopIs, ReceivedSends
  <1>3. sendlist[t] \in Seq(SendMessage) /\ Len(sendlist[t]) \in Nat
        /\ \A k \in 1 .. Len(sendlist[t]) : sendlist[t][k].from \in Threads
    BY ListFacts DEF Typed
  <1>4. FromSource(t) = {} /\ DOMAIN sendlist[t] = 1 .. Len(sendlist[t])
    BY <1>3 DEF ReceivedSends
  <1>5. PICK a : a = IF f.call = "Get" THEN "Pull" ELSE "Wait"
    OBVIOUS
  <1>6. PICK g : g = [f EXCEPT !.at = a]
    OBVIOUS
  <1>7. stack' = [stack EXCEPT ![t] = Goto(@, g)]
    BY <1>2, <1>5, <1>6 DEF ReceivedSends
  <1>8. CASE f.call = "Get"
    <2>1. f \in GetFrame /\ a = "Pull"
      BY <1>2, <1>5, <1>8, FrameKinds
    <2>2. g \in GetFrame /\ g.at = "Pull" /\ g.call = "Get"
      BY <1>6, <2>1 DEF GetFrame
    <2>3. g \in Frame
      BY <2>2 DEF Frame
    <2>4. Sets(t, n, g)
      BY <1>1, <1>7, <1>8, <2>2, <2>3, GotoStep
    <2>5. Len(sendlist[t]) = 0
      <3>1. \A k \in 1 .. Len(sendlist[t]) : FALSE
        BY <1>2, <1>3, <1>4, <1>8 DEF FromSource, Source
      <3> QED
        BY <1>3, <3>1
    <2> QED
      BY <1>1, <1>2, <1>8, <2>2, <2>4, <2>5 DEF Received
  <1>9. CASE f.call = "Send"
    <2>1. f \in SendFrame /\ a = "Wait"
      BY <1>2, <1>5, <1>9, FrameKinds
    <2>2. g \in SendFrame /\ g.at = "Wait" /\ g.call = "Send" /\ g.to = f.to /\ g.id = f.id
          /\ g.waited = f.waited
      BY <1>6, <2>1 DEF SendFrame
    <2>3. g \in Frame
      BY <2>2 DEF Frame
    <2>4. Sets(t, n, g)
      BY <1>1, <1>7, <1>9, <2>2, <2>3, GotoStep
    <2>5. \A k \in 1 .. Len(sendlist[t]) : sendlist[t][k].from # f.to
      BY <1>2, <1>4, <1>9 DEF FromSource, Source
    <2> QED
      BY <1>1, <1>2, <1>9, <2>2, <2>4, <2>5 DEF Received
  <1> QED
    BY <1>2, <1>8, <1>9

\* OnMessageReturns(t), for a message another thread sent, ...
Answers(t, n, f) ==
    /\ TopIs(t, n, f) /\ f.call = "OnMessage" /\ f.by = "Send" /\ IsRun(t, n)
    /\ Drops(t, n) /\ ~IsSend(t, n)' /\ ~IsRun(t, n)'
    /\ ready' = ready \cup {f.id} /\ wake' = [wake EXCEPT ![f.from] = TRUE]

\* ... for one it sent to itself, ...
Comes(t, n, f) ==
    /\ TopIs(t, n, f) /\ f.call = "OnMessage" /\ f.by = "Direct"
    /\ Drops(t, n) /\ ~IsSend(t, n)' /\ ~IsRun(t, n)'
    /\ ready' = ready /\ wake' = wake

\* ... or for a posted one.
Again(t, n, f, g) ==
    /\ TopIs(t, n, f) /\ f.call = "OnMessage" /\ f.by = "Dispatch" /\ n = 2
    /\ Shape' /\ Len(stack'[t]) = 1 /\ stack'[t][1] = g
    /\ g.call = "Get" /\ g.at = "ReceiveSends"
    /\ \A u \in Threads \ {t} : stack'[u] = stack[u]
    /\ ready' = ready /\ wake' = wake

\* Get is called with the current time.
LEMMA NewGetType ==
    ASSUME Typed
    PROVE  NewGet \in GetFrame /\ NewGet.call = "Get" /\ NewGet.at = "ReceiveSends"
  <1>1. Time \in Nat
    BY ThreadsConstantsOK DEF Typed, Time
  <1> QED
    BY <1>1 DEF NewGet, GetCall, GetFrame, kForever

\* A handler returns in one of the three ways.
LEMMA OnMessageReturnsStack ==
    ASSUME Shape, Typed, NEW t \in Threads, OnMessageReturns(t)
    PROVE  \E n, f, g : Answers(t, n, f) \/ Comes(t, n, f) \/ Again(t, n, f, g)
  <1>1. PICK n, f : TopIs(t, n, f)
    BY TopExists DEF OnMessageReturns, InHandler
  <1>2. f \in Frame /\ f = Top(t) /\ f.call = "OnMessage" /\ n \in Nat /\ n = Len(stack[t])
        /\ n >= 1 /\ f = stack[t][n]
    BY <1>1 DEF TopIs, OnMessageReturns, InHandler
  <1>3. f \in OnMessageFrame
    BY <1>2, FrameKinds
  <1>4. f.by \in {"Dispatch", "Send", "Direct"}
    BY <1>3 DEF OnMessageFrame
  <1>5. CASE f.by = "Dispatch"
    <2>1. PICK g : g = NewGet
      OBVIOUS
    <2>2. g \in GetFrame /\ g.call = "Get" /\ g.at = "ReceiveSends"
      BY <2>1, NewGetType
    <2>3. stack' = [stack EXCEPT ![t] = Goto(Returned(@), g)] /\ ready' = ready /\ wake' = wake
      BY <1>2, <1>5, <2>1 DEF OnMessageReturns
    <2>4. InHandler(t) /\ Top(t).by = "Dispatch"
      BY <1>2, <1>5 DEF OnMessageReturns
    <2>5. /\ Shape' /\ Len(stack[t]) = 2 /\ Len(stack'[t]) = 1 /\ stack'[t][1] = g
          /\ \A u \in Threads \ {t} : stack'[u] = stack[u]
      BY <2>2, <2>3, <2>4, DispatchedStep
    <2> QED
      BY <1>1, <1>2, <1>5, <2>2, <2>3, <2>5 DEF Again
  <1>6. CASE f.by # "Dispatch"
    <2>1. stack' = [stack EXCEPT ![t] = Returned(@)]
      BY <1>2, <1>6 DEF OnMessageReturns
    <2>2. Drops(t, n) /\ ~IsSend(t, n)' /\ ~IsRun(t, n)'
      BY <1>1, <1>2, <2>1, ReturnStep
    <2>3. CASE f.by = "Send"
      <3>1. ready' = ready \cup {f.id} /\ wake' = [wake EXCEPT ![f.from] = TRUE]
        BY <1>2, <2>3 DEF OnMessageReturns
      <3>2. IsRun(t, n)
        BY <1>2, <2>3 DEF IsRun
      <3> QED
        BY <1>1, <1>2, <2>2, <2>3, <3>1, <3>2 DEF Answers
    <2>4. CASE f.by = "Direct"
      <3>1. ready' = ready /\ wake' = wake
        BY <1>2, <2>4 DEF OnMessageReturns
      <3> QED
        BY <1>1, <1>2, <2>2, <2>4, <3>1 DEF Comes
    <2> QED
      BY <1>4, <1>6, <2>3, <2>4
  <1> QED
    BY <1>5, <1>6

\* The difference of two timestamps is a number.
LEMMA TimeDiffType ==
    ASSUME NEW a \in Nat, NEW b \in Nat
    PROVE  TimeDiff(a, b) \in Int
  <1>1. PICK d : d = (a - b) % TimeMod
    OBVIOUS
  <1>2. TimeMod \in Nat /\ TimeMod # 0
    BY ThreadsConstantsOK
  <1>3. a - b \in Int
    OBVIOUS
  <1>4. d \in Int
    BY <1>1, <1>2, <1>3
  <1>5. TimeDiff(a, b) = IF 2 * d >= TimeMod THEN d - TimeMod ELSE d
    BY <1>1 DEF TimeDiff
  <1> QED
    BY <1>2, <1>4, <1>5

\* The first pass of Get moves the delayed messages before the first that is later.
LEMMA DueCountFacts ==
    ASSUME NEW q \in Seq(Delayed), NEW cur \in Nat
    PROVE  /\ DueCount(q, cur) \in 0 .. Len(q)
           /\ DueCount(q, cur) < Len(q) => TimeIsLater(cur, q[DueCount(q, cur) + 1].msTrigger)
  <1> DEFINE P(n) == /\ \A i \in 1 .. n : ~TimeIsLater(cur, q[i].msTrigger)
                     /\ n < Len(q) => TimeIsLater(cur, q[n + 1].msTrigger)
             L == {i \in 1 .. Len(q) : TimeIsLater(cur, q[i].msTrigger)}
  <1>1. Len(q) \in Nat
    OBVIOUS
  <1>2. \E n \in 0 .. Len(q) : P(n)
    <2>1. CASE L = {}
      <3>1. P(Len(q))
        BY <1>1, <2>1
      <3> QED
        BY <1>1, <3>1
    <2>2. CASE L # {}
      <3>1. PICK a \in L : \A k \in L : a <= k
        <4> HIDE DEF L
        <4>1. L \in SUBSET (1 .. Len(q))
          BY DEF L
        <4> QED
          BY <1>1, <2>2, <4>1, EndsExist
      <3>2. a - 1 \in 0 .. Len(q) /\ (a - 1) + 1 = a
        BY <1>1
      <3>3. ASSUME NEW i \in 1 .. a - 1 PROVE ~TimeIsLater(cur, q[i].msTrigger)
        <4>1. i \in 1 .. Len(q) /\ ~(a <= i)
          BY <1>1
        <4> QED
          BY <3>1, <4>1
      <3>4. P(a - 1)
        BY <3>2, <3>3
      <3> QED
        BY <3>2, <3>4
    <2> QED
      BY <2>1, <2>2
  <1>3. DueCount(q, cur) = CHOOSE n \in 0 .. Len(q) : P(n)
    BY DEF DueCount
  <1>4. P(DueCount(q, cur)) => (DueCount(q, cur) < Len(q)
                                  => TimeIsLater(cur, q[DueCount(q, cur) + 1].msTrigger))
    OBVIOUS
  <1> HIDE DEF P
  <1> QED
    BY <1>2, <1>3, <1>4

\* The first k of the delayed messages c have joined the queue b, which is then q; f stay.
Moved(b, c, k, q, f) ==
    /\ Len(q) = Len(b) + k /\ \A i \in 1 .. Len(b) : q[i] = b[i]
    /\ \A i \in 1 .. k : q[Len(b) + i] = c[i].msg
    /\ Len(f) = Len(c) - k /\ \A i \in 1 .. Len(c) - k : f[i] = c[k + i]

\* Pull(t) of Get call f: the first k delayed messages join the queue, which is then q;
\* rest stay.
Pulled(t, f, k, q, rest) ==
    /\ k \in 0 .. Len(dmsgq[t]) /\ (f.at = "PullNext" => k = 0)
    /\ rest \in Seq(Delayed) /\ Len(rest) = Len(dmsgq[t]) - k
    /\ \A i \in 1 .. Len(dmsgq[t]) - k : rest[i] = dmsgq[t][k + i]
    /\ q \in Seq(Message)
    /\ \A i \in 1 .. Len(q) : \/ \E j \in 1 .. Len(msgq[t]) : q[i] = msgq[t][j]
                              \/ \E j \in 1 .. Len(dmsgq[t]) : q[i] = dmsgq[t][j].msg
    /\ Moved(msgq[t], dmsgq[t], k, q, rest)
    /\ f.at = "Pull" /\ Len(rest) > 0 => TimeIsLater(f.msCurrent, rest[1].msTrigger)
    /\ dmsgq' = [dmsgq EXCEPT ![t] = rest]
    /\ msgq' = [msgq EXCEPT ![t] = IF q = <<>> THEN q ELSE Tail(q)]
    /\ handled' = [handled EXCEPT ![t] = IF q = <<>> THEN handled[t] ELSE Append(handled[t], Head(q))]

\* Call f of Get waits for no timer, or for one that is to come.
TimerOK(f) == f.delay = kForever \/ f.delay > 0

\* Get goes on, as g, or a message is dispatched.
PullsOn(t, f, q, rest, g) ==
    /\ TopIs(t, 1, f) /\ f.call = "Get" /\ f.at \in {"Pull", "PullNext"}
    /\ g \in GetFrame /\ g.call = "Get" /\ Sets(t, 1, g)
    /\ g.at = IF q = <<>> THEN "CheckStop" ELSE "PullNext"
    /\ f.at = "Pull" => TimerOK(g) /\ (rest # <<>> => g.delay # kForever)
    /\ f.at = "PullNext" => g.delay = f.delay
Dispatches(t, f, g) ==
    /\ TopIs(t, 1, f) /\ f.call = "Get" /\ f.at \in {"Pull", "PullNext"}
    /\ g \in OnMessageFrame /\ g.call = "OnMessage" /\ g.by = "Dispatch" /\ Sets(t, 2, g)
    /\ ~IsSend(t, 2) /\ ~IsRun(t, 2)

\* A Get that runs is the only call of its thread.
LEMMA TopGet ==
    ASSUME Shape, NEW t \in Threads, Running(t), Top(t).call = "Get"
    PROVE  \E f : TopIs(t, 1, f) /\ f \in GetFrame /\ f.call = "Get" /\ f = Top(t)
  <1>1. PICK n, f : TopIs(t, n, f)
    BY TopExists
  <1>2. n \in 1 .. Len(stack[t]) /\ stack[t][n].call = "Get" /\ f \in Frame /\ f = Top(t)
    BY <1>1 DEF TopIs
  <1>3. n = 1
    BY <1>2, GetIsBottom
  <1>4. f \in GetFrame
    BY <1>2, FrameKinds
  <1> QED
    BY <1>1, <1>2, <1>3, <1>4

\* This is what Pull does.
LEMMA PullStack ==
    ASSUME Shape, Typed, NEW t \in Threads, Pull(t)
    PROVE  \E f, k, q, rest, g :
             Pulled(t, f, k, q, rest) /\ (PullsOn(t, f, q, rest, g) \/ Dispatches(t, f, g))
  <1>1. PICK f : TopIs(t, 1, f) /\ f \in GetFrame /\ f.call = "Get" /\ f = Top(t)
    <2>1. Running(t) /\ Top(t).call = "Get"
      BY DEF Pull, InCall
    <2> QED
      BY <2>1, TopGet
  <1>2. f.at \in {"Pull", "PullNext"}
    BY <1>1 DEF Pull, InCall
  <1>3. f.msCurrent \in Nat /\ f.delay \in Int
    BY <1>1 DEF GetFrame
  <1>4. dmsgq \in [Threads -> Seq(Delayed)] /\ msgq \in [Threads -> Seq(Message)]
    BY DEF Typed
  <1>5. PICK d, m : d = dmsgq[t] /\ m = msgq[t]
    OBVIOUS
  <1>6. d \in Seq(Delayed) /\ m \in Seq(Message)
    BY <1>4, <1>5
  <1>7. PICK k : k = IF f.at = "Pull" THEN DueCount(d, f.msCurrent) ELSE 0
    OBVIOUS
  <1>8. /\ k \in 0 .. Len(d) /\ (f.at = "PullNext" => k = 0)
        /\ f.at = "Pull" /\ k < Len(d) => TimeIsLater(f.msCurrent, d[k + 1].msTrigger)
    <2>1. PICK c : c = f.msCurrent
      OBVIOUS
    <2>2. c \in Nat /\ d \in Seq(Delayed)
      BY <1>3, <1>6, <2>1
    <2>3. /\ DueCount(d, c) \in 0 .. Len(d)
          /\ DueCount(d, c) < Len(d) => TimeIsLater(c, d[DueCount(d, c) + 1].msTrigger)
      BY <2>2, DueCountFacts
    <2>4. CASE f.at = "Pull"
      BY <1>7, <2>1, <2>3, <2>4
    <2>5. CASE f.at # "Pull"
      <3>1. k = 0 /\ Len(d) \in Nat
        BY <1>6, <1>7, <2>5
      <3> QED
        BY <2>5, <3>1
    <2> QED
      BY <2>4, <2>5
  <1>9. PICK rest : rest = SubSeq(d, k + 1, Len(d))
    OBVIOUS
  <1>10. PICK n \in Nat : n = Len(d)
    BY <1>6
  <1>11. k \in Nat /\ k <= n
    BY <1>8, <1>10
  <1>12. /\ rest \in Seq(Delayed) /\ Len(rest) = n - k
         /\ \A i \in 1 .. n - k : rest[i] = d[k + i]
    BY <1>6, <1>9, <1>10, <1>11
  <1>13. PICK a : a = [i \in 1 .. k |-> d[i].msg]
    OBVIOUS
  <1>14. \A i \in 1 .. k : i \in 1 .. n /\ d[i].msg \in Message
    <2>1. \A i \in 1 .. k : i \in 1 .. n
      BY <1>11
    <2>2. \A i \in 1 .. k : d[i] \in Delayed
      BY <1>6, <1>10, <2>1
    <2> QED
      BY <2>1, <2>2 DEF Delayed
  <1>15. a \in Seq(Message) /\ Len(a) = k /\ \A i \in 1 .. k : a[i] = d[i].msg
    BY <1>11, <1>13, <1>14
  <1>16. PICK q : q = m \o a
    OBVIOUS
  <1>17. PICK l \in Nat : l = Len(m)
    BY <1>6
  <1>18. q \in Seq(Message) /\ Joins(q, m, a, l, k)
    BY <1>6, <1>15, <1>16, <1>17, ConcatFacts
  <1>19. ASSUME NEW i \in 1 .. Len(q)
         PROVE  \/ \E j \in 1 .. Len(m) : q[i] = m[j]
                \/ \E j \in 1 .. Len(d) : q[i] = d[j].msg
    <2>1. i \in 1 .. l + k /\ q[i] = IF i <= l THEN m[i] ELSE a[i - l]
      BY <1>18 DEF Joins
    <2>2. CASE i <= l
      BY <1>17, <2>1, <2>2
    <2>3. CASE ~(i <= l)
      <3>1. i - l \in 1 .. k
        BY <1>11, <1>17, <2>1, <2>3
      <3>2. q[i] = d[i - l].msg /\ i - l \in 1 .. n
        BY <1>14, <1>15, <2>1, <2>3, <3>1
      <3> QED
        BY <1>10, <3>2
    <2> QED
      BY <2>2, <2>3
  <1>20. f.at = "Pull" /\ Len(rest) > 0 => TimeIsLater(f.msCurrent, rest[1].msTrigger)
    <2> SUFFICES ASSUME f.at = "Pull", Len(rest) > 0
                 PROVE  TimeIsLater(f.msCurrent, rest[1].msTrigger)
      OBVIOUS
    <2>1. k < n /\ 1 \in 1 .. n - k
      BY <1>11, <1>12
    <2>2. rest[1] = d[k + 1]
      BY <1>12, <2>1
    <2> QED
      BY <1>8, <1>10, <2>1, <2>2
  <1>21. PICK z : z = IF f.at = "PullNext" THEN f.delay
                      ELSE IF rest = <<>> THEN kForever
                      ELSE TimeDiff(rest[1].msTrigger, f.msCurrent)
    OBVIOUS
  <1>22. Pulled(t, f, k, q, rest)
    <2>1. /\ dmsgq' = [dmsgq EXCEPT ![t] = rest]
          /\ msgq' = [msgq EXCEPT ![t] = IF q = <<>> THEN q ELSE Tail(q)]
          /\ handled' = [handled EXCEPT ![t] = IF q = <<>> THEN @ ELSE Append(@, Head(q))]
      BY <1>1, <1>5, <1>7, <1>9, <1>13, <1>16 DEF Pull
    <2>2. handled' = [handled EXCEPT ![t] = IF q = <<>> THEN handled[t]
                                            ELSE Append(handled[t], Head(q))]
      BY <2>1 DEF Typed
    <2>3. Moved(m, d, k, q, rest)
      <3>1. \A i \in 1 .. l : i \in 1 .. l + k /\ i <= l
        BY <1>11
      <3>2. \A i \in 1 .. k : l + i \in 1 .. l + k /\ ~(l + i <= l) /\ (l + i) - l = i
        BY <1>11
      <3> QED
        BY <1>10, <1>12, <1>15, <1>17, <1>18, <3>1, <3>2 DEF Joins, Moved
    <2> QED
      BY <1>5, <1>8, <1>10, <1>12, <1>18, <1>19, <1>20, <2>1, <2>2, <2>3 DEF Pulled
  <1>23. CASE q = <<>> \/ Head(q).handler = MQID_DISPOSE
    <2>1. PICK b : b = IF q = <<>> THEN "CheckStop" ELSE "PullNext"
      OBVIOUS
    <2>2. PICK g : g = GetCall(b, f.msCurrent, z)
      OBVIOUS
    <2>3. stack' = [stack EXCEPT ![t] = Goto(@, g)]
      <3>1. CASE q = <<>>
        BY <1>1, <1>5, <1>7, <1>9, <1>13, <1>16, <1>21, <2>1, <2>2, <3>1, ZenonT(60) DEF Pull
      <3>2. CASE q # <<>>
        BY <1>1, <1>5, <1>7, <1>9, <1>13, <1>16, <1>21, <1>23, <2>1, <2>2, <3>2, ZenonT(60)
           DEF Pull
      <3> QED
        BY <3>1, <3>2
    <2>4. rest # <<>> => /\ Len(rest) > 0 /\ rest[1].msTrigger \in Nat
                         /\ TimeDiff(rest[1].msTrigger, f.msCurrent) \in Int
      <3> SUFFICES ASSUME rest # <<>>
                   PROVE  /\ Len(rest) > 0 /\ rest[1].msTrigger \in Nat
                          /\ TimeDiff(rest[1].msTrigger, f.msCurrent) \in Int
        OBVIOUS
      <3>1. Len(rest) > 0 /\ rest[1] \in Delayed
        BY <1>12
      <3>2. rest[1].msTrigger \in Nat
        BY <3>1 DEF Delayed
      <3> QED
        BY <1>3, <3>1, <3>2, TimeDiffType
    <2>5. z \in Int
      BY <1>3, <1>21, <2>4 DEF kForever
    <2>6. g \in GetFrame /\ g.call = "Get" /\ g.at = b /\ g.delay = z
      BY <1>3, <2>1, <2>2, <2>5 DEF GetCall, GetFrame
    <2>7. g \in Frame
      BY <2>6 DEF Frame
    <2>8. Sets(t, 1, g)
      BY <1>1, <2>3, <2>6, <2>7, GotoStep
    <2>9. f.at = "Pull" => TimerOK(g) /\ (rest # <<>> => g.delay # kForever)
      <3> SUFFICES ASSUME f.at = "Pull" PROVE TimerOK(g) /\ (rest # <<>> => g.delay # kForever)
        OBVIOUS
      <3>1. CASE rest = <<>>
        BY <1>21, <2>6, <3>1 DEF TimerOK
      <3>2. CASE rest # <<>>
        <4>1. z = TimeDiff(rest[1].msTrigger, f.msCurrent)
          BY <1>21, <3>2
        <4>2. z > 0
          BY <1>20, <2>4, <3>2, <4>1 DEF TimeIsLater
        <4> QED
          BY <2>5, <2>6, <4>2 DEF TimerOK, kForever
      <3> QED
        BY <3>1, <3>2
    <2>10. f.at = "PullNext" => g.delay = f.delay
      BY <1>21, <2>6
    <2>11. PullsOn(t, f, q, rest, g)
      BY <1>1, <1>2, <2>1, <2>6, <2>8, <2>9, <2>10 DEF PullsOn
    <2> QED
      BY <1>22, <2>11
  <1>24. CASE ~(q = <<>> \/ Head(q).handler = MQID_DISPOSE)
    <2>1. PICK g : g = OnMessageCall("Dispatch", NoSend, t)
      OBVIOUS
    <2>2. stack' = [stack EXCEPT ![t] = Append(@, g)]
      BY <1>1, <1>5, <1>7, <1>9, <1>13, <1>16, <1>24, <2>1 DEF Pull
    <2>3. g \in OnMessageFrame /\ g.call = "OnMessage" /\ g.by = "Dispatch"
      BY <2>1 DEF OnMessageCall, OnMessageFrame, NoSend
    <2>4. g \in Frame /\ Fits(f, g)
      BY <1>1, <2>3 DEF Frame, Fits
    <2>5. Sets(t, 1 + 1, g) /\ ~IsSend(t, 1 + 1) /\ ~IsRun(t, 1 + 1)
      BY <1>1, <2>2, <2>4, CallStep
    <2>6. 1 + 1 = 2
      OBVIOUS
    <2>7. Sets(t, 2, g) /\ ~IsSend(t, 2) /\ ~IsRun(t, 2)
      BY <2>5, <2>6
    <2>8. Dispatches(t, f, g)
      BY <1>1, <1>2, <2>3, <2>7 DEF Dispatches
    <2> QED
      BY <1>22, <2>8
  <1> QED
    BY <1>23, <1>24

\* CheckStop(t): the thread ends, ...
Ends(t, f) ==
    /\ TopIs(t, 1, f) /\ f.call = "Get"
    /\ Shape' /\ OnlyCall(t, 1) /\ Len(stack'[t]) = 0

\* ... or Get waits.
Waits(t, f, g) ==
    /\ TopIs(t, 1, f) /\ f.call = "Get" /\ f.at = "CheckStop"
    /\ g \in GetFrame /\ g.call = "Get" /\ Sets(t, 1, g)
    /\ g.at = "Wait" /\ ~fStop[t]
    /\ f.delay = kForever => g.delay = kForever
    /\ f.delay # kForever => g.delay = now + f.delay

\* This is what CheckStop does.
LEMMA CheckStopStack ==
    ASSUME Shape, Typed, NEW t \in Threads, CheckStop(t)
    PROVE  \E f, g : Ends(t, f) \/ Waits(t, f, g)
  <1>1. PICK f : TopIs(t, 1, f) /\ f \in GetFrame /\ f.call = "Get" /\ f = Top(t)
    <2>1. Running(t) /\ Top(t).call = "Get"
      BY DEF CheckStop, InCall
    <2> QED
      BY <2>1, TopGet
  <1>2. f.at = "CheckStop" /\ Len(stack[t]) = 1
    BY <1>1 DEF CheckStop, InCall, TopIs
  <1>3. f.msCurrent \in Nat /\ f.delay \in Int /\ now \in Nat
    BY <1>1 DEF GetFrame, Typed
  <1>4. CASE fStop[t]
    <2>1. stack' = [stack EXCEPT ![t] = <<>>]
      BY <1>4 DEF CheckStop
    <2>2. Shape' /\ Len(stack'[t]) = 0 /\ \A u \in Threads \ {t} : stack'[u] = stack[u]
      BY <2>1, EndedStep
    <2>3. OnlyCall(t, 1)
      <3>1. \A i \in Nat : i \in 1 .. 1 <=> i = 1
        OBVIOUS
      <3>2. \A i \in Nat : i \notin 1 .. 0
        OBVIOUS
      <3> QED
        BY <1>2, <2>2, <3>1, <3>2 DEF OnlyCall
    <2> QED
      BY <1>1, <2>2, <2>3 DEF Ends
  <1>5. CASE ~fStop[t]
    <2>1. PICK z : z = IF f.delay = kForever THEN kForever ELSE now + f.delay
      OBVIOUS
    <2>2. PICK g : g = GetCall("Wait", f.msCurrent, z)
      OBVIOUS
    <2>3. stack' = [stack EXCEPT ![t] = Goto(@, g)]
      BY <1>1, <1>5, <2>1, <2>2 DEF CheckStop
    <2>4. z \in Int
      BY <1>3, <2>1 DEF kForever
    <2>5. g \in GetFrame /\ g.call = "Get" /\ g.at = "Wait" /\ g.delay = z
      BY <1>3, <2>2, <2>4 DEF GetCall, GetFrame
    <2>6. g \in Frame
      BY <2>5 DEF Frame
    <2>7. Sets(t, 1, g)
      BY <1>1, <2>3, <2>5, <2>6, GotoStep
    <2>8. Waits(t, f, g)
      BY <1>1, <1>2, <1>5, <2>1, <2>5, <2>7 DEF Waits
    <2> QED
      BY <2>8
  <1> QED
    BY <1>4, <1>5

\* GetWait(t): the loop of Get starts again.
Wakes(t, f, g) ==
    /\ TopIs(t, 1, f) /\ f.call = "Get"
    /\ g \in GetFrame /\ g.call = "Get" /\ g.at = "ReceiveSends" /\ Sets(t, 1, g)
    /\ wake' = [wake EXCEPT ![t] = FALSE]

\* This is what GetWait does.
LEMMA GetWaitStack ==
    ASSUME Shape, Typed, NEW t \in Threads, GetWait(t)
    PROVE  \E f, g : Wakes(t, f, g)
  <1>1. PICK f : TopIs(t, 1, f) /\ f \in GetFrame /\ f.call = "Get" /\ f = Top(t)
    <2>1. Running(t) /\ Top(t).call = "Get"
      BY DEF GetWait, InCall
    <2> QED
      BY <2>1, TopGet
  <1>2. PICK g : g = NewGet
    OBVIOUS
  <1>3. g \in GetFrame /\ g.call = "Get" /\ g.at = "ReceiveSends"
    BY <1>2, NewGetType
  <1>4. stack' = [stack EXCEPT ![t] = Goto(@, g)] /\ wake' = [wake EXCEPT ![t] = FALSE]
    BY <1>2 DEF GetWait
  <1>5. g \in Frame
    BY <1>3 DEF Frame
  <1>6. Sets(t, 1, g)
    BY <1>1, <1>3, <1>4, <1>5, GotoStep
  <1> QED
    BY <1>1, <1>3, <1>4, <1>6 DEF Wakes

\* The running call of t is a Send.
TopSend(t, n, f) ==
    /\ TopIs(t, n, f) /\ IsSend(t, n) /\ f \in SendFrame /\ f.call = "Send"
    /\ f.to \in Threads /\ f.id \in Nat /\ f.handler \in Handlers /\ f.waited \in BOOLEAN

\* It exists if the thread is in Send.
LEMMA TopSendExists ==
    ASSUME Shape, NEW t \in Threads, NEW a, InCall(t, "Send", a)
    PROVE  \E n, f : TopSend(t, n, f) /\ f = Top(t) /\ f.at = a
  <1>1. PICK n, f : TopIs(t, n, f)
    BY TopExists DEF InCall
  <1>2. f \in Frame /\ f.call = "Send" /\ f = Top(t) /\ f.at = a /\ f = stack[t][n]
        /\ n \in 1 .. Len(stack[t])
    BY <1>1 DEF TopIs, InCall
  <1>3. f \in SendFrame
    BY <1>2, FrameKinds
  <1>4. f.to \in Threads /\ f.id \in Nat /\ f.handler \in Handlers /\ f.waited \in BOOLEAN
    BY <1>3 DEF SendFrame
  <1>5. IsSend(t, n)
    BY <1>2 DEF IsSend
  <1> QED
    BY <1>1, <1>2, <1>3, <1>4, <1>5 DEF TopSend

\* It goes on, as g.
SendGoes(t, n, f, g) ==
    /\ TopSend(t, n, f) /\ Sets(t, n, g) /\ IsSend(t, n)' /\ ~IsRun(t, n) /\ ~IsRun(t, n)'
    /\ g \in SendFrame /\ g.to = f.to /\ g.id = f.id

\* Its stack is set.
LEMMA SendGoesStep ==
    ASSUME Shape, NEW t \in Threads, NEW n, NEW f, TopSend(t, n, f), NEW g \in SendFrame,
           g.to = f.to, g.id = f.id, stack' = [stack EXCEPT ![t] = Goto(@, g)]
    PROVE  SendGoes(t, n, f, g)
  <1>1. TopIs(t, n, f) /\ f.call = "Send" /\ f = stack[t][n]
    BY DEF TopSend, TopIs
  <1>2. g.call = "Send" /\ g \in Frame
    BY DEF SendFrame, Frame
  <1>3. Sets(t, n, g)
    BY <1>1, <1>2, GotoStep
  <1>4. IsSend(t, n)' /\ ~IsRun(t, n) /\ ~IsRun(t, n)'
    BY <1>1, <1>2, <1>3 DEF Sets, IsSend, IsRun
  <1> QED
    BY <1>3, <1>4 DEF SendGoes

\* SendPush(t): the message is put in the list.
Enlists(t, n, f, g, m) ==
    /\ SendGoes(t, n, f, g) /\ f.at = "Push" /\ g.at = "WakeUp" /\ g.waited = f.waited
    /\ m \in SendMessage /\ m.id = f.id /\ m.from = t
    /\ sendlist' = [sendlist EXCEPT ![f.to] = Append(sendlist[f.to], m)]

\* This is what SendPush does.
LEMMA SendPushStack ==
    ASSUME Shape, Typed, NEW t \in Threads, SendPush(t)
    PROVE  \E n, f, g, m : Enlists(t, n, f, g, m)
  <1>1. PICK n, f : TopSend(t, n, f) /\ f = Top(t) /\ f.at = "Push"
    BY TopSendExists DEF SendPush
  <1>2. PICK g : g = [f EXCEPT !.at = "WakeUp"]
    OBVIOUS
  <1>3. f \in SendFrame /\ f.to \in Threads /\ f.id \in Nat /\ f.handler \in Handlers
    BY <1>1 DEF TopSend
  <1>4. g \in SendFrame /\ g.to = f.to /\ g.id = f.id /\ g.at = "WakeUp" /\ g.waited = f.waited
    BY <1>2, <1>3 DEF SendFrame
  <1>5. PICK m : m = [id |-> f.id, from |-> t, handler |-> f.handler]
    OBVIOUS
  <1>6. m \in SendMessage /\ m.id = f.id /\ m.from = t
    BY <1>3, <1>5 DEF SendMessage
  <1>7. stack' = [stack EXCEPT ![t] = Goto(@, g)]
        /\ sendlist' = [sendlist EXCEPT ![f.to] = Append(@, m)]
    BY <1>1, <1>2, <1>5 DEF SendPush
  <1>8. sendlist' = [sendlist EXCEPT ![f.to] = Append(sendlist[f.to], m)]
    BY <1>7
  <1>9. SendGoes(t, n, f, g)
    BY <1>1, <1>4, <1>7, SendGoesStep
  <1> QED
    BY <1>1, <1>4, <1>6, <1>8, <1>9 DEF Enlists

\* SendWakeUp(t): the callee is signalled.
Signals(t, n, f, g) ==
    /\ SendGoes(t, n, f, g) /\ f.at = "WakeUp" /\ g.at = "Test" /\ g.waited = f.waited
    /\ wake' = [wake EXCEPT ![f.to] = TRUE]

\* This is what SendWakeUp does.
LEMMA SendWakeUpStack ==
    ASSUME Shape, Typed, NEW t \in Threads, SendWakeUp(t)
    PROVE  \E n, f, g : Signals(t, n, f, g)
  <1>1. PICK n, f : TopSend(t, n, f) /\ f = Top(t) /\ f.at = "WakeUp"
    BY TopSendExists DEF SendWakeUp
  <1>2. PICK g : g = [f EXCEPT !.at = "Test"]
    OBVIOUS
  <1>3. f \in SendFrame
    BY <1>1 DEF TopSend
  <1>4. g \in SendFrame /\ g.to = f.to /\ g.id = f.id /\ g.at = "Test" /\ g.waited = f.waited
    BY <1>2, <1>3 DEF SendFrame
  <1>5. stack' = [stack EXCEPT ![t] = Goto(@, g)] /\ wake' = [wake EXCEPT ![f.to] = TRUE]
    BY <1>1, <1>2 DEF SendWakeUp
  <1>6. SendGoes(t, n, f, g)
    BY <1>1, <1>4, <1>5, SendGoesStep
  <1> QED
    BY <1>1, <1>4, <1>5, <1>6 DEF Signals

\* SendTest(t): there is an answer, and Send returns, ...
Finishes(t, n, f) ==
    /\ TopSend(t, n, f) /\ f.at = "Test" /\ f.id \in ready
    /\ Drops(t, n) /\ ~IsSend(t, n)' /\ ~IsRun(t, n) /\ ~IsRun(t, n)'
    /\ wake' = [wake EXCEPT ![t] = wake[t] \/ f.waited]

\* ... or there is none.
Receiving(t, n, f, g) ==
    /\ SendGoes(t, n, f, g) /\ f.at = "Test" /\ g.at = "ReceiveSends" /\ g.waited = f.waited
    /\ f.id \notin ready /\ wake' = wake

\* This is what SendTest does.
LEMMA SendTestStack ==
    ASSUME Shape, Typed, NEW t \in Threads, SendTest(t)
    PROVE  \E n, f, g : Finishes(t, n, f) \/ Receiving(t, n, f, g)
  <1>1. PICK n, f : TopSend(t, n, f) /\ f = Top(t) /\ f.at = "Test"
    BY TopSendExists DEF SendTest
  <1>2. f \in SendFrame /\ f.call = "Send" /\ TopIs(t, n, f) /\ f = stack[t][n]
    BY <1>1 DEF TopSend, TopIs
  <1>3. CASE f.id \in ready
    <2>1. stack' = [stack EXCEPT ![t] = Returned(@)]
          /\ wake' = [wake EXCEPT ![t] = @ \/ f.waited]
      BY <1>1, <1>3 DEF SendTest
    <2>2. Drops(t, n) /\ ~IsSend(t, n)' /\ ~IsRun(t, n)'
      BY <1>2, <2>1, ReturnStep
    <2>3. ~IsRun(t, n)
      BY <1>2 DEF IsRun
    <2>4. wake' = [wake EXCEPT ![t] = wake[t] \/ f.waited]
      BY <2>1 DEF Typed
    <2>5. Finishes(t, n, f)
      BY <1>1, <1>3, <2>2, <2>3, <2>4 DEF Finishes
    <2> QED
      BY <2>5
  <1>4. CASE f.id \notin ready
    <2>1. PICK g : g = [f EXCEPT !.at = "ReceiveSends"]
      OBVIOUS
    <2>2. g \in SendFrame /\ g.to = f.to /\ g.id = f.id /\ g.at = "ReceiveSends"
          /\ g.waited = f.waited
      BY <1>2, <2>1 DEF SendFrame
    <2>3. stack' = [stack EXCEPT ![t] = Goto(@, g)] /\ wake' = wake
      BY <1>1, <1>4, <2>1 DEF SendTest
    <2>4. SendGoes(t, n, f, g)
      BY <1>1, <2>2, <2>3, SendGoesStep
    <2>5. Receiving(t, n, f, g)
      BY <1>1, <1>4, <2>2, <2>3, <2>4 DEF Receiving
    <2> QED
      BY <2>5
  <1> QED
    BY <1>3, <1>4

\* SendWait(t): it is woken, and remembers it.
Woken(t, n, f, g) ==
    /\ SendGoes(t, n, f, g) /\ f.at = "Wait" /\ g.at = "Test" /\ g.waited = TRUE
    /\ wake' = [wake EXCEPT ![t] = FALSE]

\* This is what SendWait does.
LEMMA SendWaitStack ==
    ASSUME Shape, Typed, NEW t \in Threads, SendWait(t)
    PROVE  \E n, f, g : Woken(t, n, f, g)
  <1>1. PICK n, f : TopSend(t, n, f) /\ f = Top(t) /\ f.at = "Wait"
    BY TopSendExists DEF SendWait
  <1>2. PICK g : g = [f EXCEPT !.at = "Test", !.waited = TRUE]
    OBVIOUS
  <1>3. f \in SendFrame
    BY <1>1 DEF TopSend
  <1>4. g \in SendFrame /\ g.to = f.to /\ g.id = f.id /\ g.at = "Test" /\ g.waited = TRUE
    BY <1>2, <1>3 DEF SendFrame
  <1>5. stack' = [stack EXCEPT ![t] = Goto(@, g)] /\ wake' = [wake EXCEPT ![t] = FALSE]
    BY <1>1, <1>2 DEF SendWait
  <1>6. SendGoes(t, n, f, g)
    BY <1>1, <1>4, <1>5, SendGoesStep
  <1> QED
    BY <1>1, <1>4, <1>5, <1>6 DEF Woken

\* A handler of t makes call g.
HandlerCalls(t, n, f, g) ==
    /\ TopIs(t, n, f) /\ f.call = "OnMessage" /\ n + 1 \in Nat
    /\ g \in Frame /\ Sets(t, n + 1, g) /\ ~IsSend(t, n + 1) /\ ~IsRun(t, n + 1)

\* Its stack is set.
LEMMA HandlerCallsStep ==
    ASSUME Shape, NEW t \in Threads, InHandler(t), NEW g \in Frame,
           g.call \in {"Send", "Post"} \/ (g.call = "OnMessage" /\ g.by = "Direct"),
           stack' = [stack EXCEPT ![t] = Append(@, g)]
    PROVE  \E n, f : HandlerCalls(t, n, f, g)
  <1>1. PICK n, f : TopIs(t, n, f)
    BY TopExists DEF InHandler
  <1>2. f.call = "OnMessage"
    BY <1>1 DEF TopIs, InHandler
  <1>3. Fits(f, g)
    BY <1>2 DEF Fits
  <1>4. n + 1 \in Nat /\ Sets(t, n + 1, g) /\ ~IsSend(t, n + 1) /\ ~IsRun(t, n + 1)
    BY <1>1, <1>3, CallStep
  <1> QED
    BY <1>1, <1>2, <1>4 DEF HandlerCalls

\* Send runs the handler itself, or is about to push the message.
Begins(t, u, n, f, g) ==
    /\ HandlerCalls(t, n, f, g)
    /\ \/ g \in OnMessageFrame /\ g.call = "OnMessage" /\ g.by = "Direct"
       \/ /\ g \in SendFrame /\ g.call = "Send" /\ g.at = "Push" /\ g.to = u /\ g.to # t
          /\ g.id = sends + 1 /\ g.waited = FALSE

\* This is what Send does.
LEMMA SendStack ==
    ASSUME Shape, Typed, NEW t \in Threads, NEW u \in Threads, NEW h \in Handlers, Send(t, u, h)
    PROVE  \E n, f, g : Begins(t, u, n, f, g)
  <1>1. sends \in Nat /\ InHandler(t)
    BY DEF Typed, Send
  <1>2. CASE u = t
    <2>1. PICK g : g = OnMessageCall("Direct", NoSend, t)
      OBVIOUS
    <2>2. g \in OnMessageFrame /\ g.call = "OnMessage" /\ g.by = "Direct"
      BY <2>1 DEF OnMessageCall, OnMessageFrame, NoSend
    <2>3. g \in Frame
      BY <2>2 DEF Frame
    <2>4. stack' = [stack EXCEPT ![t] = Append(@, g)]
      BY <1>2, <2>1 DEF Send
    <2>5. \E n, f : HandlerCalls(t, n, f, g)
      BY <1>1, <2>2, <2>3, <2>4, HandlerCallsStep
    <2> QED
      BY <2>2, <2>5 DEF Begins
  <1>3. CASE u # t
    <2>1. PICK g : g = SendCall("Push", u, sends + 1, h, FALSE)
      OBVIOUS
    <2>2. /\ g \in SendFrame /\ g.call = "Send" /\ g.at = "Push" /\ g.to = u
          /\ g.id = sends + 1 /\ g.waited = FALSE
      BY <1>1, <2>1 DEF SendCall, SendFrame
    <2>3. g \in Frame
      BY <2>2 DEF Frame
    <2>4. stack' = [stack EXCEPT ![t] = Append(@, g)]
      BY <1>3, <2>1 DEF Send
    <2>5. \E n, f : HandlerCalls(t, n, f, g)
      BY <1>1, <2>2, <2>3, <2>4, HandlerCallsStep
    <2> QED
      BY <1>3, <2>2, <2>5 DEF Begins
  <1> QED
    BY <1>2, <1>3

\* This is what Post does.
LEMMA PostStack ==
    ASSUME Shape, Typed, NEW t \in Threads, NEW u \in Threads,
           NEW h \in Handlers \cup {MQID_DISPOSE}, Post(t, u, h)
    PROVE  \E n, f, g : HandlerCalls(t, n, f, g) /\ g \in PostFrame /\ g.call = "Post"
  <1>1. now \in Nat /\ InHandler(t)
    BY DEF Typed, Post
  <1>2. PICK d \in Delays \cup {kForever} :
          stack' = [stack EXCEPT ![t] = Append(@,
             PostCall(u, [id |-> 0, handler |-> h, due |-> IF d = kForever THEN now ELSE now + d,
                          delayed |-> d # kForever]))]
    BY DEF Post
  <1>3. PICK due, b : due = (IF d = kForever THEN now ELSE now + d) /\ b = (d # kForever)
    OBVIOUS
  <1>4. due \in Nat /\ b \in BOOLEAN
    BY <1>1, <1>3, ThreadsConstantsOK
  <1>5. PICK m : m = [id |-> 0, handler |-> h, due |-> due, delayed |-> b]
    OBVIOUS
  <1>6. m \in Message
    BY <1>4, <1>5 DEF Message, AllHandlers
  <1>7. PICK g : g = PostCall(u, m)
    OBVIOUS
  <1>8. g \in PostFrame /\ g.call = "Post"
    BY <1>6, <1>7 DEF PostCall, PostFrame
  <1>9. g \in Frame
    BY <1>8 DEF Frame
  <1>10. stack' = [stack EXCEPT ![t] = Append(@, g)]
    BY <1>2, <1>3, <1>5, <1>7
  <1>11. \E n, f : HandlerCalls(t, n, f, g)
    BY <1>1, <1>8, <1>9, <1>10, HandlerCallsStep
  <1> QED
    BY <1>8, <1>11

\* r is q with d put in behind the first n.
Inserts(q, d, n, r) ==
    /\ n \in 0 .. Len(q) /\ Len(r) = Len(q) + 1 /\ r[n + 1] = d
    /\ \A i \in 1 .. n : r[i] = q[i]
    /\ \A i \in n + 1 .. Len(q) : r[i + 1] = q[i]

\* A delayed message is put between two parts of the queue.
LEMMA PushDelayedFacts ==
    ASSUME NEW q \in Seq(Delayed), NEW d \in Delayed
    PROVE  /\ PushDelayed(q, d) \in Seq(Delayed)
           /\ \A i \in 1 .. Len(PushDelayed(q, d)) :
                PushDelayed(q, d)[i] = d \/ \E j \in 1 .. Len(q) : PushDelayed(q, d)[i] = q[j]
           /\ Inserts(q, d, Cardinality({i \in DOMAIN q : ~PoppedBefore(d, q[i])}), PushDelayed(q, d))
  <1>1. PICK l \in Nat : l = Len(q)
    OBVIOUS
  <1> DEFINE S == {i \in DOMAIN q : ~PoppedBefore(d, q[i])}
  <1>2. PICK n : n = Cardinality(S)
    OBVIOUS
  <1>3. n \in Nat /\ n <= l
    <2>1. IsFiniteSet(1 .. l) /\ Cardinality(1 .. l) = l
      BY FS_Interval
    <2>2. S \subseteq 1 .. l
      BY <1>1
    <2> HIDE DEF S
    <2> QED
      BY <1>2, <2>1, <2>2, FS_Subset, FS_CardinalityType
  <1>4. PICK a, b, c : a = SubSeq(q, 1, n) /\ b = <<d>> /\ c = SubSeq(q, n + 1, l)
    OBVIOUS
  <1>5. PushDelayed(q, d) = (a \o b) \o c
    <2> HIDE DEF S
    <2>1. PushDelayed(q, d) = LET k == Cardinality(S)
                              IN  SubSeq(q, 1, k) \o <<d>> \o SubSeq(q, k + 1, Len(q))
      BY DEF PushDelayed, S
    <2> QED
      BY <1>1, <1>2, <1>4, <2>1
  <1> HIDE DEF S
  <1>6. a \in Seq(Delayed) /\ Len(a) = n /\ \A i \in 1 .. n : a[i] = q[i]
    BY <1>1, <1>3, <1>4
  <1>7. b \in Seq(Delayed) /\ Len(b) = 1 /\ b[1] = d
    BY <1>4
  <1>8. c \in Seq(Delayed) /\ Len(c) = l - n /\ \A i \in 1 .. l - n : c[i] = q[n + i]
    BY <1>1, <1>3, <1>4
  <1>9. PICK e : e = a \o b
    OBVIOUS
  <1>10. e \in Seq(Delayed) /\ Joins(e, a, b, n, 1)
    BY <1>6, <1>7, <1>9, ConcatFacts
  <1>11. Len(e) = n + 1 /\ \A i \in 1 .. n + 1 : e[i] = IF i <= n THEN a[i] ELSE b[i - n]
    BY <1>10 DEF Joins
  <1>12. PICK r, k : r = e \o c /\ k = l - n
    OBVIOUS
  <1>13. r \in Seq(Delayed) /\ Joins(r, e, c, n + 1, k)
    BY <1>8, <1>10, <1>11, <1>12, ConcatFacts
  <1>14. Len(r) = (n + 1) + k
         /\ \A i \in 1 .. (n + 1) + k : r[i] = IF i <= n + 1 THEN e[i] ELSE c[i - (n + 1)]
    BY <1>13 DEF Joins
  <1>15. ASSUME NEW i \in 1 .. Len(r)
         PROVE  r[i] = d \/ \E j \in 1 .. Len(q) : r[i] = q[j]
    <2>1. r[i] = IF i <= n + 1 THEN e[i] ELSE c[i - (n + 1)]
      BY <1>14
    <2>2. CASE i <= n
      <3>1. i \in 1 .. n /\ i \in 1 .. n + 1 /\ i \in 1 .. l
        BY <1>1, <1>3, <1>12, <1>14, <2>2
      <3>2. r[i] = q[i]
        BY <1>6, <1>11, <2>1, <2>2, <3>1
      <3> QED
        BY <1>1, <3>1, <3>2
    <2>3. CASE i = n + 1
      <3>1. i - n = 1 /\ ~(i <= n) /\ i <= n + 1 /\ i \in 1 .. n + 1
        BY <1>3, <2>3
      <3> QED
        BY <1>7, <1>11, <2>1, <3>1
    <2>4. CASE i > n + 1
      <3>1. i - (n + 1) \in 1 .. l - n /\ n + (i - (n + 1)) \in 1 .. l /\ ~(i <= n + 1)
        BY <1>1, <1>3, <1>12, <1>14, <2>4
      <3>2. r[i] = q[n + (i - (n + 1))]
        BY <1>8, <2>1, <3>1
      <3> QED
        BY <1>1, <3>1, <3>2
    <2> QED
      BY <1>3, <2>2, <2>3, <2>4
  <1>16. PushDelayed(q, d) = r
    BY <1>5, <1>9, <1>12
  <1>17. Inserts(q, d, n, r)
    <2>1. n \in 0 .. l /\ Len(r) = l + 1
      BY <1>3, <1>12, <1>14
    <2>2. r[n + 1] = d
      <3>1. n + 1 \in 1 .. (n + 1) + k /\ n + 1 \in 1 .. n + 1 /\ ~(n + 1 <= n) /\ (n + 1) - n = 1
        BY <1>3, <1>12
      <3> QED
        BY <1>7, <1>11, <1>14, <3>1
    <2>3. ASSUME NEW i \in 1 .. n PROVE r[i] = q[i]
      <3>1. i \in 1 .. (n + 1) + k /\ i \in 1 .. n + 1 /\ i <= n /\ i <= n + 1
        BY <1>3, <1>12
      <3> QED
        BY <1>6, <1>11, <1>14, <3>1
    <2>4. ASSUME NEW i \in n + 1 .. l PROVE r[i + 1] = q[i]
      <3>1. /\ i + 1 \in 1 .. (n + 1) + k /\ ~(i + 1 <= n + 1) /\ (i + 1) - (n + 1) = i - n
            /\ i - n \in 1 .. l - n /\ n + (i - n) = i
        BY <1>3, <1>12
      <3> QED
        BY <1>8, <1>14, <3>1
    <2> QED
      BY <1>1, <2>1, <2>2, <2>3, <2>4 DEF Inserts
  <1> QED
    BY <1>2, <1>13, <1>15, <1>16, <1>17 DEF S

\* Message m is put behind the queue of u, or where it belongs among the delayed ones.
Placed(u, m) ==
    IF m.delayed
    THEN /\ msgq'[u] = msgq[u]
         /\ dmsgq'[u] = PushDelayed(dmsgq[u], [msTrigger |-> m.due % TimeMod, num |-> m.id, msg |-> m])
    ELSE dmsgq'[u] = dmsgq[u] /\ msgq'[u] = Append(msgq[u], m)

\* PostPush(t): message m, the next of the queue of u, is queued, and u woken.
Queues(t, n, f, m, u) ==
    /\ TopIs(t, n, f) /\ f.call = "Post" /\ u = f.to /\ u \in Threads
    /\ Drops(t, n) /\ ~IsSend(t, n) /\ ~IsSend(t, n)' /\ ~IsRun(t, n) /\ ~IsRun(t, n)'
    /\ m \in Message /\ m.id = posts + 1
    /\ pushed' = [pushed EXCEPT ![u] = @ \cup {m}]
    /\ wake' = [wake EXCEPT ![u] = TRUE]
    /\ Placed(u, m)
    /\ dmsgq' \in [Threads -> Seq(Delayed)] /\ msgq' \in [Threads -> Seq(Message)]
    /\ \A v \in Threads \ {u} : msgq'[v] = msgq[v] /\ dmsgq'[v] = dmsgq[v]
    /\ \A i \in 1 .. Len(msgq'[u]) :
         msgq'[u][i] = m \/ \E j \in 1 .. Len(msgq[u]) : msgq'[u][i] = msgq[u][j]
    /\ \A i \in 1 .. Len(dmsgq'[u]) :
         dmsgq'[u][i].msg = m \/ \E j \in 1 .. Len(dmsgq[u]) : dmsgq'[u][i] = dmsgq[u][j]

\* This is what PostPush does.
LEMMA PostPushStack ==
    ASSUME Shape, Typed, NEW t \in Threads, PostPush(t)
    PROVE  \E n, f, m, u : Queues(t, n, f, m, u)
  <1>1. PICK n, f : TopIs(t, n, f)
    BY TopExists DEF PostPush, PushMessage
  <1>2. f \in Frame /\ f = Top(t) /\ f.call = "Post" /\ f = stack[t][n]
    BY <1>1 DEF TopIs, PostPush, PushMessage
  <1>3. f \in PostFrame
    BY <1>2, FrameKinds
  <1>4. f.to \in Threads /\ f.msg \in Message /\ posts \in Nat
    BY <1>3 DEF PostFrame, Typed
  <1>5. PICK u, m, o : u = f.to /\ o = f.msg /\ m = [o EXCEPT !.id = posts + 1]
    OBVIOUS
  <1>6. m \in Message /\ m.id = posts + 1 /\ m.due \in Nat /\ u \in Threads
    BY <1>4, <1>5 DEF Message
  <1>7. PICK d : d = [msTrigger |-> m.due % TimeMod, num |-> m.id, msg |-> m]
    OBVIOUS
  <1>8. d \in Delayed /\ d.msg = m
    <2>1. m.due % TimeMod \in Nat
      BY <1>6, ThreadsConstantsOK
    <2>2. m.id \in Nat
      BY <1>4, <1>6
    <2> QED
      BY <1>6, <1>7, <2>1, <2>2 DEF Delayed
  <1>9. /\ pushed' = [pushed EXCEPT ![u] = @ \cup {m}]
        /\ wake' = [wake EXCEPT ![u] = TRUE]
        /\ stack' = [stack EXCEPT ![t] = Returned(@)]
        /\ IF m.delayed
           THEN dmsgq' = [dmsgq EXCEPT ![u] = PushDelayed(@, d)] /\ msgq' = msgq
           ELSE msgq' = [msgq EXCEPT ![u] = Append(@, m)] /\ dmsgq' = dmsgq
    BY <1>2, <1>5, <1>7 DEF PostPush, PushMessage
  <1>10. Drops(t, n) /\ ~IsSend(t, n)' /\ ~IsRun(t, n)'
    BY <1>1, <1>2, <1>9, ReturnStep
  <1>11. ~IsSend(t, n) /\ ~IsRun(t, n)
    BY <1>2 DEF IsSend, IsRun
  <1>12. dmsgq \in [Threads -> Seq(Delayed)] /\ msgq \in [Threads -> Seq(Message)]
    BY DEF Typed
  <1>13. PICK a, b : a = dmsgq[u] /\ b = msgq[u]
    OBVIOUS
  <1>14. a \in Seq(Delayed) /\ b \in Seq(Message)
    BY <1>6, <1>12, <1>13
  <1>15. /\ dmsgq' \in [Threads -> Seq(Delayed)] /\ msgq' \in [Threads -> Seq(Message)]
         /\ \A v \in Threads \ {u} : msgq'[v] = msgq[v] /\ dmsgq'[v] = dmsgq[v]
         /\ \A i \in 1 .. Len(msgq'[u]) :
              msgq'[u][i] = m \/ \E j \in 1 .. Len(msgq[u]) : msgq'[u][i] = msgq[u][j]
         /\ \A i \in 1 .. Len(dmsgq'[u]) :
              dmsgq'[u][i].msg = m \/ \E j \in 1 .. Len(dmsgq[u]) : dmsgq'[u][i] = dmsgq[u][j]
    <2>1. CASE m.delayed
      <3>1. PICK r : r = PushDelayed(a, d)
        OBVIOUS
      <3>2. /\ r \in Seq(Delayed)
            /\ \A i \in 1 .. Len(r) : r[i] = d \/ \E j \in 1 .. Len(a) : r[i] = a[j]
        BY <1>8, <1>14, <3>1, PushDelayedFacts
      <3>3. dmsgq' = [dmsgq EXCEPT ![u] = r] /\ msgq' = msgq
        BY <1>9, <1>12, <1>13, <2>1, <3>1
      <3>4. dmsgq'[u] = r
        BY <1>6, <1>12, <3>3
      <3>5. dmsgq' \in [Threads -> Seq(Delayed)] /\ \A v \in Threads \ {u} : dmsgq'[v] = dmsgq[v]
        BY <1>12, <3>2, <3>3
      <3>6. d.msg = m
        BY <1>8
      <3>7. \A i \in 1 .. Len(dmsgq'[u]) :
              dmsgq'[u][i].msg = m \/ \E j \in 1 .. Len(dmsgq[u]) : dmsgq'[u][i] = dmsgq[u][j]
        BY <1>13, <3>2, <3>4, <3>6
      <3> QED
        BY <1>12, <3>3, <3>5, <3>7
    <2>2. CASE ~m.delayed
      <3>1. PICK r : r = Append(b, m)
        OBVIOUS
      <3>2. /\ r \in Seq(Message)
            /\ \A i \in 1 .. Len(r) : r[i] = m \/ \E j \in 1 .. Len(b) : r[i] = b[j]
        <4>1. PICK k \in Nat : k = Len(b)
          BY <1>14
        <4>2. r \in Seq(Message) /\ Len(r) = k + 1 /\ r[k + 1] = m /\ \A i \in 1 .. k : r[i] = b[i]
          BY <1>6, <1>14, <3>1, <4>1
        <4>3. \A i \in 1 .. k + 1 : i = k + 1 \/ i \in 1 .. k
          OBVIOUS
        <4> QED
          BY <4>1, <4>2, <4>3
      <3>3. msgq' = [msgq EXCEPT ![u] = r] /\ dmsgq' = dmsgq
        BY <1>9, <1>12, <1>13, <2>2, <3>1
      <3>4. msgq'[u] = r
        BY <1>6, <1>12, <3>3
      <3>5. msgq' \in [Threads -> Seq(Message)] /\ \A v \in Threads \ {u} : msgq'[v] = msgq[v]
        BY <1>12, <3>2, <3>3
      <3> QED
        BY <1>12, <1>13, <3>2, <3>3, <3>4, <3>5
    <2> QED
      BY <2>1, <2>2
  <1>16. u = f.to /\ pushed' = [pushed EXCEPT ![u] = @ \cup {m}] /\ wake' = [wake EXCEPT ![u] = TRUE]
    BY <1>5, <1>9
  <1>17. Placed(u, m)
    <2>1. CASE m.delayed
      BY <1>6, <1>7, <1>9, <1>12, <2>1 DEF Placed
    <2>2. CASE ~m.delayed
      BY <1>6, <1>9, <1>12, <2>2 DEF Placed
    <2> QED
      BY <2>1, <2>2
  <1>18. Queues(t, n, f, m, u)
    BY <1>1, <1>2, <1>6, <1>10, <1>11, <1>15, <1>16, <1>17 DEF Queues
  <1> QED
    BY <1>18

\* f[i] is where message i of the list of u was before those of H left it.
Leaves(f, u, H) ==
    /\ \A i \in 1 .. Len(sendlist'[u]) :
         /\ f[i] \in 1 .. Len(sendlist[u]) /\ sendlist'[u][i] = sendlist[u][f[i]]
         /\ sendlist[u][f[i]].handler \notin H
    /\ \A i, j \in 1 .. Len(sendlist'[u]) : f[i] = f[j] => i = j
    /\ \A k \in 1 .. Len(sendlist[u]) :
         sendlist[u][k].handler \notin H => \E i \in 1 .. Len(sendlist'[u]) : f[i] = k

\* r[i] was q[f[i]].
Picks(f, q, r) ==
    /\ \A i \in 1 .. Len(r) : f[i] \in 1 .. Len(q) /\ r[i] = q[f[i]]
    /\ \A i, j \in 1 .. Len(r) : i < j => f[i] < f[j]

\* What is left of the queues of u is in its order.
Thinned(u) == \E f, g : Picks(f, msgq[u], msgq'[u]) /\ Picks(g, dmsgq[u], dmsgq'[u])

\* Clear(u, H): the lists and the queues lose the messages of H, whose senders are told.
Clears(u, H) ==
    /\ sendlist' \in [Threads -> Seq(SendMessage)]
    /\ \A v \in Threads \ {u} : sendlist'[v] = sendlist[v] /\ msgq'[v] = msgq[v]
                                /\ dmsgq'[v] = dmsgq[v]
    /\ \E f : Leaves(f, u, H)
    /\ \A id : id \in ready' <=> \/ id \in ready
                                 \/ \E k \in 1 .. Len(sendlist[u]) :
                                      sendlist[u][k].handler \in H /\ sendlist[u][k].id = id
    /\ wake' \in [Threads -> BOOLEAN]
    /\ \A t \in Threads : wake[t] => wake'[t]
    /\ \A k \in 1 .. Len(sendlist[u]) : sendlist[u][k].handler \in H => wake'[sendlist[u][k].from]
    /\ msgq' \in [Threads -> Seq(Message)] /\ dmsgq' \in [Threads -> Seq(Delayed)]
    /\ Thinned(u)
    /\ \A i \in 1 .. Len(msgq'[u]) : /\ msgq'[u][i].handler \notin H
                                     /\ \E j \in 1 .. Len(msgq[u]) : msgq'[u][i] = msgq[u][j]
    /\ \A i \in 1 .. Len(dmsgq'[u]) : /\ dmsgq'[u][i].msg.handler \notin H
                                      /\ \E j \in 1 .. Len(dmsgq[u]) : dmsgq'[u][i] = dmsgq[u][j]

\* What Clear leaves of a queue.
LEMMA KeptElements ==
    ASSUME NEW X, NEW q \in Seq(X), NEW S \in SUBSET (1 .. Len(q))
    PROVE  /\ Kept(q, S) \in Seq(X)
           /\ \A i \in 1 .. Len(Kept(q, S)) : \E j \in S : Kept(q, S)[i] = q[j]
           /\ \E f : Picks(f, q, Kept(q, S))
  <1>1. PICK r : r = Kept(q, S)
    OBVIOUS
  <1>2. r \in Seq(X) /\ \E f : Lists(f, S, Len(r)) /\ \A i \in 1 .. Len(r) : r[i] = q[f[i]]
    BY <1>1, KeptFacts
  <1>3. PICK f : Lists(f, S, Len(r)) /\ \A i \in 1 .. Len(r) : r[i] = q[f[i]]
    BY <1>2
  <1>4. \A i \in 1 .. Len(r) : f[i] \in S
    BY <1>3 DEF Lists
  <1>5. Picks(f, q, r)
    <2>1. /\ \A i \in 1 .. Len(r) : f[i] \in 1 .. Len(q)
          /\ \A i, j \in 1 .. Len(r) : i < j => f[i] < f[j]
      BY <1>3, <1>4 DEF Lists
    <2> QED
      BY <1>3, <2>1 DEF Picks
  <1> QED
    BY <1>1, <1>2, <1>3, <1>4, <1>5

\* This is what Clear does.
LEMMA ClearFacts ==
    ASSUME Typed, NEW u \in Threads, NEW H, Clear(u, H)
    PROVE  Clears(u, H)
  <1>1. /\ sendlist \in [Threads -> Seq(SendMessage)] /\ wake \in [Threads -> BOOLEAN]
        /\ msgq \in [Threads -> Seq(Message)] /\ dmsgq \in [Threads -> Seq(Delayed)]
    BY DEF Typed
  <1>2. PICK q, a, b : q = sendlist[u] /\ a = msgq[u] /\ b = dmsgq[u]
    OBVIOUS
  <1>3. q \in Seq(SendMessage) /\ a \in Seq(Message) /\ b \in Seq(Delayed)
    BY <1>1, <1>2
  <1>4. /\ DOMAIN q = 1 .. Len(q) /\ Len(q) \in Nat
        /\ DOMAIN a = 1 .. Len(a) /\ DOMAIN b = 1 .. Len(b)
    BY <1>3
  <1>5. PICK gone, S : /\ gone = {i \in 1 .. Len(q) : q[i].handler \in H}
                       /\ S = (1 .. Len(q)) \ gone
    OBVIOUS
  <1>6. /\ sendlist' = [sendlist EXCEPT ![u] = Kept(q, S)]
        /\ ready' = ready \cup {q[i].id : i \in gone}
        /\ wake' = [t \in Threads |-> wake[t] \/ \E i \in gone : q[i].from = t]
    BY <1>1, <1>2, <1>4, <1>5 DEF Clear, ClearSends
  <1>7. PICK r : r = Kept(q, S)
    OBVIOUS
  <1>8. S \in SUBSET (1 .. Len(q))
    BY <1>5
  <1>9. r \in Seq(SendMessage) /\ \E f : Lists(f, S, Len(r)) /\ \A i \in 1 .. Len(r) : r[i] = q[f[i]]
    BY <1>3, <1>7, <1>8, KeptFacts
  <1>10. PICK f : Lists(f, S, Len(r)) /\ \A i \in 1 .. Len(r) : r[i] = q[f[i]]
    BY <1>9
  <1>11. PICK n \in Nat : n = Len(r)
    BY <1>9
  <1>12. /\ \A i \in 1 .. n : f[i] \in S
         /\ \A i, j \in 1 .. n : i < j => f[i] < f[j]
         /\ \A k \in S : \E i \in 1 .. n : f[i] = k
    BY <1>10, <1>11 DEF Lists
  <1>13. \A i, j \in 1 .. n : f[i] = f[j] => i = j
    <2> SUFFICES ASSUME NEW i \in 1 .. n, NEW j \in 1 .. n, f[i] = f[j], i # j PROVE FALSE
      OBVIOUS
    <2>1. i < j \/ j < i
      OBVIOUS
    <2>2. f[i] < f[j] \/ f[j] < f[i]
      BY <1>12, <2>1
    <2>3. f[i] \in Int /\ f[j] \in Int
      <3>1. f[i] \in 1 .. Len(q) /\ f[j] \in 1 .. Len(q)
        BY <1>8, <1>12
      <3> QED
        BY <1>4, <3>1
    <2> QED
      BY <2>2, <2>3
  <1>14. \A k : k \in S <=> k \in 1 .. Len(q) /\ q[k].handler \notin H
    BY <1>5
  <1>15. sendlist'[u] = r /\ \A v \in Threads \ {u} : sendlist'[v] = sendlist[v]
    BY <1>1, <1>6, <1>7
  <1>16. sendlist' \in [Threads -> Seq(SendMessage)]
    BY <1>1, <1>6, <1>7, <1>9
  <1>17. Leaves(f, u, H)
    BY <1>2, <1>10, <1>11, <1>12, <1>13, <1>14, <1>15 DEF Leaves
  <1>18. \A k : k \in gone <=> k \in 1 .. Len(q) /\ q[k].handler \in H
    BY <1>5
  <1>19. \A id : id \in ready' <=> \/ id \in ready
                                   \/ \E k \in 1 .. Len(sendlist[u]) :
                                        sendlist[u][k].handler \in H /\ sendlist[u][k].id = id
    BY <1>2, <1>6, <1>18
  <1>20. /\ wake' \in [Threads -> BOOLEAN]
         /\ \A t \in Threads : wake[t] => wake'[t]
    BY <1>1, <1>6
  <1>21. \A k \in 1 .. Len(sendlist[u]) : sendlist[u][k].handler \in H => wake'[sendlist[u][k].from]
    <2> SUFFICES ASSUME NEW k \in 1 .. Len(q), q[k].handler \in H PROVE wake'[q[k].from]
      BY <1>2
    <2>1. q[k].from \in Threads
      BY <1>1, <1>2, ListFacts
    <2>2. k \in gone
      BY <1>18
    <2> QED
      BY <1>6, <2>1, <2>2
  <1>22. PICK A, B : /\ A = {i \in 1 .. Len(a) : a[i].handler \notin H}
                     /\ B = {i \in 1 .. Len(b) : b[i].msg.handler \notin H}
    OBVIOUS
  <1>23. msgq' = [msgq EXCEPT ![u] = Kept(a, A)] /\ dmsgq' = [dmsgq EXCEPT ![u] = Kept(b, B)]
    BY <1>1, <1>2, <1>4, <1>22 DEF Clear, ClearPosts
  <1>24. PICK ka, kb : ka = Kept(a, A) /\ kb = Kept(b, B)
    OBVIOUS
  <1>25. /\ ka \in Seq(Message) /\ \A i \in 1 .. Len(ka) : \E j \in A : ka[i] = a[j]
         /\ \E k : Picks(k, a, ka)
    <2>1. A \in SUBSET (1 .. Len(a)) /\ a \in Seq(Message)
      BY <1>3, <1>22
    <2>2. /\ Kept(a, A) \in Seq(Message)
          /\ \A i \in 1 .. Len(Kept(a, A)) : \E j \in A : Kept(a, A)[i] = a[j]
          /\ \E k : Picks(k, a, Kept(a, A))
      BY <2>1, KeptElements
    <2> QED
      BY <1>24, <2>2
  <1>26. /\ kb \in Seq(Delayed) /\ \A i \in 1 .. Len(kb) : \E j \in B : kb[i] = b[j]
         /\ \E k : Picks(k, b, kb)
    <2>1. B \in SUBSET (1 .. Len(b))
      BY <1>22
    <2> QED
      BY <1>3, <1>24, <2>1, KeptElements
  <1>27. /\ msgq'[u] = ka /\ dmsgq'[u] = kb
         /\ \A v \in Threads \ {u} : msgq'[v] = msgq[v] /\ dmsgq'[v] = dmsgq[v]
    BY <1>1, <1>23, <1>24
  <1>28. msgq' \in [Threads -> Seq(Message)] /\ dmsgq' \in [Threads -> Seq(Delayed)]
    BY <1>1, <1>23, <1>24, <1>25, <1>26
  <1>29. \A i \in 1 .. Len(msgq'[u]) : /\ msgq'[u][i].handler \notin H
                                       /\ \E j \in 1 .. Len(msgq[u]) : msgq'[u][i] = msgq[u][j]
    BY <1>2, <1>22, <1>25, <1>27
  <1>30. \A i \in 1 .. Len(dmsgq'[u]) : /\ dmsgq'[u][i].msg.handler \notin H
                                        /\ \E j \in 1 .. Len(dmsgq[u]) : dmsgq'[u][i] = dmsgq[u][j]
    BY <1>2, <1>22, <1>26, <1>27
  <1>31. \A v \in Threads \ {u} : sendlist'[v] = sendlist[v] /\ msgq'[v] = msgq[v]
                                  /\ dmsgq'[v] = dmsgq[v]
    BY <1>15, <1>27
  <1>32. Thinned(u)
    BY <1>2, <1>25, <1>26, <1>27 DEF Thinned
  <1> QED
    BY <1>16, <1>17, <1>19, <1>20, <1>21, <1>28, <1>29, <1>30, <1>31, <1>32 DEF Clears

-----------------------------------------------------------------------------
(* Types and the shape of the stacks.                                      *)

\* The steps of a thread keep the types.
LEMMA TypedSteps ==
    ASSUME Typed, Shape, NEW t \in Threads, Step(t)
    PROVE  Typed'
  <1> USE DEF queues, history, counters
  <1>1. CASE ReceiveSend(t)
    <2>1. PICK n, f, i, m, g : Receives(t, n, f, i, m, g)
      BY <1>1, ReceiveSendStack
    <2>2. i \in 1 .. Len(sendlist[t]) /\ sendlist[t] \in Seq(SendMessage)
          /\ sendlist' = [sendlist EXCEPT ![t] = Without(sendlist[t], i)]
      BY <2>1 DEF Receives, Typed
    <2>3. Without(sendlist[t], i) \in Seq(SendMessage)
      BY <2>2, WithoutFacts
    <2>4. sendlist' \in [Threads -> Seq(SendMessage)]
      BY <2>2, <2>3 DEF Typed
    <2> QED
      BY <1>1, <2>4 DEF Typed, ReceiveSend
  <1>2. CASE ReceivedSends(t)
    BY <1>2 DEF Typed, ReceivedSends
  <1>3. CASE OnMessageReturns(t)
    <2>1. wake' \in [Threads -> BOOLEAN]
      BY <1>3 DEF Typed, OnMessageReturns
    <2> QED
      BY <1>3, <2>1 DEF Typed, OnMessageReturns
  <1>4. CASE Pull(t)
    <2>1. PICK f, k, q, rest : Pulled(t, f, k, q, rest)
      BY <1>4, PullStack
    <2>2. rest \in Seq(Delayed) /\ q \in Seq(Message)
      BY <2>1 DEF Pulled
    <2>3. (q # <<>> => Tail(q) \in Seq(Message) /\ Head(q) \in Message)
          /\ handled[t] \in Seq(Message)
      BY <2>2 DEF Typed
    <2>4. PICK a, b : /\ a = (IF q = <<>> THEN q ELSE Tail(q))
                      /\ b = (IF q = <<>> THEN handled[t] ELSE Append(handled[t], Head(q)))
      OBVIOUS
    <2>5. a \in Seq(Message) /\ b \in Seq(Message)
      BY <2>2, <2>3, <2>4
    <2>6. /\ dmsgq' = [dmsgq EXCEPT ![t] = rest] /\ msgq' = [msgq EXCEPT ![t] = a]
          /\ handled' = [handled EXCEPT ![t] = b]
      BY <2>1, <2>4 DEF Pulled
    <2>7. /\ dmsgq' \in [Threads -> Seq(Delayed)] /\ msgq' \in [Threads -> Seq(Message)]
          /\ handled' \in [Threads -> Seq(Message)]
      BY <2>2, <2>5, <2>6 DEF Typed
    <2> QED
      BY <1>4, <2>7 DEF Typed, Pull
  <1>5. CASE CheckStop(t)
    BY <1>5 DEF Typed, CheckStop
  <1>6. CASE GetWait(t)
    BY <1>6 DEF Typed, GetWait
  <1>7. CASE SendPush(t)
    <2>1. PICK n, f, g, m : Enlists(t, n, f, g, m)
      BY <1>7, SendPushStack
    <2>2. /\ m \in SendMessage /\ f.to \in Threads
          /\ sendlist' = [sendlist EXCEPT ![f.to] = Append(sendlist[f.to], m)]
      BY <2>1 DEF Enlists, SendGoes, TopSend
    <2>3. sendlist[f.to] \in Seq(SendMessage)
      BY <2>2 DEF Typed
    <2>4. Append(sendlist[f.to], m) \in Seq(SendMessage)
      BY <2>2, <2>3
    <2>5. sendlist' \in [Threads -> Seq(SendMessage)]
      BY <2>2, <2>4 DEF Typed
    <2> QED
      BY <1>7, <2>5 DEF Typed, SendPush
  <1>8. CASE SendWakeUp(t)
    BY <1>8 DEF Typed, SendWakeUp
  <1>9. CASE SendTest(t)
    <2>1. PICK n, f, g : Finishes(t, n, f) \/ Receiving(t, n, f, g)
      BY <1>9, SendTestStack
    <2>2. wake' \in [Threads -> BOOLEAN]
      BY <2>1 DEF Finishes, Receiving, Typed
    <2> QED
      BY <1>9, <2>2 DEF Typed, SendTest
  <1>10. CASE SendWait(t)
    BY <1>10 DEF Typed, SendWait
  <1>11. CASE PostPush(t)
    <2>1. PICK n, f, m, u : Queues(t, n, f, m, u)
      BY <1>11, PostPushStack
    <2>2. /\ m \in Message /\ u \in Threads /\ pushed' = [pushed EXCEPT ![u] = @ \cup {m}]
          /\ wake' = [wake EXCEPT ![u] = TRUE]
          /\ dmsgq' \in [Threads -> Seq(Delayed)] /\ msgq' \in [Threads -> Seq(Message)]
      BY <2>1 DEF Queues
    <2>3. pushed' \in [Threads -> SUBSET Message] /\ wake' \in [Threads -> BOOLEAN]
      BY <2>2 DEF Typed
    <2>4. posts' = posts + 1 /\ UNCHANGED <<sendlist, fStop, owner, now, sends, handled>>
      BY <1>11 DEF PostPush, PushMessage
    <2> QED
      BY <2>2, <2>3, <2>4 DEF Typed
  <1> QED
    BY <1>1, <1>2, <1>3, <1>4, <1>5, <1>6, <1>7, <1>8, <1>9, <1>10, <1>11 DEF Step

\* So do those of the application, of the owners and of the clock.
LEMMA TypedOthers ==
    ASSUME Typed, Shape, Next, \A t \in Threads : ~Step(t)
    PROVE  Typed'
  <1> USE DEF queues, history, counters
  <1>1. CASE \E t, u \in Threads, h \in Handlers : Send(t, u, h)
    BY <1>1 DEF Typed, Send
  <1>2. CASE \E t, u \in Threads, h \in Handlers \cup {MQID_DISPOSE} : Post(t, u, h)
    BY <1>2 DEF Typed, Post
  <1>3. ASSUME NEW t \in Threads, NEW u \in Threads, NEW h \in Handlers, ClearHandler(t, u, h)
        PROVE  Typed'
    <2>1. Clears(u, {h})
      BY <1>3, ClearFacts DEF ClearHandler
    <2> QED
      BY <1>3, <2>1 DEF Typed, ClearHandler, Clears
  <1>4. CASE \E t \in Threads : Quit(t)
    BY <1>4 DEF Typed, Quit
  <1>5. CASE \E t \in Threads : QuitWakeUp(t)
    BY <1>5 DEF Typed, QuitWakeUp
  <1>6. ASSUME NEW t \in Threads, JoinAndClear(t) PROVE Typed'
    <2>1. Clears(t, Handlers \cup {MQID_DISPOSE, "app"})
      BY <1>6, ClearFacts DEF JoinAndClear
    <2> QED
      BY <1>6, <2>1 DEF Typed, JoinAndClear, Clears
  <1>7. CASE Tick
    BY <1>7 DEF Typed, Tick
  <1> QED
    BY <1>1, <1>2, <1>3, <1>4, <1>5, <1>6, <1>7 DEF Next

\* Every step keeps the stacks in order.
LEMMA ShapeStep ==
    ASSUME Typed, Shape, Next
    PROVE  Shape'
  <1>1. ASSUME NEW t \in Threads, ReceiveSend(t) PROVE Shape'
    BY <1>1, ReceiveSendStack DEF Receives, Sets
  <1>2. ASSUME NEW t \in Threads, ReceivedSends(t) PROVE Shape'
    BY <1>2, ReceivedSendsStack DEF Received, Sets
  <1>3. ASSUME NEW t \in Threads, OnMessageReturns(t) PROVE Shape'
    BY <1>3, OnMessageReturnsStack DEF Answers, Comes, Again, Drops
  <1>4. ASSUME NEW t \in Threads, Pull(t) PROVE Shape'
    BY <1>4, PullStack DEF PullsOn, Dispatches, Sets
  <1>5. ASSUME NEW t \in Threads, CheckStop(t) PROVE Shape'
    BY <1>5, CheckStopStack DEF Ends, Waits, Sets
  <1>6. ASSUME NEW t \in Threads, GetWait(t) PROVE Shape'
    BY <1>6, GetWaitStack DEF Wakes, Sets
  <1>7. ASSUME NEW t \in Threads, SendPush(t) PROVE Shape'
    BY <1>7, SendPushStack DEF Enlists, SendGoes, Sets
  <1>8. ASSUME NEW t \in Threads, SendWakeUp(t) PROVE Shape'
    BY <1>8, SendWakeUpStack DEF Signals, SendGoes, Sets
  <1>9. ASSUME NEW t \in Threads, SendTest(t) PROVE Shape'
    BY <1>9, SendTestStack DEF Finishes, Receiving, SendGoes, Sets, Drops
  <1>10. ASSUME NEW t \in Threads, SendWait(t) PROVE Shape'
    BY <1>10, SendWaitStack DEF Woken, SendGoes, Sets
  <1>11. ASSUME NEW t \in Threads, PostPush(t) PROVE Shape'
    BY <1>11, PostPushStack DEF Queues, Drops
  <1>12. ASSUME NEW t \in Threads, NEW u \in Threads, NEW h \in Handlers, Send(t, u, h)
         PROVE  Shape'
    BY <1>12, SendStack DEF Begins, HandlerCalls, Sets
  <1>13. ASSUME NEW t \in Threads, NEW u \in Threads, NEW h \in Handlers \cup {MQID_DISPOSE},
                Post(t, u, h)
         PROVE  Shape'
    BY <1>13, PostStack DEF HandlerCalls, Sets
  <1>14. stack' = stack => Shape'
    BY DEF Shape, StackOK
  <1>15. ASSUME NEW t \in Threads, NEW u \in Threads, NEW h \in Handlers, ClearHandler(t, u, h)
         PROVE  Shape'
    BY <1>14, <1>15 DEF ClearHandler
  <1>16. ASSUME NEW t \in Threads, Quit(t) \/ QuitWakeUp(t) \/ JoinAndClear(t) PROVE Shape'
    BY <1>14, <1>16 DEF Quit, QuitWakeUp, JoinAndClear
  <1>17. CASE Tick
    BY <1>14, <1>17 DEF Tick
  <1> QED
    BY <1>1, <1>2, <1>3, <1>4, <1>5, <1>6, <1>7, <1>8, <1>9, <1>10, <1>11, <1>12, <1>13,
       <1>15, <1>16, <1>17 DEF Next, Step

-----------------------------------------------------------------------------
(* The steps that move a Send from one place to the next.                  *)

\* The Sends under way stay.
SameSends ==
    \A u \in Threads, i \in Nat :
        /\ IsSend(u, i)' <=> IsSend(u, i)
        /\ IsSend(u, i) => /\ stack'[u][i].to = stack[u][i].to /\ stack'[u][i].id = stack[u][i].id
                           /\ stack'[u][i].at = "Push" <=> stack[u][i].at = "Push"

\* Their callers stay too.
LEMMA CallersStay ==
    ASSUME SameSends
    PROVE  \A t \in Threads : \A u, id : Caller(t, u, id) => Caller(t, u, id)'
  BY DEF SameSends, Caller

\* A number is that of one Send.
LEMMA OneCaller ==
    ASSUME Numbered, NEW t \in Threads, NEW v \in Threads, NEW u, NEW w, NEW id,
           Caller(t, u, id), Caller(v, w, id)
    PROVE  t = v /\ u = w /\ id \in 1 .. sends
  <1>1. PICK i \in Nat : IsSend(t, i) /\ stack[t][i].to = u /\ stack[t][i].id = id
    BY DEF Caller
  <1>2. PICK j \in Nat : IsSend(v, j) /\ stack[v][j].to = w /\ stack[v][j].id = id
    BY DEF Caller
  <1>3. t = v /\ i = j
    BY <1>1, <1>2 DEF Numbered
  <1> QED
    BY <1>1, <1>2, <1>3 DEF Numbered

\* A message is in one list, or handled by one thread.
LEMMA OneHolder ==
    ASSUME HeldInv, Shape, sendlist \in [Threads -> Seq(SendMessage)],
           NEW t \in Threads, NEW u \in Threads, NEW id,
           InList(t, id) \/ InRun(t, id), InList(u, id) \/ InRun(u, id)
    PROVE  t = u /\ id \in 1 .. sends /\ id \notin ready
           /\ \E v \in Threads : Caller(v, t, id)
  <1>1. ASSUME NEW w \in Threads, InList(w, id)
        PROVE  id \notin ready /\ \E v \in Threads : Caller(v, w, id)
    <2>1. PICK k \in 1 .. Len(sendlist[w]) : sendlist[w][k].id = id
      BY <1>1 DEF InList
    <2>2. sendlist[w][k].from \in Threads
      BY ListFacts
    <2> QED
      BY <2>1, <2>2 DEF HeldInv, Listed
  <1>2. ASSUME NEW w \in Threads, InRun(w, id)
        PROVE  id \notin ready /\ \E v \in Threads : Caller(v, w, id)
    <2>1. PICK k \in Nat : IsRun(w, k) /\ stack[w][k].id = id
      BY <1>2 DEF InRun
    <2>2. stack[w][k].from \in Threads
      BY <2>1, CallFacts
    <2> QED
      BY <2>1, <2>2 DEF HeldInv, Run
  <1>3. id \notin ready /\ \E v \in Threads : Caller(v, t, id)
    BY <1>1, <1>2
  <1>4. \E v \in Threads : Caller(v, u, id)
    BY <1>1, <1>2
  <1>5. Numbered
    BY DEF HeldInv
  <1> QED
    BY <1>3, <1>4, <1>5, OneCaller

\* A Send that has not put its message in the list is nowhere.
LEMMA PushIsNowhere ==
    ASSUME HeldInv, Shape, sendlist \in [Threads -> Seq(SendMessage)],
           NEW t \in Threads, NEW i \in Nat, IsSend(t, i), stack[t][i].at = "Push",
           NEW u \in Threads
    PROVE  ~InList(u, stack[t][i].id) /\ ~InRun(u, stack[t][i].id)
  <1>1. PICK id : id = stack[t][i].id
    OBVIOUS
  <1>2. SUFFICES ASSUME InList(u, id) \/ InRun(u, id) PROVE FALSE
    BY <1>1
  <1>3. PICK v \in Threads : Caller(v, u, id)
    BY <1>2, OneHolder
  <1>4. PICK j \in Nat : IsSend(v, j) /\ stack[v][j].id = id /\ stack[v][j].at # "Push"
    BY <1>3 DEF Caller
  <1>5. v = t /\ i = j
    BY <1>1, <1>4 DEF HeldInv, Numbered
  <1> QED
    BY <1>4, <1>5

\* ReceiveSend: from the list to the handler.
LEMMA ReceiveHeld ==
    ASSUME HeldInv, Shape, Typed, NEW t \in Threads, NEW n, NEW f, NEW i, NEW m, NEW g,
           Receives(t, n, f, i, m, g), ready' = ready, sends' = sends
    PROVE  HeldInv'
  <1>1. PICK N \in Nat : N = n + 1
    BY DEF Receives
  <1>2. /\ OnlyCall(t, N) /\ ~IsSend(t, N) /\ ~IsRun(t, N)
        /\ N \in 1 .. Len(stack'[t]) /\ stack'[t][N] = g
        /\ g.call = "OnMessage" /\ g.by = "Send" /\ g.id = m.id /\ g.from = m.from
    BY <1>1 DEF Receives, Sets
  <1>3. IsRun(t, N)' /\ ~IsSend(t, N)'
    BY <1>2 DEF IsRun, IsSend
  <1>4. SameBut(t, N)
    BY <1>2, OnlySame
  <1>5. SameSends
    BY <1>2, <1>3, <1>4 DEF SameSends, SameBut, SameCall
  <1>6. sendlist \in [Threads -> Seq(SendMessage)]
    BY DEF Typed
  <1>7. PICK q, r : q = sendlist[t] /\ r = Without(q, i)
    OBVIOUS
  <1>8. i \in 1 .. Len(q) /\ m = q[i] /\ sendlist' = [sendlist EXCEPT ![t] = r] /\ q \in Seq(SendMessage)
        /\ Len(q) \in Nat
    BY <1>6, <1>7 DEF Receives
  <1>9. Len(r) = Len(q) - 1 /\ \A k \in 1 .. Len(q) - 1 : r[k] = IF k < i THEN q[k] ELSE q[k + 1]
    BY <1>7, <1>8, WithoutFacts
  <1>10. sendlist'[t] = r /\ \A u \in Threads \ {t} : sendlist'[u] = sendlist[u]
    BY <1>6, <1>8
  <1> DEFINE e(k) == IF k < i THEN k ELSE k + 1
  <1>11. \A k \in 1 .. Len(r) : e(k) \in 1 .. Len(q) /\ e(k) # i /\ r[k] = q[e(k)]
    BY <1>8, <1>9
  <1>12. \A k, l \in 1 .. Len(r) : e(k) = e(l) => k = l
    BY <1>8, <1>9
  <1>13. \A j \in 1 .. Len(q) : j # i => \E k \in 1 .. Len(r) : e(k) = j
    <2> SUFFICES ASSUME NEW j \in 1 .. Len(q), j # i PROVE \E k \in 1 .. Len(r) : e(k) = j
      OBVIOUS
    <2>1. CASE j < i
      <3>1. j \in 1 .. Len(r) /\ e(j) = j
        BY <1>8, <1>9, <2>1
      <3> QED
        BY <3>1
    <2>2. CASE ~(j < i)
      <3>1. j - 1 \in 1 .. Len(r) /\ e(j - 1) = j
        BY <1>8, <1>9, <2>2
      <3> QED
        BY <3>1
    <2> QED
      BY <2>1, <2>2
  <1> HIDE DEF e
  <1>14. \A v \in Threads : \A u, id : Caller(v, u, id) => Caller(v, u, id)'
    BY <1>5, CallersStay
  <1>15. /\ m.id \notin ready /\ Caller(m.from, t, m.id) /\ m.from \in Threads
         /\ \A l \in 1 .. Len(q) : q[l].id = m.id => l = i
    <2>1. m.from \in Threads
      BY <1>6, <1>7, <1>8, ListFacts
    <2> QED
      BY <1>7, <1>8, <2>1 DEF HeldInv, Listed
  <1>16. \A l \in Nat : IsRun(t, l) => stack[t][l].id # m.id
    BY <1>7, <1>8 DEF HeldInv, Run
  <1>17. Numbered'
    BY <1>5 DEF HeldInv, Numbered, SameSends
  <1>18. Listed'
    <2>1. ASSUME NEW u \in Threads, NEW k \in 1 .. Len(sendlist'[u]), u # t
          PROVE  /\ sendlist'[u][k].id \notin ready'
                 /\ Caller(sendlist[u][k].from, u, sendlist[u][k].id)'
                 /\ \A l \in 1 .. Len(sendlist'[u]) : sendlist'[u][l].id = sendlist'[u][k].id => l = k
      <3>1. sendlist'[u] = sendlist[u]
        BY <1>10, <2>1
      <3>2. k \in 1 .. Len(sendlist[u]) /\ sendlist[u][k].from \in Threads
        BY <1>6, <3>1, ListFacts
      <3> QED
        BY <1>14, <3>1, <3>2 DEF HeldInv, Listed
    <2>2. ASSUME NEW k \in 1 .. Len(r)
          PROVE  /\ r[k].id \notin ready' /\ Caller(r[k].from, t, r[k].id)'
                 /\ \A l \in 1 .. Len(r) : r[l].id = r[k].id => l = k
      <3>1. PICK j \in 1 .. Len(q) : j = e(k) /\ r[k] = q[j]
        BY <1>11
      <3>2. q[j].from \in Threads
        BY <1>6, <1>7, ListFacts
      <3>3. /\ q[j].id \notin ready /\ Caller(q[j].from, t, q[j].id)
            /\ \A l \in 1 .. Len(q) : q[l].id = q[j].id => l = j
        BY <1>7 DEF HeldInv, Listed
      <3>4. Caller(q[j].from, t, q[j].id)'
        BY <1>14, <3>2, <3>3
      <3> QED
        BY <1>11, <1>12, <3>1, <3>3, <3>4
    <2>3. ASSUME NEW u \in Threads, NEW k \in 1 .. Len(sendlist'[u])
          PROVE  /\ sendlist'[u][k].id \notin ready'
                 /\ Caller(sendlist[u][k].from, u, sendlist[u][k].id)'
                 /\ \A l \in 1 .. Len(sendlist'[u]) : sendlist'[u][l].id = sendlist'[u][k].id => l = k
      BY <1>10, <2>1, <2>2
    <2> QED
      BY <2>3 DEF Listed
  <1>19. Run'
    <2>1. ASSUME NEW u \in Threads, NEW k \in Nat, IsRun(u, k)', u # t \/ k # N
          PROVE  /\ IsRun(u, k) /\ stack'[u][k].id = stack[u][k].id /\ stack'[u][k].id \notin ready'
                 /\ Caller(stack[u][k].from, u, stack[u][k].id)'
                 /\ \A l \in 1 .. Len(sendlist'[u]) : sendlist'[u][l].id # stack'[u][k].id
                 /\ \A l \in Nat : IsRun(u, l)' /\ stack'[u][l].id = stack'[u][k].id => l = k
      <3>1. IsRun(u, k) /\ stack'[u][k].id = stack[u][k].id /\ stack'[u][k].from = stack[u][k].from
        BY <1>4, <2>1 DEF SameBut, SameCall
      <3>2. stack[u][k].from \in Threads
        BY <3>1, CallFacts
      <3>3. /\ stack[u][k].id \notin ready /\ Caller(stack[u][k].from, u, stack[u][k].id)
            /\ \A l \in 1 .. Len(sendlist[u]) : sendlist[u][l].id # stack[u][k].id
            /\ \A l \in Nat : IsRun(u, l) /\ stack[u][l].id = stack[u][k].id => l = k
        BY <3>1 DEF HeldInv, Run
      <3>4. Caller(stack[u][k].from, u, stack[u][k].id)'
        BY <1>14, <3>1, <3>2, <3>3
      <3>5. \A l \in 1 .. Len(sendlist'[u]) : sendlist'[u][l].id # stack'[u][k].id
        BY <1>7, <1>10, <1>11, <3>1, <3>3
      <3>6. ASSUME NEW l \in Nat, IsRun(u, l)', stack'[u][l].id = stack'[u][k].id PROVE l = k
        <4>1. CASE u = t /\ l = N
          BY <1>2, <1>16, <3>1, <3>6, <4>1
        <4>2. CASE u # t \/ l # N
          BY <1>4, <3>1, <3>3, <3>6, <4>2 DEF SameBut, SameCall
        <4> QED
          BY <4>1, <4>2
      <3> QED
        BY <3>1, <3>3, <3>4, <3>5, <3>6
    <2>2. /\ stack'[t][N].id \notin ready'
          /\ Caller(stack[t][N].from, t, stack[t][N].id)'
          /\ \A l \in 1 .. Len(sendlist'[t]) : sendlist'[t][l].id # stack'[t][N].id
          /\ \A l \in Nat : IsRun(t, l)' /\ stack'[t][l].id = stack'[t][N].id => l = N
      <3>1. Caller(m.from, t, m.id)'
        BY <1>14, <1>15
      <3>2. \A l \in 1 .. Len(r) : r[l].id # m.id
        BY <1>11, <1>15
      <3>3. \A l \in Nat : IsRun(t, l)' /\ stack'[t][l].id = m.id => l = N
        BY <1>16, <2>1
      <3> QED
        BY <1>2, <1>10, <1>15, <3>1, <3>2, <3>3
    <2>3. ASSUME NEW u \in Threads, NEW k \in Nat, IsRun(u, k)'
          PROVE  /\ stack'[u][k].id \notin ready'
                 /\ Caller(stack[u][k].from, u, stack[u][k].id)'
                 /\ \A l \in 1 .. Len(sendlist'[u]) : sendlist'[u][l].id # stack'[u][k].id
                 /\ \A l \in Nat : IsRun(u, l)' /\ stack'[u][l].id = stack'[u][k].id => l = k
      BY <2>1, <2>2, <2>3
    <2> QED
      BY <2>3 DEF Run
  <1>20. Held'
    <2> SUFFICES ASSUME NEW v \in Threads, NEW j \in Nat,
                        IsSend(v, j)', stack'[v][j].at # "Push", stack'[v][j].id \notin ready'
                 PROVE  InList(stack[v][j].to, stack[v][j].id)'
                        \/ InRun(stack[v][j].to, stack[v][j].id)'
      BY DEF Held
    <2>1. /\ IsSend(v, j) /\ stack'[v][j].to = stack[v][j].to /\ stack'[v][j].id = stack[v][j].id
          /\ stack[v][j].at # "Push" /\ stack[v][j].id \notin ready
      BY <1>5 DEF SameSends
    <2>2. PICK u, id : u = stack[v][j].to /\ id = stack[v][j].id
      OBVIOUS
    <2>3. u \in Threads /\ (InList(u, id) \/ InRun(u, id))
      BY <2>1, <2>2, CallFacts DEF HeldInv, Held
    <2>4. CASE InRun(u, id)
      <3>1. InRun(u, id)'
        BY <1>2, <1>4, <2>3, <2>4 DEF InRun, SameBut, SameCall
      <3> QED
        BY <2>1, <2>2, <3>1
    <2>5. CASE InList(u, id) /\ u # t
      <3>1. InList(u, id)'
        BY <1>10, <2>3, <2>5 DEF InList
      <3> QED
        BY <2>1, <2>2, <3>1
    <2>6. CASE InList(u, id) /\ u = t /\ id = m.id
      <3>1. InRun(u, id)'
        BY <1>2, <1>3, <2>6 DEF InRun
      <3> QED
        BY <2>1, <2>2, <3>1
    <2>7. CASE InList(u, id) /\ u = t /\ id # m.id
      <3>1. PICK k \in 1 .. Len(q) : q[k].id = id
        BY <1>7, <2>7 DEF InList
      <3>2. k # i
        BY <1>8, <2>7, <3>1
      <3>3. PICK l \in 1 .. Len(r) : e(l) = k
        BY <1>13, <3>2
      <3>4. r[l].id = id
        BY <1>11, <3>1, <3>3
      <3>5. InList(u, id)'
        BY <1>10, <2>7, <3>4 DEF InList
      <3> QED
        BY <2>1, <2>2, <3>5
    <2> QED
      BY <2>3, <2>4, <2>5, <2>6, <2>7
  <1>21. ready' \subseteq 1 .. sends'
    BY DEF HeldInv
  <1> QED
    BY <1>17, <1>18, <1>19, <1>20, <1>21 DEF HeldInv

\* OnMessageReturns: from the handler to the answer.
LEMMA AnswerHeld ==
    ASSUME HeldInv, Shape, Typed, NEW t \in Threads, NEW n, NEW f, Answers(t, n, f),
           sendlist' = sendlist, sends' = sends
    PROVE  HeldInv'
  <1>1. /\ n \in Nat /\ f = stack[t][n] /\ OnlyCall(t, n) /\ IsRun(t, n)
        /\ ~IsSend(t, n)' /\ ~IsRun(t, n)' /\ ready' = ready \cup {f.id}
    BY DEF Answers, TopIs, Drops
  <1>2. ~IsSend(t, n)
    BY <1>1 DEF IsSend, IsRun
  <1>3. SameBut(t, n)
    BY <1>1, OnlySame
  <1>4. SameSends
    BY <1>1, <1>2, <1>3 DEF SameSends, SameBut, SameCall
  <1>5. \A v \in Threads : \A u, id : Caller(v, u, id) => Caller(v, u, id)'
    BY <1>4, CallersStay
  <1>6. sendlist \in [Threads -> Seq(SendMessage)]
    BY DEF Typed
  <1>7. InRun(t, f.id)
    BY <1>1 DEF InRun
  <1>8. /\ f.id \in 1 .. sends
        /\ \A u \in Threads : InList(u, f.id) \/ InRun(u, f.id) => u = t
    BY <1>6, <1>7, OneHolder
  <1>9. /\ \A k \in 1 .. Len(sendlist[t]) : sendlist[t][k].id # f.id
        /\ \A l \in Nat : IsRun(t, l) /\ stack[t][l].id = f.id => l = n
    BY <1>1 DEF HeldInv, Run
  <1>10. Numbered'
    <2>1. \A v \in Threads, i \in Nat :
            IsSend(v, i) /\ stack[v][i].at = "Push" => stack[v][i].id # f.id
      BY <1>6, <1>7, PushIsNowhere
    <2> QED
      BY <1>1, <1>4, <2>1 DEF HeldInv, Numbered, SameSends
  <1>11. Listed'
    <2>1. ASSUME NEW u \in Threads, NEW k \in 1 .. Len(sendlist[u])
          PROVE  sendlist[u][k].from \in Threads /\ sendlist[u][k].id # f.id
      <3>1. InList(u, sendlist[u][k].id)
        BY DEF InList
      <3> QED
        BY <1>6, <1>8, <1>9, <3>1, ListFacts
    <2> QED
      BY <1>1, <1>5, <2>1 DEF HeldInv, Listed
  <1>12. Run'
    <2>1. ASSUME NEW u \in Threads, NEW k \in Nat, IsRun(u, k)'
          PROVE  /\ IsRun(u, k) /\ stack'[u][k].id = stack[u][k].id
                 /\ stack'[u][k].from = stack[u][k].from /\ stack[u][k].id # f.id
                 /\ stack[u][k].from \in Threads
      <3>1. u # t \/ k # n
        BY <1>1, <2>1
      <3>2. IsRun(u, k) /\ stack'[u][k].id = stack[u][k].id /\ stack'[u][k].from = stack[u][k].from
        BY <1>3, <2>1, <3>1 DEF SameBut, SameCall
      <3>3. stack[u][k].from \in Threads
        BY <3>2, CallFacts
      <3>4. stack[u][k].id # f.id
        BY <1>8, <1>9, <3>1, <3>2 DEF InRun
      <3> QED
        BY <3>2, <3>3, <3>4
    <2>2. ASSUME NEW u \in Threads, NEW k \in Nat, IsRun(u, k)'
          PROVE  /\ stack'[u][k].id \notin ready'
                 /\ Caller(stack[u][k].from, u, stack[u][k].id)'
                 /\ \A l \in 1 .. Len(sendlist'[u]) : sendlist'[u][l].id # stack'[u][k].id
                 /\ \A l \in Nat : IsRun(u, l)' /\ stack'[u][l].id = stack'[u][k].id => l = k
      <3>1. /\ IsRun(u, k) /\ stack'[u][k].id = stack[u][k].id
            /\ stack'[u][k].from = stack[u][k].from /\ stack[u][k].id # f.id
            /\ stack[u][k].from \in Threads
        BY <2>1, <2>2
      <3>2. /\ stack[u][k].id \notin ready /\ Caller(stack[u][k].from, u, stack[u][k].id)
            /\ \A l \in 1 .. Len(sendlist[u]) : sendlist[u][l].id # stack[u][k].id
            /\ \A l \in Nat : IsRun(u, l) /\ stack[u][l].id = stack[u][k].id => l = k
        BY <3>1 DEF HeldInv, Run
      <3>3. PICK w, id : w = stack[u][k].from /\ id = stack[u][k].id
        OBVIOUS
      <3>4. Caller(w, u, id)'
        BY <1>5, <3>1, <3>2, <3>3
      <3>5. Caller(stack[u][k].from, u, stack[u][k].id)'
        BY <3>1, <3>3, <3>4
      <3>6. \A l \in Nat : IsRun(u, l)' /\ stack'[u][l].id = stack'[u][k].id => l = k
        BY <2>1, <3>1, <3>2
      <3> QED
        BY <1>1, <3>1, <3>2, <3>5, <3>6
    <2> QED
      BY <2>2 DEF Run
  <1>13. Held'
    <2> SUFFICES ASSUME NEW v \in Threads, NEW j \in Nat,
                        IsSend(v, j)', stack'[v][j].at # "Push", stack'[v][j].id \notin ready'
                 PROVE  InList(stack[v][j].to, stack[v][j].id)'
                        \/ InRun(stack[v][j].to, stack[v][j].id)'
      BY DEF Held
    <2>1. /\ IsSend(v, j) /\ stack'[v][j].to = stack[v][j].to /\ stack'[v][j].id = stack[v][j].id
          /\ stack[v][j].at # "Push" /\ stack[v][j].id \notin ready /\ stack[v][j].id # f.id
      BY <1>1, <1>4 DEF SameSends
    <2>2. PICK u, id : u = stack[v][j].to /\ id = stack[v][j].id
      OBVIOUS
    <2>3. u \in Threads /\ (InList(u, id) \/ InRun(u, id))
      BY <2>1, <2>2, CallFacts DEF HeldInv, Held
    <2>4. CASE InRun(u, id)
      <3>1. PICK k \in Nat : IsRun(u, k) /\ stack[u][k].id = id
        BY <2>4 DEF InRun
      <3>2. u # t \/ k # n
        BY <1>1, <2>1, <2>2, <3>1
      <3>3. IsRun(u, k)' /\ stack'[u][k].id = id
        BY <1>3, <2>3, <3>1, <3>2 DEF SameBut, SameCall
      <3>4. InRun(u, id)'
        BY <3>3 DEF InRun
      <3> QED
        BY <2>1, <2>2, <3>4
    <2>5. CASE InList(u, id)
      <3>1. InList(u, id)'
        BY <2>5 DEF InList
      <3> QED
        BY <2>1, <2>2, <3>1
    <2> QED
      BY <2>3, <2>4, <2>5
  <1>14. ready' \subseteq 1 .. sends'
    BY <1>1, <1>8 DEF HeldInv
  <1> QED
    BY <1>10, <1>11, <1>12, <1>13, <1>14 DEF HeldInv

\* Send: a new number.
LEMMA SendHeld ==
    ASSUME HeldInv, Shape, Typed, NEW t \in Threads, NEW n, NEW f, NEW g, HandlerCalls(t, n, f, g),
           g.call = "Send", g.at = "Push", g.id = sends + 1,
           sendlist' = sendlist, ready' = ready, sends' = sends + 1
    PROVE  HeldInv'
  <1>1. PICK N \in Nat : N = n + 1
    BY DEF HandlerCalls
  <1>2. /\ OnlyCall(t, N) /\ ~IsSend(t, N) /\ ~IsRun(t, N)
        /\ N \in 1 .. Len(stack'[t]) /\ stack'[t][N] = g
    BY <1>1 DEF HandlerCalls, Sets
  <1>3. IsSend(t, N)' /\ ~IsRun(t, N)'
    BY <1>2 DEF IsSend, IsRun
  <1>4. SameBut(t, N)
    BY <1>2, OnlySame
  <1>5. sends \in Nat /\ sendlist \in [Threads -> Seq(SendMessage)]
    BY DEF Typed
  <1>6. \A k \in 1 .. sends : k \in 1 .. sends' /\ k # sends + 1
    BY <1>5
  <1>7. sends + 1 \in 1 .. sends' /\ sends + 1 \notin ready
    BY <1>5, <1>6 DEF HeldInv
  <1>8. \A v \in Threads : \A u, id : Caller(v, u, id) => Caller(v, u, id)'
    BY <1>2, <1>4 DEF Caller, SameBut, SameCall
  <1>9. Numbered'
    <2>1. ASSUME NEW v \in Threads, NEW i \in Nat, IsSend(v, i)', v # t \/ i # N
          PROVE  /\ IsSend(v, i) /\ stack'[v][i].id = stack[v][i].id
                 /\ stack'[v][i].id \in 1 .. sends
                 /\ stack'[v][i].at = "Push" => stack'[v][i].id \notin ready
      BY <1>4, <2>1 DEF SameBut, SameCall, HeldInv, Numbered
    <2>2. ASSUME NEW v \in Threads, NEW i \in Nat, IsSend(v, i)',
                 NEW u \in Threads, NEW j \in Nat, IsSend(u, j)', stack'[u][j].id = stack'[v][i].id
          PROVE  u = v /\ j = i
      <3>1. CASE v = t /\ i = N
        BY <1>2, <1>6, <2>1, <2>2, <3>1
      <3>2. CASE u = t /\ j = N
        BY <1>2, <1>6, <2>1, <2>2, <3>2
      <3>3. CASE (v # t \/ i # N) /\ (u # t \/ j # N)
        BY <2>1, <2>2, <3>3 DEF HeldInv, Numbered
      <3> QED
        BY <3>1, <3>2, <3>3
    <2>3. ASSUME NEW v \in Threads, NEW i \in Nat, IsSend(v, i)'
          PROVE  /\ stack'[v][i].id \in 1 .. sends'
                 /\ stack'[v][i].at = "Push" => stack'[v][i].id \notin ready'
      BY <1>2, <1>6, <1>7, <2>1, <2>3
    <2> QED
      BY <2>2, <2>3 DEF Numbered
  <1>10. Listed'
    <2>1. \A u \in Threads : \A k \in 1 .. Len(sendlist[u]) : sendlist[u][k].from \in Threads
      BY <1>5, ListFacts
    <2> QED
      BY <1>8, <2>1 DEF HeldInv, Listed
  <1>11. Run'
    <2>1. \A u \in Threads, k \in Nat : IsRun(u, k) => stack[u][k].from \in Threads
      BY CallFacts
    <2>2. \A u \in Threads, k \in Nat :
            /\ IsRun(u, k)' <=> IsRun(u, k)
            /\ IsRun(u, k) => stack'[u][k].id = stack[u][k].id /\ stack'[u][k].from = stack[u][k].from
      BY <1>2, <1>3, <1>4 DEF SameBut, SameCall
    <2> QED
      BY <1>8, <2>1, <2>2 DEF HeldInv, Run
  <1>12. Held'
    <2> SUFFICES ASSUME NEW v \in Threads, NEW j \in Nat,
                        IsSend(v, j)', stack'[v][j].at # "Push", stack'[v][j].id \notin ready'
                 PROVE  InList(stack[v][j].to, stack[v][j].id)'
                        \/ InRun(stack[v][j].to, stack[v][j].id)'
      BY DEF Held
    <2>0. v # t \/ j # N
      BY <1>2
    <2>1. /\ IsSend(v, j) /\ stack'[v][j].to = stack[v][j].to /\ stack'[v][j].id = stack[v][j].id
          /\ stack[v][j].at # "Push" /\ stack[v][j].id \notin ready
      BY <1>4, <2>0 DEF SameBut, SameCall
    <2>2. PICK u, id : u = stack[v][j].to /\ id = stack[v][j].id
      OBVIOUS
    <2>3. u \in Threads /\ (InList(u, id) \/ InRun(u, id))
      BY <2>1, <2>2, CallFacts DEF HeldInv, Held
    <2>4. CASE InRun(u, id)
      <3>1. InRun(u, id)'
        BY <1>2, <1>4, <2>3, <2>4 DEF InRun, SameBut, SameCall
      <3> QED
        BY <2>1, <2>2, <3>1
    <2>5. CASE InList(u, id)
      <3>1. InList(u, id)'
        BY <2>5 DEF InList
      <3> QED
        BY <2>1, <2>2, <3>1
    <2> QED
      BY <2>3, <2>4, <2>5
  <1>13. ready' \subseteq 1 .. sends'
    BY <1>6 DEF HeldInv
  <1> QED
    BY <1>9, <1>10, <1>11, <1>12, <1>13 DEF HeldInv

\* SendPush: into the list.
LEMMA PushHeld ==
    ASSUME HeldInv, Shape, Typed, NEW t \in Threads, NEW n, NEW f, NEW g, NEW m,
           Enlists(t, n, f, g, m), ready' = ready, sends' = sends
    PROVE  HeldInv'
  <1>1. /\ n \in Nat /\ f = stack[t][n] /\ IsSend(t, n) /\ IsSend(t, n)' /\ OnlyCall(t, n)
        /\ stack'[t][n] = g /\ g.to = f.to /\ g.id = f.id /\ f.at = "Push" /\ g.at = "WakeUp"
        /\ f.to \in Threads /\ ~IsRun(t, n) /\ ~IsRun(t, n)'
        /\ m \in SendMessage /\ m.id = f.id /\ m.from = t
    BY DEF Enlists, SendGoes, TopSend, TopIs, Sets
  <1>2. PICK x, q, r : x = f.to /\ q = sendlist[x] /\ r = Append(q, m)
    OBVIOUS
  <1>3. SameBut(t, n)
    BY <1>1, OnlySame
  <1>4. sendlist \in [Threads -> Seq(SendMessage)]
    BY DEF Typed
  <1>5. q \in Seq(SendMessage)
    BY <1>1, <1>2, <1>4
  <1>6. PICK l \in Nat : l = Len(q)
    BY <1>5
  <1>7. Len(r) = l + 1 /\ r[l + 1] = m /\ \A k \in 1 .. l : r[k] = q[k]
    <2>1. m \in SendMessage /\ r = Append(q, m)
      BY <1>1, <1>2
    <2> QED
      BY <1>5, <1>6, <2>1, AppendFacts
  <1>8. sendlist' = [sendlist EXCEPT ![x] = r]
    BY <1>2 DEF Enlists
  <1>9. sendlist'[x] = r /\ \A u \in Threads \ {x} : sendlist'[u] = sendlist[u]
    BY <1>1, <1>2, <1>4, <1>8
  <1>10. \A k \in 1 .. l + 1 : k = l + 1 \/ k \in 1 .. l
    OBVIOUS
  <1>11. \A u \in Threads : ~InList(u, f.id) /\ ~InRun(u, f.id)
    BY <1>1, <1>4, PushIsNowhere
  <1>12. f.id \notin ready
    BY <1>1 DEF HeldInv, Numbered
  <1>13. \A v \in Threads : \A u, id : Caller(v, u, id) => Caller(v, u, id)'
    BY <1>1, <1>3 DEF Caller, SameBut, SameCall
  <1>14. Caller(t, x, f.id)'
    BY <1>1, <1>2 DEF Caller
  <1>15. \A u \in Threads, k \in Nat :
            /\ IsRun(u, k)' <=> IsRun(u, k)
            /\ IsRun(u, k) => stack'[u][k].id = stack[u][k].id /\ stack'[u][k].from = stack[u][k].from
    BY <1>1, <1>3 DEF SameBut, SameCall
  <1>16. Numbered'
    <2>1. \A v \in Threads, i \in Nat :
            /\ IsSend(v, i)' <=> IsSend(v, i)
            /\ IsSend(v, i) => /\ stack'[v][i].id = stack[v][i].id
                               /\ stack'[v][i].at = "Push" => stack[v][i].at = "Push"
      BY <1>1, <1>3 DEF SameBut, SameCall
    <2> QED
      BY <2>1 DEF HeldInv, Numbered
  <1>17. Listed'
    <2>1. ASSUME NEW u \in Threads, NEW k \in 1 .. Len(sendlist[u])
          PROVE  /\ sendlist[u][k].id \notin ready' /\ sendlist[u][k].id # f.id
                 /\ \A w \in {sendlist[u][k].from}, id \in {sendlist[u][k].id} : Caller(w, u, id)'
                 /\ \A j \in 1 .. Len(sendlist[u]) : sendlist[u][j].id = sendlist[u][k].id => j = k
      <3>1. sendlist[u][k].from \in Threads
        BY <1>4, ListFacts
      <3>2. InList(u, sendlist[u][k].id)
        BY DEF InList
      <3> QED
        BY <1>11, <1>13, <3>1, <3>2 DEF HeldInv, Listed
    <2>2. ASSUME NEW k \in 1 .. Len(r)
          PROVE  /\ r[k].id \notin ready'
                 /\ \A w \in {r[k].from}, id \in {r[k].id} : Caller(w, x, id)'
                 /\ \A j \in 1 .. Len(r) : r[j].id = r[k].id => j = k
      <3>1. x \in Threads
        BY <1>1, <1>2
      <3>4. \A j \in 1 .. l : r[j].id # f.id
        BY <1>2, <1>6, <1>7, <2>1, <3>1
      <3>2. CASE k = l + 1
        <4>1. r[k].id = f.id /\ r[k].from = t
          BY <1>1, <1>7, <3>2
        <4>2. \A j \in 1 .. Len(r) : r[j].id = r[k].id => j = k
          BY <1>7, <1>10, <3>2, <3>4, <4>1
        <4> QED
          BY <1>12, <1>14, <4>1, <4>2
      <3>3. CASE k \in 1 .. l
        <4>1. q = sendlist[x] /\ Len(r) = l + 1 /\ r[l + 1].id = f.id /\ k \in 1 .. Len(q)
          BY <1>1, <1>2, <1>6, <1>7, <3>3
        <4>2. r[k] = sendlist[x][k]
          BY <1>7, <3>3, <4>1
        <4>3. \A j \in 1 .. l : r[j].id = r[k].id => j = k
          BY <1>6, <1>7, <2>1, <3>1, <4>1, <4>2
        <4>4. /\ r[k].id \notin ready' /\ r[k].id # f.id
              /\ \A w \in {r[k].from}, id \in {r[k].id} : Caller(w, x, id)'
          BY <2>1, <3>1, <4>1, <4>2
        <4>5. \A j \in 1 .. Len(r) : r[j].id = r[k].id => j = k
          BY <1>10, <4>1, <4>3, <4>4
        <4> QED
          BY <4>4, <4>5
      <3> QED
        BY <1>7, <1>10, <3>2, <3>3
    <2>3. ASSUME NEW u \in Threads, NEW k \in 1 .. Len(sendlist'[u])
          PROVE  /\ sendlist'[u][k].id \notin ready'
                 /\ Caller(sendlist[u][k].from, u, sendlist[u][k].id)'
                 /\ \A j \in 1 .. Len(sendlist'[u]) : sendlist'[u][j].id = sendlist'[u][k].id => j = k
      BY <1>9, <2>1, <2>2
    <2> QED
      BY <2>3 DEF Listed
  <1>18. Run'
    <2>1. ASSUME NEW u \in Threads, NEW k \in Nat, IsRun(u, k)
          PROVE  /\ stack[u][k].id # f.id
                 /\ \A j \in 1 .. Len(sendlist'[u]) : sendlist'[u][j].id # stack[u][k].id
      <3>1. stack[u][k].id # f.id
        BY <1>11, <2>1 DEF InRun
      <3>2. \A j \in 1 .. Len(sendlist[u]) : sendlist[u][j].id # stack[u][k].id
        BY <2>1 DEF HeldInv, Run
      <3>3. ASSUME u = x, NEW j \in 1 .. Len(r) PROVE r[j].id # stack[u][k].id
        <4>1. CASE j = l + 1
          BY <1>1, <1>7, <3>1, <4>1
        <4>2. CASE j \in 1 .. l
          BY <1>2, <1>6, <1>7, <3>2, <3>3, <4>2
        <4> QED
          BY <1>7, <1>10, <4>1, <4>2
      <3> QED
        BY <1>9, <3>1, <3>2, <3>3
    <2>2. \A u \in Threads, k \in Nat : IsRun(u, k) => stack[u][k].from \in Threads
      BY CallFacts
    <2> QED
      BY <1>13, <1>15, <2>1, <2>2 DEF HeldInv, Run
  <1>19. Held'
    <2> SUFFICES ASSUME NEW v \in Threads, NEW j \in Nat,
                        IsSend(v, j)', stack'[v][j].at # "Push", stack'[v][j].id \notin ready'
                 PROVE  InList(stack[v][j].to, stack[v][j].id)'
                        \/ InRun(stack[v][j].to, stack[v][j].id)'
      BY DEF Held
    <2>1. CASE v = t /\ j = n
      <3>1. InList(x, f.id)'
        <4>1. l + 1 \in 1 .. Len(r)
          BY <1>7
        <4> QED
          BY <1>1, <1>7, <1>9, <4>1 DEF InList
      <3> QED
        BY <1>1, <1>2, <2>1, <3>1
    <2>2. CASE v # t \/ j # n
      <3>1. /\ IsSend(v, j) /\ stack'[v][j].to = stack[v][j].to /\ stack'[v][j].id = stack[v][j].id
            /\ stack[v][j].at # "Push" /\ stack[v][j].id \notin ready
        BY <1>3, <2>2 DEF SameBut, SameCall
      <3>2. PICK u, id : u = stack[v][j].to /\ id = stack[v][j].id
        OBVIOUS
      <3>3. u \in Threads /\ (InList(u, id) \/ InRun(u, id))
        BY <3>1, <3>2, CallFacts DEF HeldInv, Held
      <3>4. CASE InRun(u, id)
        <4>1. InRun(u, id)'
          BY <1>15, <3>3, <3>4 DEF InRun
        <4> QED
          BY <3>1, <3>2, <4>1
      <3>5. CASE InList(u, id)
        <4>1. PICK k \in 1 .. Len(sendlist[u]) : sendlist[u][k].id = id
          BY <3>5 DEF InList
        <4>2. k \in 1 .. Len(sendlist'[u]) /\ sendlist'[u][k] = sendlist[u][k]
          <5>1. CASE u = x
            <6>1. k \in 1 .. l /\ k \in 1 .. l + 1
              BY <1>2, <1>6, <5>1
            <6> QED
              BY <1>2, <1>7, <1>9, <5>1, <6>1
          <5> QED
            BY <1>9, <3>3, <5>1
        <4>3. InList(u, id)'
          BY <4>1, <4>2 DEF InList
        <4> QED
          BY <3>1, <3>2, <4>3
      <3> QED
        BY <3>3, <3>4, <3>5
    <2> QED
      BY <2>1, <2>2
  <1>20. ready' \subseteq 1 .. sends'
    BY DEF HeldInv
  <1> QED
    BY <1>16, <1>17, <1>18, <1>19, <1>20 DEF HeldInv

\* SendTest: the Send returns with its answer.
LEMMA FinishHeld ==
    ASSUME HeldInv, Shape, Typed, NEW t \in Threads, NEW n, NEW f, Finishes(t, n, f),
           sendlist' = sendlist, ready' = ready, sends' = sends
    PROVE  HeldInv'
  <1>1. /\ n \in Nat /\ f = stack[t][n] /\ IsSend(t, n) /\ OnlyCall(t, n) /\ f.id \in ready
        /\ ~IsSend(t, n)' /\ ~IsRun(t, n) /\ ~IsRun(t, n)'
    BY DEF Finishes, TopSend, TopIs, Drops
  <1>2. SameBut(t, n)
    BY <1>1, OnlySame
  <1>3. sendlist \in [Threads -> Seq(SendMessage)]
    BY DEF Typed
  <1>4. \A v \in Threads : \A u, id : Caller(v, u, id) /\ id \notin ready => Caller(v, u, id)'
    <2> SUFFICES ASSUME NEW v \in Threads, NEW u, NEW id, Caller(v, u, id), id \notin ready
                 PROVE  Caller(v, u, id)'
      OBVIOUS
    <2>1. PICK i \in Nat : IsSend(v, i) /\ stack[v][i].to = u /\ stack[v][i].id = id
                           /\ stack[v][i].at # "Push"
      BY DEF Caller
    <2>2. v # t \/ i # n
      BY <1>1, <2>1
    <2>3. IsSend(v, i)' /\ stack'[v][i].to = u /\ stack'[v][i].id = id /\ stack'[v][i].at # "Push"
      BY <1>2, <2>1, <2>2 DEF SameBut, SameCall
    <2> QED
      BY <2>3 DEF Caller
  <1>5. \A u \in Threads, k \in Nat :
            /\ IsRun(u, k)' <=> IsRun(u, k)
            /\ IsRun(u, k) => stack'[u][k].id = stack[u][k].id /\ stack'[u][k].from = stack[u][k].from
    BY <1>1, <1>2 DEF SameBut, SameCall
  <1>6. \A v \in Threads, i \in Nat : IsSend(v, i)' =>
            /\ IsSend(v, i) /\ stack'[v][i].id = stack[v][i].id /\ stack'[v][i].to = stack[v][i].to
            /\ stack'[v][i].at = "Push" <=> stack[v][i].at = "Push"
    BY <1>1, <1>2 DEF SameBut, SameCall
  <1>7. Numbered'
    BY <1>6 DEF HeldInv, Numbered
  <1>8. Listed'
    <2>1. \A u \in Threads : \A k \in 1 .. Len(sendlist[u]) : sendlist[u][k].from \in Threads
      BY <1>3, ListFacts
    <2> QED
      BY <1>4, <2>1 DEF HeldInv, Listed
  <1>9. Run'
    <2>1. \A u \in Threads, k \in Nat : IsRun(u, k) => stack[u][k].from \in Threads
      BY CallFacts
    <2> QED
      BY <1>4, <1>5, <2>1 DEF HeldInv, Run
  <1>10. Held'
    <2> SUFFICES ASSUME NEW v \in Threads, NEW j \in Nat,
                        IsSend(v, j)', stack'[v][j].at # "Push", stack'[v][j].id \notin ready'
                 PROVE  InList(stack[v][j].to, stack[v][j].id)'
                        \/ InRun(stack[v][j].to, stack[v][j].id)'
      BY DEF Held
    <2>1. /\ IsSend(v, j) /\ stack'[v][j].to = stack[v][j].to /\ stack'[v][j].id = stack[v][j].id
          /\ stack[v][j].at # "Push" /\ stack[v][j].id \notin ready
      BY <1>6
    <2>2. PICK u, id : u = stack[v][j].to /\ id = stack[v][j].id
      OBVIOUS
    <2>3. u \in Threads /\ (InList(u, id) \/ InRun(u, id))
      BY <2>1, <2>2, CallFacts DEF HeldInv, Held
    <2>4. InList(u, id)' \/ InRun(u, id)'
      BY <1>5, <2>3 DEF InList, InRun
    <2> QED
      BY <2>1, <2>2, <2>4
  <1>11. ready' \subseteq 1 .. sends'
    BY DEF HeldInv
  <1> QED
    BY <1>7, <1>8, <1>9, <1>10, <1>11 DEF HeldInv

\* Clear: from the list to the answer.
LEMMA ClearHeld ==
    ASSUME HeldInv, Shape, Typed, NEW x \in Threads, NEW H, Clears(x, H),
           stack' = stack, sends' = sends
    PROVE  HeldInv'
  <1>1. sendlist \in [Threads -> Seq(SendMessage)]
        /\ \A u \in Threads \ {x} : sendlist'[u] = sendlist[u]
    BY DEF Typed, Clears
  <1>2. PICK f : Leaves(f, x, H)
    BY DEF Clears
  <1> DEFINE Gone(id) == \E k \in 1 .. Len(sendlist[x]) :
                            sendlist[x][k].handler \in H /\ sendlist[x][k].id = id
  <1>3. \A id : id \in ready' <=> id \in ready \/ Gone(id)
    BY DEF Clears
  <1>4. \A id : Gone(id) => InList(x, id)
    BY DEF InList
  <1>5. ASSUME NEW id, Gone(id), NEW u \in Threads, InList(u, id) \/ InRun(u, id)
        PROVE  u = x /\ ~InRun(u, id) /\ id \in 1 .. sends
    <2>1. u = x /\ id \in 1 .. sends
      BY <1>1, <1>4, <1>5, OneHolder
    <2>2. ~InRun(x, id)
      BY <1>4, <1>5 DEF InList, InRun, HeldInv, Run
    <2> QED
      BY <2>1, <2>2
  <1>6. \A k \in 1 .. Len(sendlist[x]) : sendlist[x][k].handler \notin H => ~Gone(sendlist[x][k].id)
    BY DEF HeldInv, Listed
  <1> HIDE DEF Gone
  <1>7. \A t, u, id : Caller(t, u, id)' <=> Caller(t, u, id)
    BY DEF Caller, IsSend
  <1>8. \A u, k : (IsRun(u, k)' <=> IsRun(u, k)) /\ (IsSend(u, k)' <=> IsSend(u, k))
    BY DEF IsRun, IsSend
  <1>9. Numbered'
    <2>1. \A v \in Threads, i \in Nat :
            IsSend(v, i) /\ stack[v][i].at = "Push" => ~Gone(stack[v][i].id)
      BY <1>1, <1>4, PushIsNowhere
    <2> QED
      BY <1>3, <1>8, <2>1 DEF HeldInv, Numbered
  <1>10. Listed'
    <2>1. ASSUME NEW u \in Threads, NEW k \in 1 .. Len(sendlist'[u])
          PROVE  \E l \in 1 .. Len(sendlist[u]) :
                   /\ sendlist'[u][k] = sendlist[u][l] /\ ~Gone(sendlist[u][l].id)
                   /\ (u = x => l = f[k]) /\ (u # x => l = k)
      <3>1. CASE u = x
        BY <1>2, <1>6, <3>1 DEF Leaves
      <3>2. CASE u # x
        <4>1. InList(u, sendlist[u][k].id)
          BY <1>1, <3>2 DEF InList
        <4> QED
          BY <1>1, <1>5, <3>2, <4>1
      <3> QED
        BY <3>1, <3>2
    <2>2. ASSUME NEW u \in Threads, NEW k \in 1 .. Len(sendlist'[u])
          PROVE  /\ sendlist'[u][k].id \notin ready'
                 /\ Caller(sendlist[u][k].from, u, sendlist[u][k].id)'
                 /\ \A j \in 1 .. Len(sendlist'[u]) : sendlist'[u][j].id = sendlist'[u][k].id => j = k
      <3>1. PICK l \in 1 .. Len(sendlist[u]) :
                   /\ sendlist'[u][k] = sendlist[u][l] /\ ~Gone(sendlist[u][l].id)
                   /\ (u = x => l = f[k]) /\ (u # x => l = k)
        BY <2>1
      <3>2. /\ sendlist[u][l].id \notin ready /\ Caller(sendlist[u][l].from, u, sendlist[u][l].id)
            /\ \A j \in 1 .. Len(sendlist[u]) : sendlist[u][j].id = sendlist[u][l].id => j = l
        BY DEF HeldInv, Listed
      <3>3. Caller(sendlist[u][k].from, u, sendlist[u][k].id)'
        BY <1>7, <3>1, <3>2
      <3>4. ASSUME NEW j \in 1 .. Len(sendlist'[u]), sendlist'[u][j].id = sendlist'[u][k].id
            PROVE  j = k
        <4>1. PICK i \in 1 .. Len(sendlist[u]) :
                     /\ sendlist'[u][j] = sendlist[u][i]
                     /\ (u = x => i = f[j]) /\ (u # x => i = j)
          BY <2>1
        <4>2. i = l
          BY <3>1, <3>2, <3>4, <4>1
        <4> QED
          BY <1>2, <3>1, <4>1, <4>2 DEF Leaves
      <3> QED
        BY <1>3, <3>1, <3>2, <3>3, <3>4
    <2> QED
      BY <2>2 DEF Listed
  <1>11. Run'
    <2>1. ASSUME NEW u \in Threads, NEW k \in Nat, IsRun(u, k)
          PROVE  /\ ~Gone(stack[u][k].id)
                 /\ \A l \in 1 .. Len(sendlist'[u]) : sendlist'[u][l].id # stack[u][k].id
      <3>1. InRun(u, stack[u][k].id)
        BY <2>1 DEF InRun
      <3>2. \A l \in 1 .. Len(sendlist[u]) : sendlist[u][l].id # stack[u][k].id
        BY <2>1 DEF HeldInv, Run
      <3>3. ~Gone(stack[u][k].id)
        BY <1>5, <3>1
      <3>4. CASE u = x
        <4>1. \A l \in 1 .. Len(sendlist'[x]) :
                \E j \in 1 .. Len(sendlist[x]) : sendlist'[x][l] = sendlist[x][j]
          BY <1>2 DEF Leaves
        <4> QED
          BY <3>2, <3>3, <3>4, <4>1
      <3>5. CASE u # x
        <4>1. sendlist'[u] = sendlist[u]
          BY <1>1, <3>5
        <4> QED
          BY <3>2, <3>3, <4>1
      <3> QED
        BY <3>4, <3>5
    <2> QED
      BY <1>3, <1>7, <1>8, <2>1 DEF HeldInv, Run
  <1>12. Held'
    <2> SUFFICES ASSUME NEW v \in Threads, NEW j \in Nat,
                        IsSend(v, j), stack[v][j].at # "Push", stack[v][j].id \notin ready'
                 PROVE  InList(stack[v][j].to, stack[v][j].id)'
                        \/ InRun(stack[v][j].to, stack[v][j].id)'
      BY <1>8 DEF Held
    <2>1. PICK u, id : u = stack[v][j].to /\ id = stack[v][j].id
      OBVIOUS
    <2>2. u \in Threads /\ (InList(u, id) \/ InRun(u, id)) /\ ~Gone(id)
      BY <1>3, <2>1, CallFacts DEF HeldInv, Held
    <2>3. CASE InRun(u, id)
      <3>1. InRun(u, id)'
        BY <1>8, <2>3 DEF InRun
      <3> QED
        BY <2>1, <3>1
    <2>4. CASE InList(u, id)
      <3>1. PICK k \in 1 .. Len(sendlist[u]) : sendlist[u][k].id = id
        BY <2>4 DEF InList
      <3>2. u = x => sendlist[u][k].handler \notin H
        BY <2>2, <3>1 DEF Gone
      <3>3. \E l \in 1 .. Len(sendlist'[u]) : sendlist'[u][l] = sendlist[u][k]
        <4>1. CASE u = x
          <5>1. PICK l \in 1 .. Len(sendlist'[u]) : f[l] = k
            BY <1>2, <3>2, <4>1 DEF Leaves
          <5>2. sendlist'[u][l] = sendlist[u][f[l]]
            BY <1>2, <4>1 DEF Leaves
          <5> QED
            BY <5>1, <5>2
        <4>2. CASE u # x
          BY <1>1, <2>2, <4>2
        <4> QED
          BY <4>1, <4>2
      <3>4. InList(u, id)'
        BY <3>1, <3>3 DEF InList
      <3> QED
        BY <2>1, <3>4
    <2> QED
      BY <2>2, <2>3, <2>4
  <1>13. ready' \subseteq 1 .. sends'
    BY <1>3, <1>4, <1>5 DEF HeldInv
  <1> QED
    BY <1>9, <1>10, <1>11, <1>12, <1>13 DEF HeldInv

\* Every step keeps every Send in its place.
LEMMA HeldStep ==
    ASSUME HeldInv, Shape, Typed, Next
    PROVE  HeldInv'
  <1> USE DEF queues, history, counters
  <1>0. sendlist \in [Threads -> Seq(SendMessage)] /\ sends \in Nat /\ sends <= sends
    BY DEF Typed
  <1>1. ASSUME NEW t \in Threads, ReceiveSend(t) PROVE HeldInv'
    <2>1. ready' = ready /\ sends' = sends
      BY <1>1 DEF ReceiveSend
    <2> QED
      BY <1>1, <2>1, ReceiveSendStack, ReceiveHeld
  <1>2. ASSUME NEW t \in Threads, ReceivedSends(t) PROVE HeldInv'
    <2>1. ready' = ready /\ sends' = sends /\ sendlist' = sendlist
      BY <1>2 DEF ReceivedSends
    <2>2. PICK n, f, g : Received(t, n, f, g)
      BY <1>2, ReceivedSendsStack
    <2>3. /\ n \in Nat /\ f = stack[t][n] /\ n \in 1 .. Len(stack[t]) /\ OnlyCall(t, n)
          /\ n \in 1 .. Len(stack'[t]) /\ stack'[t][n] = g /\ g.call = f.call
          /\ f.call \in {"Get", "Send"} /\ f.at = "ReceiveSends"
          /\ (f.call = "Send" => g.at = "Wait" /\ g.to = f.to /\ g.id = f.id)
      BY <2>2 DEF Received, TopIs, Sets
    <2>4. CASE f.call = "Get"
      <3>1. Plain(t, n) /\ Plain(t, n)'
        BY <2>3, <2>4 DEF Plain, IsSend, IsRun
      <3> QED
        BY <1>0, <2>1, <2>3, <3>1, PlainIsQuiet, QuietKeeps
    <2>5. CASE f.call = "Send"
      <3>1. IsSend(t, n) /\ IsSend(t, n)'
        BY <2>3, <2>5 DEF IsSend
      <3>2. SameCalls
        BY <2>3, <2>5, <3>1, SendIsQuiet
      <3> QED
        BY <1>0, <2>1, <3>2, QuietKeeps
    <2> QED
      BY <2>3, <2>4, <2>5
  <1>3. ASSUME NEW t \in Threads, OnMessageReturns(t) PROVE HeldInv'
    <2>1. sends' = sends /\ sendlist' = sendlist
      BY <1>3 DEF OnMessageReturns
    <2>2. PICK n, f, g : Answers(t, n, f) \/ Comes(t, n, f) \/ Again(t, n, f, g)
      BY <1>3, OnMessageReturnsStack
    <2>3. CASE Answers(t, n, f)
      BY <2>1, <2>3, AnswerHeld
    <2>4. CASE Comes(t, n, f)
      <3>1. /\ n \in Nat /\ OnlyCall(t, n) /\ f = stack[t][n] /\ f.call = "OnMessage"
            /\ f.by = "Direct" /\ ~IsSend(t, n)' /\ ~IsRun(t, n)' /\ ready' = ready
        BY <2>4 DEF Comes, TopIs, Drops
      <3>2. Plain(t, n) /\ Plain(t, n)'
        BY <3>1 DEF Plain, IsSend, IsRun
      <3> QED
        BY <1>0, <2>1, <3>1, <3>2, PlainIsQuiet, QuietKeeps
    <2>5. CASE Again(t, n, f, g)
      <3>1. /\ Len(stack[t]) = 2 /\ stack[t][2] = f /\ f.call = "OnMessage" /\ f.by = "Dispatch"
            /\ Len(stack'[t]) = 1 /\ stack'[t][1] = g /\ g.call = "Get" /\ ready' = ready
            /\ \A u \in Threads \ {t} : stack'[u] = stack[u]
        BY <2>5 DEF Again, TopIs
      <3>2. stack[t][1].call = "Get"
        BY <3>1, StackFacts
      <3>3. \A i \in Nat : (i \in 1 .. 2 <=> i = 1 \/ i = 2) /\ (i \in 1 .. 1 <=> i = 1)
        OBVIOUS
      <3>4. ASSUME NEW i \in Nat
            PROVE  ~IsSend(t, i) /\ ~IsRun(t, i) /\ ~IsSend(t, i)' /\ ~IsRun(t, i)'
        BY <3>1, <3>2, <3>3 DEF IsSend, IsRun
      <3>5. ASSUME NEW u \in Threads, NEW i \in Nat PROVE SameCall(u, i)
        <4>1. CASE u = t
          BY <3>4, <4>1 DEF SameCall
        <4>2. CASE u # t
          BY <3>1, <4>2 DEF SameCall, IsSend, IsRun
        <4> QED
          BY <4>1, <4>2
      <3>6. SameCalls
        BY <3>5 DEF SameCalls
      <3> QED
        BY <1>0, <2>1, <3>1, <3>6, QuietKeeps
    <2> QED
      BY <2>2, <2>3, <2>4, <2>5
  <1>4. ASSUME NEW t \in Threads, Pull(t) PROVE HeldInv'
    <2>1. ready' = ready /\ sends' = sends /\ sendlist' = sendlist
      BY <1>4 DEF Pull
    <2>2. PICK f, q, rest, g : PullsOn(t, f, q, rest, g) \/ Dispatches(t, f, g)
      BY <1>4, PullStack
    <2>3. CASE PullsOn(t, f, q, rest, g)
      <3>1. /\ OnlyCall(t, 1) /\ stack'[t][1] = g /\ g.call = "Get" /\ stack[t][1].call = "Get"
        BY <2>3 DEF PullsOn, TopIs, Sets
      <3>2. Plain(t, 1) /\ Plain(t, 1)'
        BY <3>1 DEF Plain, IsSend, IsRun
      <3> QED
        BY <1>0, <2>1, <3>1, <3>2, PlainIsQuiet, QuietKeeps
    <2>4. CASE Dispatches(t, f, g)
      <3>1. /\ OnlyCall(t, 2) /\ stack'[t][2] = g /\ g.call = "OnMessage" /\ g.by = "Dispatch"
            /\ ~IsSend(t, 2) /\ ~IsRun(t, 2)
        BY <2>4 DEF Dispatches, Sets
      <3>2. Plain(t, 2) /\ Plain(t, 2)'
        BY <3>1 DEF Plain, IsSend, IsRun
      <3> QED
        BY <1>0, <2>1, <3>1, <3>2, PlainIsQuiet, QuietKeeps
    <2> QED
      BY <2>2, <2>3, <2>4
  <1>5. ASSUME NEW t \in Threads, CheckStop(t) PROVE HeldInv'
    <2>1. ready' = ready /\ sends' = sends /\ sendlist' = sendlist
      BY <1>5 DEF CheckStop
    <2>2. PICK f, g : Ends(t, f) \/ Waits(t, f, g)
      BY <1>5, CheckStopStack
    <2>3. /\ OnlyCall(t, 1) /\ stack[t][1].call = "Get"
          /\ Len(stack'[t]) = 0 \/ stack'[t][1].call = "Get"
      BY <2>2 DEF Ends, Waits, TopIs, Sets
    <2>4. Plain(t, 1) /\ Plain(t, 1)'
      <3>1. 1 \notin 1 .. 0
        OBVIOUS
      <3> QED
        BY <2>3, <3>1 DEF Plain, IsSend, IsRun
    <2> QED
      BY <1>0, <2>1, <2>3, <2>4, PlainIsQuiet, QuietKeeps
  <1>6. ASSUME NEW t \in Threads, GetWait(t) PROVE HeldInv'
    <2>1. ready' = ready /\ sends' = sends /\ sendlist' = sendlist
      BY <1>6 DEF GetWait
    <2>2. PICK f, g : Wakes(t, f, g)
      BY <1>6, GetWaitStack
    <2>3. OnlyCall(t, 1) /\ stack[t][1].call = "Get" /\ stack'[t][1].call = "Get"
      BY <2>2 DEF Wakes, TopIs, Sets
    <2>4. Plain(t, 1) /\ Plain(t, 1)'
      BY <2>3 DEF Plain, IsSend, IsRun
    <2> QED
      BY <1>0, <2>1, <2>3, <2>4, PlainIsQuiet, QuietKeeps
  <1>7. ASSUME NEW t \in Threads, SendPush(t) PROVE HeldInv'
    <2>1. ready' = ready /\ sends' = sends
      BY <1>7 DEF SendPush
    <2> QED
      BY <1>7, <2>1, SendPushStack, PushHeld
  <1>8. ASSUME NEW t \in Threads, NEW n, NEW f, NEW g, SendGoes(t, n, f, g),
               f.at # "Push", g.at # "Push", ready' = ready, sends' = sends, sendlist' = sendlist
        PROVE  HeldInv'
    <2>1. /\ n \in Nat /\ OnlyCall(t, n) /\ IsSend(t, n) /\ IsSend(t, n)' /\ f = stack[t][n]
          /\ stack'[t][n] = g /\ g.to = f.to /\ g.id = f.id
      BY <1>8 DEF SendGoes, TopSend, TopIs, Sets
    <2>2. SameCalls
      BY <1>8, <2>1, SendIsQuiet
    <2> QED
      BY <1>0, <1>8, <2>2, QuietKeeps
  <1>9. ASSUME NEW t \in Threads, SendWakeUp(t) PROVE HeldInv'
    <2>1. ready' = ready /\ sends' = sends /\ sendlist' = sendlist
      BY <1>9 DEF SendWakeUp
    <2>2. PICK n, f, g : Signals(t, n, f, g)
      BY <1>9, SendWakeUpStack
    <2> QED
      BY <1>8, <2>1, <2>2 DEF Signals
  <1>10. ASSUME NEW t \in Threads, SendTest(t) PROVE HeldInv'
    <2>1. ready' = ready /\ sends' = sends /\ sendlist' = sendlist
      BY <1>10 DEF SendTest
    <2>2. PICK n, f, g : Finishes(t, n, f) \/ Receiving(t, n, f, g)
      BY <1>10, SendTestStack
    <2>3. CASE Finishes(t, n, f)
      BY <2>1, <2>3, FinishHeld
    <2>4. CASE Receiving(t, n, f, g)
      BY <1>8, <2>1, <2>4 DEF Receiving
    <2> QED
      BY <2>2, <2>3, <2>4
  <1>11. ASSUME NEW t \in Threads, SendWait(t) PROVE HeldInv'
    <2>1. ready' = ready /\ sends' = sends /\ sendlist' = sendlist
      BY <1>11 DEF SendWait
    <2>2. PICK n, f, g : Woken(t, n, f, g)
      BY <1>11, SendWaitStack
    <2> QED
      BY <1>8, <2>1, <2>2 DEF Woken
  <1>12. ASSUME NEW t \in Threads, PostPush(t) PROVE HeldInv'
    <2>1. ready' = ready /\ sends' = sends /\ sendlist' = sendlist
      BY <1>12 DEF PostPush, PushMessage
    <2>2. PICK n, f, m, u : Queues(t, n, f, m, u)
      BY <1>12, PostPushStack
    <2>3. n \in Nat /\ OnlyCall(t, n) /\ Plain(t, n) /\ Plain(t, n)'
      BY <2>2 DEF Queues, TopIs, Drops, Plain
    <2> QED
      BY <1>0, <2>1, <2>3, PlainIsQuiet, QuietKeeps
  <1>13. ASSUME NEW t \in Threads, NEW n, NEW f, NEW g, HandlerCalls(t, n, f, g),
                g.call # "Send", ~(g.call = "OnMessage" /\ g.by = "Send"),
                ready' = ready, sends' \in Nat, sends <= sends', sendlist' = sendlist
         PROVE  HeldInv'
    <2>1. PICK N \in Nat : N = n + 1
      BY <1>13 DEF HandlerCalls
    <2>2. OnlyCall(t, N) /\ Plain(t, N) /\ stack'[t][N] = g
      BY <1>13, <2>1 DEF HandlerCalls, Sets, Plain
    <2>3. Plain(t, N)'
      BY <1>13, <2>2 DEF Plain, IsSend, IsRun
    <2> QED
      BY <1>0, <1>13, <2>2, <2>3, PlainIsQuiet, QuietKeeps
  <1>14. ASSUME NEW t \in Threads, NEW u \in Threads, NEW h \in Handlers, Send(t, u, h)
         PROVE  HeldInv'
    <2>1. ready' = ready /\ sends' = sends + 1 /\ sendlist' = sendlist
      BY <1>14 DEF Send
    <2>2. sends' \in Nat /\ sends <= sends'
      BY <1>0, <2>1
    <2>3. PICK n, f, g : Begins(t, u, n, f, g)
      BY <1>14, SendStack
    <2>4. CASE g.call = "Send"
      BY <2>1, <2>3, <2>4, SendHeld DEF Begins
    <2>5. CASE g.call = "OnMessage" /\ g.by = "Direct"
      BY <1>13, <2>1, <2>2, <2>3, <2>5 DEF Begins
    <2> QED
      BY <2>3, <2>4, <2>5 DEF Begins
  <1>15. ASSUME NEW t \in Threads, NEW u \in Threads, NEW h \in Handlers \cup {MQID_DISPOSE},
                Post(t, u, h)
         PROVE  HeldInv'
    <2>1. ready' = ready /\ sends' = sends /\ sendlist' = sendlist
      BY <1>15 DEF Post
    <2>2. PICK n, f, g : HandlerCalls(t, n, f, g) /\ g.call = "Post"
      BY <1>15, PostStack
    <2> QED
      BY <1>0, <1>13, <2>1, <2>2
  <1>16. ASSUME NEW t \in Threads, NEW u \in Threads, NEW h \in Handlers, ClearHandler(t, u, h)
         PROVE  HeldInv'
    <2>1. stack' = stack /\ sends' = sends /\ Clear(u, {h})
      BY <1>16 DEF ClearHandler
    <2> QED
      BY <2>1, ClearFacts, ClearHeld
  <1>17. ASSUME NEW t \in Threads, JoinAndClear(t) PROVE HeldInv'
    <2>1. stack' = stack /\ sends' = sends /\ Clear(t, Handlers \cup {MQID_DISPOSE, "app"})
      BY <1>17 DEF JoinAndClear
    <2> QED
      BY <2>1, ClearFacts, ClearHeld
  <1>18. ASSUME stack' = stack, ready' = ready, sends' = sends, sendlist' = sendlist
         PROVE  HeldInv'
    <2>1. SameCalls
      BY <1>18 DEF SameCalls, SameCall, IsSend, IsRun
    <2> QED
      BY <1>0, <1>18, <2>1, QuietKeeps
  <1>19. ASSUME NEW t \in Threads, Quit(t) \/ QuitWakeUp(t) PROVE HeldInv'
    BY <1>18, <1>19 DEF Quit, QuitWakeUp
  <1>20. CASE Tick
    BY <1>18, <1>20 DEF Tick
  <1> QED
    BY <1>1, <1>2, <1>3, <1>4, <1>5, <1>6, <1>7, <1>9, <1>10, <1>11, <1>12, <1>14, <1>15,
       <1>16, <1>17, <1>19, <1>20 DEF Next, Step

-----------------------------------------------------------------------------
(* The invariant and what follows from it.                                 *)

CallInv == Typed /\ Shape /\ HeldInv

\* It holds at the start: every thread is in Get and nobody sends.
LEMMA CallInvInit ==
    ASSUME Init
    PROVE  CallInv
  <1>1. StartTime \in Nat /\ StartTime % TimeMod \in Nat
    BY ThreadsConstantsOK
  <1>2. PICK g : g = GetCall("Wait", StartTime % TimeMod, kForever)
    OBVIOUS
  <1>3. g \in GetFrame /\ g.call = "Get"
    BY <1>1, <1>2 DEF GetCall, GetFrame, kForever
  <1>4. g \in Frame
    BY <1>3 DEF Frame
  <1>5. PICK q : q = <<g>>
    OBVIOUS
  <1>6. q \in Seq(Frame) /\ Len(q) = 1 /\ q[1] = g
    BY <1>4, <1>5
  <1>7. StackOK(q)
    BY <1>3, <1>6 DEF StackOK
  <1>8. stack = [t \in Threads |-> q]
    BY <1>2, <1>5 DEF Init
  <1>9. Shape
    BY <1>6, <1>7, <1>8 DEF Shape
  <1>10. FirstMessage \in Message
    BY <1>1 DEF FirstMessage, Message, AllHandlers
  <1>11. Typed
    <2>1. <<FirstMessage>> \in Seq(Message) /\ <<>> \in Seq(Message) /\ <<>> \in Seq(Delayed)
          /\ <<>> \in Seq(SendMessage)
      BY <1>10
    <2>2. msgq \in [Threads -> Seq(Message)]
      BY <2>1 DEF Init
    <2>3. dmsgq \in [Threads -> Seq(Delayed)] /\ sendlist \in [Threads -> Seq(SendMessage)]
          /\ handled \in [Threads -> Seq(Message)]
      BY <2>1 DEF Init
    <2>4. wake \in [Threads -> BOOLEAN] /\ fStop \in [Threads -> BOOLEAN]
      BY DEF Init
    <2>5. owner \in [Threads -> {"running", "quit", "joining", "destroyed"}]
      BY DEF Init
    <2>6. now \in Nat /\ sends \in Nat /\ posts \in Nat /\ pushed \in [Threads -> SUBSET Message]
      BY <1>1 DEF Init
    <2> QED
      BY <2>2, <2>3, <2>4, <2>5, <2>6 DEF Typed
  <1>12. HeldInv
    <2>1. \A t \in Threads, i \in Nat : ~IsSend(t, i) /\ ~IsRun(t, i)
      <3>1. \A i \in Nat : i \in 1 .. 1 => i = 1
        OBVIOUS
      <3> QED
        BY <1>3, <1>6, <1>8, <3>1 DEF IsSend, IsRun
    <2>2. \A t \in Threads : Len(sendlist[t]) = 0
      BY DEF Init
    <2>3. \A t \in Threads : \A k \in 1 .. Len(sendlist[t]) : FALSE
      BY <2>2
    <2>4. ready = {}
      BY DEF Init
    <2> QED
      BY <2>1, <2>3, <2>4 DEF HeldInv, Numbered, Listed, Run, Held
  <1> QED
    BY <1>9, <1>11, <1>12 DEF CallInv

\* Every step keeps it.
LEMMA CallInvStep ==
    ASSUME CallInv, [Next]_vars
    PROVE  CallInv'
  <1> USE DEF CallInv
  <1>1. CASE Next
    <2>1. Typed'
      BY <1>1, TypedSteps, TypedOthers
    <2> QED
      BY <1>1, <2>1, ShapeStep, HeldStep
  <1>2. CASE UNCHANGED vars
    <2>1. /\ stack' = stack /\ msgq' = msgq /\ dmsgq' = dmsgq /\ sendlist' = sendlist
          /\ ready' = ready /\ wake' = wake /\ fStop' = fStop /\ owner' = owner /\ now' = now
          /\ sends' = sends /\ posts' = posts /\ pushed' = pushed /\ handled' = handled
      BY <1>2 DEF vars, queues, counters, history
    <2>2. Typed'
      BY <2>1 DEF Typed
    <2>3. Shape'
      BY <2>1 DEF Shape, StackOK
    <2>4. SameCalls
      BY <2>1 DEF SameCalls, SameCall, IsSend, IsRun
    <2>5. sends <= sends /\ sends \in Nat /\ sendlist \in [Threads -> Seq(SendMessage)]
      BY DEF Typed
    <2>6. HeldInv'
      BY <2>1, <2>4, <2>5, QuietKeeps
    <2> QED
      BY <2>2, <2>3, <2>6
  <1> QED
    BY <1>1, <1>2

\* In every state the variables have their types, the calls of each thread fit, and every
\* Send without an answer is held in one place.
THEOREM CallInvariance == Spec => []CallInv
  BY CallInvInit, CallInvStep, PTL DEF Spec

\* While a thread is in Send only the thread it called may call in (Send takes the
\* messages of the callee only): the stack has no other call above a Send.
THEOREM CallsInAreAlwaysFromCallee == Spec => []CallsInAreFromCallee
  <1>1. CallInv => CallsInAreFromCallee
    <2> SUFFICES ASSUME CallInv, NEW t \in Threads, NEW i \in 1 .. Len(stack[t]) - 1,
                        stack[t][i].call = "Send"
                 PROVE  stack[t][i + 1].by = "Send" /\ stack[t][i + 1].from = stack[t][i].to
      BY DEF CallsInAreFromCallee
    <2>1. Fits(stack[t][i], stack[t][i + 1])
      BY StackFacts DEF CallInv
    <2> QED
      BY <2>1 DEF Fits
  <1> QED
    BY <1>1, CallInvariance, PTL

\* A Send that has no answer is in exactly one place, the list of its callee or a handler
\* the callee runs; before it is put there and once it has its answer it is in none (Send,
\* ReceiveSendsFromThread, Clear).
THEOREM UnansweredIsAlwaysHeld == Spec => []UnansweredIsHeld
  <1>1. ASSUME CallInv, NEW t \in Threads, NEW f \in SendsOf(t)
        PROVE  LET listed == {i \in DOMAIN sendlist[f.to] : sendlist[f.to][i].id = f.id}
                   run == {i \in DOMAIN stack[f.to] : stack[f.to][i].call = "OnMessage"
                             /\ stack[f.to][i].by = "Send" /\ stack[f.to][i].id = f.id}
               IN  IF f.at = "Push" \/ f.id \in ready
                   THEN listed = {} /\ run = {}
                   ELSE \/ listed = {} /\ \E i \in run : run = {i}
                        \/ run = {} /\ \E i \in listed : listed = {i}
    <2>1. HeldInv /\ Shape /\ sendlist \in [Threads -> Seq(SendMessage)]
      BY <1>1 DEF CallInv, Typed
    <2>2. PICK i \in Nat : IsSend(t, i) /\ f = stack[t][i]
      <3>1. stack[t] \in Seq(Frame)
        BY <2>1, StackFacts
      <3>2. DOMAIN stack[t] = 1 .. Len(stack[t])
        BY <3>1
      <3>3. PICK i \in 1 .. Len(stack[t]) : f = stack[t][i] /\ f.call = "Send"
        BY <3>2 DEF SendsOf, Calls
      <3> QED
        BY <3>3 DEF IsSend
    <2>3. PICK u, id : u = f.to /\ id = f.id
      OBVIOUS
    <2>4. u \in Threads
      BY <2>1, <2>2, <2>3, CallFacts
    <2> DEFINE listed == {k \in DOMAIN sendlist[f.to] : sendlist[f.to][k].id = f.id}
               run == {k \in DOMAIN stack[f.to] : stack[f.to][k].call = "OnMessage"
                                                /\ stack[f.to][k].by = "Send"
                                                /\ stack[f.to][k].id = f.id}
    <2>5. /\ listed = {k \in DOMAIN sendlist[u] : sendlist[u][k].id = id}
          /\ run = {k \in DOMAIN stack[u] : stack[u][k].call = "OnMessage"
                                           /\ stack[u][k].by = "Send" /\ stack[u][k].id = id}
      BY <2>3
    <2> HIDE DEF listed, run
    <2>6. \A k : k \in listed <=> k \in 1 .. Len(sendlist[u]) /\ sendlist[u][k].id = id
      <3>1. sendlist[u] \in Seq(SendMessage)
        BY <2>1, <2>4
      <3>2. DOMAIN sendlist[u] = 1 .. Len(sendlist[u])
        BY <3>1
      <3> QED
        BY <2>5, <3>2
    <2>7. \A k : k \in run <=> k \in Nat /\ IsRun(u, k) /\ stack[u][k].id = id
      <3>1. stack[u] \in Seq(Frame)
        BY <2>1, <2>4, StackFacts
      <3>2. DOMAIN stack[u] = 1 .. Len(stack[u])
        BY <3>1
      <3> QED
        BY <2>5, <3>2 DEF IsRun
    <2>8. (InList(u, id) <=> listed # {}) /\ (InRun(u, id) <=> run # {})
      BY <2>6, <2>7 DEF InList, InRun
    <2>9. IF f.at = "Push" \/ f.id \in ready
          THEN listed = {} /\ run = {}
          ELSE \/ listed = {} /\ \E k \in run : run = {k}
               \/ run = {} /\ \E k \in listed : listed = {k}
      <3>1. CASE f.at = "Push"
        <4>1. listed = {} /\ run = {}
          BY <2>1, <2>2, <2>3, <2>4, <2>8, <3>1, PushIsNowhere
        <4> QED
          BY <3>1, <4>1
      <3>2. CASE f.id \in ready
        <4>1. listed = {} /\ run = {}
          BY <2>1, <2>3, <2>4, <2>8, <3>2, OneHolder
        <4> QED
          BY <3>2, <4>1
      <3>3. CASE f.at # "Push" /\ f.id \notin ready
        <4>1. InList(u, id) \/ InRun(u, id)
          BY <2>1, <2>2, <2>3, <3>3 DEF HeldInv, Held
        <4>2. \A k, l \in listed : k = l
          BY <2>1, <2>4, <2>6 DEF HeldInv, Listed
        <4>3. \A k, l \in run : k = l
          BY <2>1, <2>4, <2>7 DEF HeldInv, Run
        <4>4. run = {} \/ listed = {}
          BY <2>1, <2>4, <2>6, <2>7 DEF HeldInv, Run
        <4>5. (listed = {} /\ \E k \in run : run = {k}) \/ (run = {} /\ \E k \in listed : listed = {k})
          BY <2>8, <4>1, <4>2, <4>3, <4>4
        <4> QED
          BY <3>3, <4>5
      <3> QED
        BY <3>1, <3>2, <3>3
    <2> QED
      BY <2>9 DEF listed, run
  <1>2. CallInv => UnansweredIsHeld
    BY <1>1 DEF UnansweredIsHeld
  <1> QED
    BY <1>2, CallInvariance, PTL

-----------------------------------------------------------------------------
(* No wakeup is lost.                                                      *)

\* An entry of the list of v that is not seen after the step was not seen before.
EntriesKept(v) ==
    \A k \in 1 .. Len(sendlist'[v]) :
        Seen(v, k)' \/ \E j \in 1 .. Len(sendlist[v]) :
                          sendlist[v][j].from = sendlist'[v][k].from /\ ~Seen(v, j)

\* A step that leaves the calls of v alone and wakes v for what is new.
Spares(v) ==
    /\ stack'[v] = stack[v] /\ EntriesKept(v)
    /\ wake[v] => wake'[v]
    /\ \A i \in Nat : IsSend(v, i) /\ stack[v][i].id \in ready' => stack[v][i].id \in ready \/ wake'[v]
    /\ Len(msgq'[v]) > 0 => Len(msgq[v]) > 0 \/ wake'[v]
    /\ Len(dmsgq'[v]) > 0 => Len(dmsgq[v]) > 0 \/ wake'[v]
    /\ Len(stack[v]) = 1 /\ fStop'[v] => (fStop[v] /\ owner[v] # "quit") \/ owner'[v] = "quit" \/ wake'[v]

\* Such a step keeps v from missing anything.
LEMMA SparesKeeps ==
    ASSUME NEW v \in Threads, WakeOf(v), Spares(v)
    PROVE  WakeOf(v)'
  <1>1. \A i : (IsSend(v, i)' <=> IsSend(v, i)) /\ stack'[v][i] = stack[v][i]
    BY DEF Spares, IsSend
  <1>2. \A i : Owed(v, i)' <=> Owed(v, i)
    BY <1>1 DEF Owed
  <1>3. AnswersSeen(v)'
    BY <1>1, <1>2 DEF Spares, WakeOf, AnswersSeen
  <1>4. CallsSeen(v)'
    BY <1>1 DEF Spares, EntriesKept, WakeOf, CallsSeen
  <1>5. ASSUME Len(stack[v]) = 1
        PROVE  GetSees(v, stack[v][1].at, stack[v][1].delay)'
    <2>1. PICK a, d : a = stack[v][1].at /\ d = stack[v][1].delay
      OBVIOUS
    <2>2. GetSees(v, a, d)
      BY <1>5, <2>1 DEF WakeOf
    <2>3. GetSees(v, a, d)'
      BY <1>5, <2>2 DEF Spares, EntriesKept, GetSees
    <2> QED
      BY <1>1, <2>1, <2>3
  <1>6. Len(stack'[v]) = Len(stack[v])
    BY DEF Spares
  <1> QED
    BY <1>3, <1>4, <1>5, <1>6 DEF WakeOf

\* A Send about to signal its callee stays, unless it is the call that changes.
LEMMA PendingStays ==
    ASSUME NEW t \in Threads, NEW n \in Nat, OnlyCall(t, n),
           ~(IsSend(t, n) /\ stack[t][n].at = "WakeUp")
    PROVE  \A u \in Threads : \A v, id : Pending(u, v, id) => Pending(u, v, id)'
  <1> SUFFICES ASSUME NEW u \in Threads, NEW v, NEW id, Pending(u, v, id)
               PROVE  Pending(u, v, id)'
    OBVIOUS
  <1>1. PICK i \in Nat : /\ IsSend(u, i) /\ stack[u][i].to = v /\ stack[u][i].id = id
                         /\ stack[u][i].at = "WakeUp"
    BY DEF Pending
  <1>2. u # t \/ i # n
    BY <1>1
  <1>3. IsSend(u, i)' /\ stack'[u][i] = stack[u][i]
    BY <1>1, <1>2 DEF OnlyCall, IsSend
  <1> QED
    BY <1>1, <1>3 DEF Pending

\* The list stays, and what is pending.
LEMMA SameEntries ==
    ASSUME NEW v \in Threads, sendlist \in [Threads -> Seq(SendMessage)],
           sendlist'[v] = sendlist[v], wake[v] => wake'[v],
           \A u \in Threads : \A id : Pending(u, v, id) => Pending(u, v, id)'
    PROVE  EntriesKept(v)
  <1>1. \A k \in 1 .. Len(sendlist[v]) : sendlist[v][k].from \in Threads
    BY ListFacts
  <1>2. \A k \in 1 .. Len(sendlist[v]) : Seen(v, k) => Seen(v, k)'
    BY <1>1 DEF Seen
  <1> QED
    BY <1>2 DEF EntriesKept

\* A Send that waits is the running call.
LEMMA WaitIsTop ==
    ASSUME Shape, NEW t \in Threads, NEW i \in Nat, IsSend(t, i), stack[t][i].at # "ReceiveSends"
    PROVE  i = Len(stack[t])
  <1>1. PICK n \in Nat : n = Len(stack[t])
    BY StackFacts
  <1>2. ASSUME i # n PROVE FALSE
    <2>1. i \in 1 .. n - 1
      BY <1>1, <1>2 DEF IsSend
    <2>2. Fits(stack[t][i], stack[t][i + 1])
      BY <1>1, <2>1, StackFacts
    <2> QED
      BY <2>2 DEF Fits, IsSend
  <1> QED
    BY <1>1, <1>2

\* A step after which t does not wait in Send.
LEMMA ActorCalls ==
    ASSUME Shape, NEW t \in Threads, NEW n \in Nat, OnlyCall(t, n),
           Len(stack[t]) = n \/ ~(Top(t).call = "Send" /\ Top(t).at = "Wait"),
           ~(IsSend(t, n)' /\ stack'[t][n].at = "Wait")
    PROVE  CallsSeen(t)'
  <1> SUFFICES ASSUME NEW i \in Nat, IsSend(t, i)', stack'[t][i].at = "Wait"
               PROVE  FALSE
    BY DEF CallsSeen
  <1>1. i # n
    OBVIOUS
  <1>2. IsSend(t, i) /\ stack'[t][i] = stack[t][i]
    BY <1>1 DEF OnlyCall, IsSend
  <1>3. i = Len(stack[t])
    BY <1>2, WaitIsTop
  <1>4. Top(t) = stack[t][i] /\ Top(t).call = "Send"
    BY <1>2, <1>3 DEF Top, IsSend
  <1> QED
    BY <1>1, <1>2, <1>3, <1>4

\* A step of t that does not use up a wakeup keeps its answers seen.
LEMMA ActorAnswers ==
    ASSUME NEW t \in Threads, NEW n \in Nat, OnlyCall(t, n), AnswersSeen(t), wake[t] => wake'[t],
           \A i \in Nat : IsSend(t, i) /\ stack[t][i].id \in ready'
                            => stack[t][i].id \in ready \/ wake'[t],
           IsSend(t, n)' /\ stack'[t][n].at \in {"ReceiveSends", "Wait"}
                         /\ stack'[t][n].id \in ready' =>
              /\ IsSend(t, n) /\ stack[t][n].at \in {"ReceiveSends", "Wait"}
              /\ stack[t][n].id = stack'[t][n].id,
           IsSend(t, n) /\ stack[t][n].waited =>
              wake'[t] \/ (IsSend(t, n)' /\ stack'[t][n].waited)
    PROVE  AnswersSeen(t)'
  <1>1. \A i \in Nat : Owed(t, i) => wake'[t] \/ Owed(t, i)'
    <2> SUFFICES ASSUME NEW i \in Nat, Owed(t, i), ~wake'[t] PROVE Owed(t, i)'
      OBVIOUS
    <2>1. PICK j \in Nat : j > i /\ IsSend(t, j) /\ stack[t][j].waited
      BY DEF Owed
    <2>2. IsSend(t, j)' /\ stack'[t][j].waited
      <3>1. CASE j = n
        BY <2>1, <3>1
      <3>2. CASE j # n
        BY <2>1, <3>2 DEF OnlyCall, IsSend
      <3> QED
        BY <3>1, <3>2
    <2> QED
      BY <2>1, <2>2 DEF Owed
  <1> SUFFICES ASSUME NEW i \in Nat, IsSend(t, i)',
                      stack'[t][i].at \in {"ReceiveSends", "Wait"}, stack'[t][i].id \in ready'
               PROVE  wake'[t] \/ Owed(t, i)'
    BY DEF AnswersSeen
  <1>2. IsSend(t, i) /\ stack[t][i].at \in {"ReceiveSends", "Wait"} /\ stack[t][i].id = stack'[t][i].id
    <2>1. CASE i = n
      BY <2>1
    <2>2. CASE i # n
      BY <2>2 DEF OnlyCall, IsSend
    <2> QED
      BY <2>1, <2>2
  <1>3. stack[t][i].id \in ready \/ wake'[t]
    BY <1>2
  <1> QED
    BY <1>1, <1>2, <1>3 DEF AnswersSeen

\* The other threads' calls stay.
LEMMA OthersStay ==
    ASSUME Shape, Shape', NEW t \in Threads, NEW n \in Nat, OnlyCall(t, n), NEW v \in Threads, v # t
    PROVE  stack'[v] = stack[v]
  <1>1. stack[v] \in Seq(Frame) /\ Len(stack[v]) \in Nat
    BY StackFacts
  <1>2. stack'[v] \in Seq(Frame) /\ Len(stack'[v]) \in Nat
    BY DEF Shape
  <1>3. \A i \in Nat : i \in 1 .. Len(stack'[v]) <=> i \in 1 .. Len(stack[v])
    BY DEF OnlyCall
  <1>4. Len(stack'[v]) = Len(stack[v])
    <2>1. PICK a \in Nat, b \in Nat : a = Len(stack[v]) /\ b = Len(stack'[v])
      BY <1>1, <1>2
    <2>2. (a >= 1 => a <= b) /\ (b >= 1 => b <= a)
      <3>1. a >= 1 => a \in 1 .. a
        OBVIOUS
      <3>2. b >= 1 => b \in 1 .. b
        OBVIOUS
      <3> QED
        BY <1>3, <2>1, <3>1, <3>2
    <2> QED
      BY <2>1, <2>2
  <1>5. \A i \in 1 .. Len(stack[v]) : stack'[v][i] = stack[v][i]
    BY <1>1 DEF OnlyCall
  <1> QED
    BY <1>1, <1>2, <1>4, <1>5

\* What another thread v sees of a step of t that changes call n of t, wakes and sleeps
\* only t, and leaves the lists, the answers and fStop_ alone.
LEMMA QuietSpares ==
    ASSUME Shape, Shape', Typed, NEW t \in Threads, NEW n \in Nat, OnlyCall(t, n),
           ~(IsSend(t, n) /\ stack[t][n].at = "WakeUp"),
           sendlist' = sendlist, ready' = ready, fStop' = fStop, owner' = owner,
           NEW v \in Threads, v # t, wake[v] => wake'[v],
           Len(msgq'[v]) > 0 => Len(msgq[v]) > 0 \/ wake'[v],
           Len(dmsgq'[v]) > 0 => Len(dmsgq[v]) > 0 \/ wake'[v]
    PROVE  Spares(v)
  <1>1. stack'[v] = stack[v]
    BY OthersStay
  <1>2. \A u \in Threads : \A w, id : Pending(u, w, id) => Pending(u, w, id)'
    BY PendingStays
  <1>3. sendlist \in [Threads -> Seq(SendMessage)]
    BY DEF Typed
  <1>4. EntriesKept(v)
    BY <1>2, <1>3, SameEntries
  <1> QED
    BY <1>1, <1>4 DEF Spares

\* Call n, of two or more, returns: if Get is left it looks at everything again.
LEMMA DropSees ==
    ASSUME Shape, NEW t \in Threads, NEW n, NEW f, TopIs(t, n, f), Drops(t, n),
           ~(f.call = "OnMessage" /\ f.by = "Dispatch"), Len(stack'[t]) = 1
    PROVE  GetSees(t, stack[t][1].at, stack[t][1].delay)'
  <1>1. n \in Nat /\ n = Len(stack[t]) /\ n >= 2 /\ OnlyCall(t, n) /\ Running(t) /\ f = stack[t][n]
    BY DEF TopIs, Drops
  <1>2. n = 2
    <2>1. ASSUME n # 2 PROVE FALSE
      <3>1. 2 \in 1 .. n /\ 2 # n /\ 2 \notin 1 .. 1
        BY <1>1, <2>1
      <3> QED
        BY <1>1, <3>1 DEF OnlyCall
    <2> QED
      BY <2>1
  <1>3. stack'[t][1] = stack[t][1]
    <2>1. 1 \in 1 .. n /\ 1 # n
      BY <1>2
    <2> QED
      BY <1>1, <2>1 DEF OnlyCall
  <1>4. Fits(stack[t][1], stack[t][1 + 1]) /\ stack[t][1].call = "Get"
    <2>1. 1 \in 1 .. n - 1
      BY <1>2
    <2> QED
      BY <1>1, <2>1, StackFacts
  <1>5. 1 + 1 = n
    BY <1>2
  <1>6. stack[t][1].at = "ReceiveSends"
    BY <1>1, <1>4, <1>5 DEF Fits
  <1>7. PICK a, d : a = stack'[t][1].at /\ d = stack'[t][1].delay
    OBVIOUS
  <1>8. GetSees(t, a, d)'
    BY <1>3, <1>6, <1>7 DEF GetSees
  <1> QED
    BY <1>7, <1>8

\* A call above Get is not the bottom one.
LEMMA AboveGet ==
    ASSUME Shape, NEW t \in Threads, NEW n, NEW f, TopIs(t, n, f), f.call # "Get"
    PROVE  n >= 2
  BY Below DEF TopIs

\* If call 2 is there Get is not alone.
LEMMA NotAlone ==
    ASSUME Shape', NEW t \in Threads, NEW n \in Nat, n >= 2, n \in 1 .. Len(stack'[t])
    PROVE  Len(stack'[t]) # 1
  <1>1. PICK k \in Nat : k = Len(stack'[t])
    BY DEF Shape
  <1>2. n \in 1 .. k
    BY <1>1
  <1>3. k # 1
    BY <1>2
  <1> QED
    BY <1>1, <1>3

\* ReceiveSend.
LEMMA ReceiveWake ==
    ASSUME WakeInv, Shape, Typed, NEW t \in Threads, ReceiveSend(t)
    PROVE  WakeInv'
  <1>1. PICK n, f, i, m, g : Receives(t, n, f, i, m, g)
    BY ReceiveSendStack
  <1>2. PICK N \in Nat : N = n + 1
    BY <1>1 DEF Receives
  <1>3. /\ n \in Nat /\ n >= 1 /\ f = Top(t) /\ f.at = "ReceiveSends" /\ Shape'
        /\ OnlyCall(t, N) /\ ~IsSend(t, N) /\ N \in 1 .. Len(stack'[t]) /\ stack'[t][N] = g
        /\ g.call = "OnMessage" /\ sendlist' = [sendlist EXCEPT ![t] = Without(sendlist[t], i)]
    BY <1>1, <1>2 DEF Receives, TopIs, Sets
  <1>4. /\ wake' = wake /\ ready' = ready /\ msgq' = msgq /\ dmsgq' = dmsgq /\ fStop' = fStop
        /\ owner' = owner
    BY DEF ReceiveSend
  <1>5. ~IsSend(t, N)'
    BY <1>3 DEF IsSend
  <1>6. ASSUME NEW v \in Threads, v # t PROVE WakeOf(v)'
    <2>1. stack'[v] = stack[v]
      BY <1>3, <1>6, OthersStay
    <2>2. sendlist'[v] = sendlist[v] /\ sendlist \in [Threads -> Seq(SendMessage)]
      BY <1>3, <1>6 DEF Typed
    <2>3. \A u \in Threads : \A w, id : Pending(u, w, id) => Pending(u, w, id)'
      BY <1>3, PendingStays
    <2>4. EntriesKept(v)
      BY <1>4, <2>2, <2>3, SameEntries
    <2>5. Spares(v)
      BY <1>4, <2>1, <2>4 DEF Spares
    <2> QED
      BY <2>5, SparesKeeps DEF WakeInv
  <1>7. WakeOf(t)'
    <2>1. AnswersSeen(t)'
      BY <1>3, <1>4, <1>5, ActorAnswers DEF WakeInv, WakeOf
    <2>2. CallsSeen(t)'
      BY <1>3, <1>5, ActorCalls
    <2>3. Len(stack'[t]) # 1
      <3>1. N >= 2
        BY <1>2, <1>3
      <3> QED
        BY <1>3, <3>1, NotAlone
    <2> QED
      BY <2>1, <2>2, <2>3 DEF WakeOf
  <1> QED
    BY <1>6, <1>7 DEF WakeInv

\* ReceivedSends.
LEMMA ReceivedWake ==
    ASSUME WakeInv, Shape, Typed, NEW t \in Threads, ReceivedSends(t)
    PROVE  WakeInv'
  <1>1. PICK n, f, g : Received(t, n, f, g)
    BY ReceivedSendsStack
  <1>2. /\ n \in Nat /\ n >= 1 /\ n = Len(stack[t]) /\ f = stack[t][n] /\ f.at = "ReceiveSends"
        /\ f.call \in {"Get", "Send"} /\ Shape' /\ OnlyCall(t, n)
        /\ n \in 1 .. Len(stack'[t]) /\ stack'[t][n] = g /\ g.call = f.call
    BY <1>1 DEF Received, TopIs, Sets
  <1>3. /\ wake' = wake /\ ready' = ready /\ msgq' = msgq /\ dmsgq' = dmsgq /\ fStop' = fStop
        /\ owner' = owner /\ sendlist' = sendlist
    BY DEF ReceivedSends, queues
  <1>4. ASSUME NEW v \in Threads, v # t PROVE WakeOf(v)'
    <2>1. Spares(v)
      BY <1>2, <1>3, <1>4, QuietSpares
    <2> QED
      BY <2>1, SparesKeeps DEF WakeInv
  <1>5. CASE f.call = "Get"
    <2>1. ~IsSend(t, n) /\ ~IsSend(t, n)'
      BY <1>2, <1>5 DEF IsSend
    <2>2. AnswersSeen(t)'
      BY <1>2, <1>3, <2>1, ActorAnswers DEF WakeInv, WakeOf
    <2>3. CallsSeen(t)'
      BY <1>2, <2>1, ActorCalls
    <2>4. ASSUME Len(stack'[t]) = 1 PROVE GetSees(t, stack[t][1].at, stack[t][1].delay)'
      <3>1. n = 1
        BY <1>2, <2>4
      <3>2. stack'[t][1].at = "Pull" /\ Len(sendlist[t]) = 0
        BY <1>1, <1>2, <1>5, <3>1 DEF Received
      <3>3. PICK a, d : a = stack'[t][1].at /\ d = stack'[t][1].delay
        OBVIOUS
      <3>4. \A k \in 1 .. Len(sendlist'[t]) : FALSE
        BY <1>3, <3>2
      <3>5. GetSees(t, a, d)'
        BY <3>2, <3>3, <3>4 DEF GetSees
      <3> QED
        BY <3>3, <3>5
    <2>5. WakeOf(t)'
      BY <2>2, <2>3, <2>4 DEF WakeOf
    <2> QED
      BY <1>4, <2>5 DEF WakeInv
  <1>6. CASE f.call = "Send"
    <2>1. /\ g.at = "Wait" /\ g.to = f.to /\ g.id = f.id /\ g.waited = f.waited
          /\ \A k \in 1 .. Len(sendlist[t]) : sendlist[t][k].from # f.to
      BY <1>1, <1>6 DEF Received
    <2>2. IsSend(t, n) /\ IsSend(t, n)'
      BY <1>2, <1>6 DEF IsSend
    <2>3. AnswersSeen(t)'
      BY <1>2, <1>3, <2>1, <2>2, ActorAnswers DEF WakeInv, WakeOf
    <2>4. CallsSeen(t)'
      <3> SUFFICES ASSUME NEW i \in Nat, IsSend(t, i)', stack'[t][i].at = "Wait",
                          NEW k \in 1 .. Len(sendlist'[t]), sendlist'[t][k].from = stack'[t][i].to
                   PROVE  FALSE
        BY DEF CallsSeen
      <3>1. i # n
        BY <1>2, <1>3, <2>1
      <3>2. IsSend(t, i) /\ stack'[t][i] = stack[t][i]
        BY <1>2, <3>1 DEF OnlyCall, IsSend
      <3>3. i = n
        BY <1>2, <3>2, WaitIsTop
      <3> QED
        BY <3>1, <3>3
    <2>5. Len(stack'[t]) # 1
      <3>1. n >= 2
        BY <1>1, <1>6, AboveGet DEF Received
      <3> QED
        BY <1>2, <3>1, NotAlone
    <2>6. WakeOf(t)'
      BY <2>3, <2>4, <2>5 DEF WakeOf
    <2> QED
      BY <1>4, <2>6 DEF WakeInv
  <1> QED
    BY <1>2, <1>5, <1>6

\* OnMessageReturns.
LEMMA ReturnWake ==
    ASSUME WakeInv, HeldInv, Shape, Typed, NEW t \in Threads, OnMessageReturns(t)
    PROVE  WakeInv'
  <1>1. PICK n, f, g : Answers(t, n, f) \/ Comes(t, n, f) \/ Again(t, n, f, g)
    BY OnMessageReturnsStack
  <1>2. /\ msgq' = msgq /\ dmsgq' = dmsgq /\ fStop' = fStop /\ owner' = owner
        /\ sendlist' = sendlist
    BY DEF OnMessageReturns, queues
  <1>3. sendlist \in [Threads -> Seq(SendMessage)] /\ wake \in [Threads -> BOOLEAN]
    BY DEF Typed
  <1>4. CASE Answers(t, n, f)
    <2>1. /\ n \in Nat /\ n = Len(stack[t]) /\ f = stack[t][n] /\ TopIs(t, n, f) /\ Drops(t, n)
          /\ Shape' /\ OnlyCall(t, n) /\ IsRun(t, n) /\ ~IsSend(t, n)'
          /\ f.call = "OnMessage" /\ f.by = "Send"
          /\ ready' = ready \cup {f.id} /\ wake' = [wake EXCEPT ![f.from] = TRUE]
      BY <1>4 DEF Answers, TopIs, Drops
    <2>2. ~IsSend(t, n)
      BY <2>1 DEF IsSend
    <2>3. f.from \in Threads /\ Caller(f.from, t, f.id)
      BY <2>1, CallFacts DEF HeldInv, Run
    <2>4. wake'[f.from] /\ \A v \in Threads : wake[v] => wake'[v]
      BY <1>3, <2>1, <2>3
    <2>5. \A v \in Threads : \A i \in Nat :
            IsSend(v, i) /\ stack[v][i].id \in ready' => stack[v][i].id \in ready \/ wake'[v]
      <3> SUFFICES ASSUME NEW v \in Threads, NEW i \in Nat, IsSend(v, i), stack[v][i].id = f.id
                   PROVE  wake'[v]
        BY <2>1
      <3>1. PICK j \in Nat : IsSend(f.from, j) /\ stack[f.from][j].id = f.id
        BY <2>3 DEF Caller
      <3>2. v = f.from
        BY <2>3, <3>1 DEF HeldInv, Numbered
      <3> QED
        BY <2>4, <3>2
    <2>6. \A u \in Threads : \A w, id : Pending(u, w, id) => Pending(u, w, id)'
      BY <2>1, <2>2, PendingStays
    <2>7. ASSUME NEW v \in Threads, v # t PROVE WakeOf(v)'
      <3>1. stack'[v] = stack[v]
        BY <2>1, <2>7, OthersStay
      <3>2. EntriesKept(v)
        BY <1>2, <1>3, <2>4, <2>6, SameEntries
      <3>3. Spares(v)
        BY <1>2, <2>4, <2>5, <3>1, <3>2 DEF Spares
      <3> QED
        BY <3>3, SparesKeeps DEF WakeInv
    <2>8. AnswersSeen(t)'
      BY <2>1, <2>2, <2>4, <2>5, ActorAnswers DEF WakeInv, WakeOf
    <2>9. CallsSeen(t)'
      BY <2>1, ActorCalls
    <2>10. Len(stack'[t]) = 1 => GetSees(t, stack[t][1].at, stack[t][1].delay)'
      BY <2>1, DropSees
    <2>11. WakeOf(t)'
      BY <2>8, <2>9, <2>10 DEF WakeOf
    <2> QED
      BY <2>7, <2>11 DEF WakeInv
  <1>5. CASE Comes(t, n, f)
    <2>1. /\ n \in Nat /\ n = Len(stack[t]) /\ f = stack[t][n] /\ TopIs(t, n, f) /\ Drops(t, n)
          /\ Shape' /\ OnlyCall(t, n) /\ ~IsSend(t, n)'
          /\ f.call = "OnMessage" /\ f.by = "Direct" /\ ready' = ready /\ wake' = wake
      BY <1>5 DEF Comes, TopIs, Drops
    <2>2. ~IsSend(t, n)
      BY <2>1 DEF IsSend
    <2>3. ASSUME NEW v \in Threads, v # t PROVE WakeOf(v)'
      <3>1. Spares(v)
        BY <1>2, <2>1, <2>2, <2>3, QuietSpares
      <3> QED
        BY <3>1, SparesKeeps DEF WakeInv
    <2>4. AnswersSeen(t)'
      BY <2>1, <2>2, ActorAnswers DEF WakeInv, WakeOf
    <2>5. CallsSeen(t)'
      BY <2>1, ActorCalls
    <2>6. Len(stack'[t]) = 1 => GetSees(t, stack[t][1].at, stack[t][1].delay)'
      BY <2>1, DropSees
    <2>7. WakeOf(t)'
      BY <2>4, <2>5, <2>6 DEF WakeOf
    <2> QED
      BY <2>3, <2>7 DEF WakeInv
  <1>6. CASE Again(t, n, f, g)
    <2>1. /\ Len(stack'[t]) = 1 /\ stack'[t][1] = g /\ g.call = "Get" /\ g.at = "ReceiveSends"
          /\ Len(stack[t]) = 2 /\ stack[t][2] = f /\ f.call = "OnMessage"
          /\ \A u \in Threads \ {t} : stack'[u] = stack[u]
          /\ ready' = ready /\ wake' = wake
      BY <1>6 DEF Again, TopIs
    <2>2. stack[t][1].call = "Get"
      BY <1>6, StackFacts DEF Again, TopIs
    <2>3. \A i \in Nat : (i \in 1 .. 2 <=> i = 1 \/ i = 2) /\ (i \in 1 .. 1 <=> i = 1)
      OBVIOUS
    <2>4. \A i \in Nat : ~IsSend(t, i) /\ ~IsSend(t, i)'
      BY <2>1, <2>2, <2>3 DEF IsSend
    <2>5. \A u \in Threads : \A w, id : Pending(u, w, id) => Pending(u, w, id)'
      <3> SUFFICES ASSUME NEW u \in Threads, NEW w, NEW id, Pending(u, w, id)
                   PROVE  Pending(u, w, id)'
        OBVIOUS
      <3>1. u # t
        BY <2>4 DEF Pending
      <3> QED
        BY <2>1, <3>1 DEF Pending, IsSend
    <2>6. ASSUME NEW v \in Threads, v # t PROVE WakeOf(v)'
      <3>1. EntriesKept(v)
        BY <1>2, <1>3, <2>1, <2>5, SameEntries
      <3>2. Spares(v)
        BY <1>2, <2>1, <2>6, <3>1 DEF Spares
      <3> QED
        BY <3>2, SparesKeeps DEF WakeInv
    <2>7. WakeOf(t)'
      <3>1. AnswersSeen(t)' /\ CallsSeen(t)'
        BY <2>4 DEF AnswersSeen, CallsSeen
      <3>2. PICK a, d : a = stack'[t][1].at /\ d = stack'[t][1].delay
        OBVIOUS
      <3>3. GetSees(t, a, d)'
        BY <2>1, <3>2 DEF GetSees
      <3> QED
        BY <3>1, <3>2, <3>3 DEF WakeOf
    <2> QED
      BY <2>6, <2>7 DEF WakeInv
  <1> QED
    BY <1>1, <1>4, <1>5, <1>6

\* A step that leaves the lists, the answers and fStop_ alone and changes call n of t: the
\* other threads miss nothing.
LEMMA QuietOthers ==
    ASSUME WakeInv, Shape, Shape', Typed, NEW t \in Threads, NEW n \in Nat, OnlyCall(t, n),
           ~(IsSend(t, n) /\ stack[t][n].at = "WakeUp"),
           sendlist' = sendlist, ready' = ready, fStop' = fStop, owner' = owner,
           \A v \in Threads : v # t => (wake[v] => wake'[v]),
           \A v \in Threads : v # t => (Len(msgq'[v]) > 0 => Len(msgq[v]) > 0 \/ wake'[v]),
           \A v \in Threads : v # t => (Len(dmsgq'[v]) > 0 => Len(dmsgq[v]) > 0 \/ wake'[v]),
           WakeOf(t)'
    PROVE  WakeInv'
  <1>1. ASSUME NEW v \in Threads, v # t PROVE WakeOf(v)'
    <2>1. Spares(v)
      BY <1>1, QuietSpares
    <2> QED
      BY <2>1, SparesKeeps DEF WakeInv
  <1> QED
    BY <1>1 DEF WakeInv

\* Pull.
LEMMA PullWake ==
    ASSUME WakeInv, Shape, Typed, NEW t \in Threads, Pull(t)
    PROVE  WakeInv'
  <1>1. PICK f, k, q, rest, g :
          Pulled(t, f, k, q, rest) /\ (PullsOn(t, f, q, rest, g) \/ Dispatches(t, f, g))
    BY PullStack
  <1>2. sendlist' = sendlist /\ ready' = ready /\ wake' = wake /\ fStop' = fStop /\ owner' = owner
    BY DEF Pull
  <1>3. /\ dmsgq'[t] = rest /\ (q = <<>> => msgq'[t] = <<>>)
        /\ \A v \in Threads : v # t => msgq'[v] = msgq[v] /\ dmsgq'[v] = dmsgq[v]
    BY <1>1 DEF Pulled, Typed
  <1>4. Len(stack[t]) = 1 /\ stack[t][1] = f /\ f.call = "Get" /\ f.at \in {"Pull", "PullNext"}
    BY <1>1 DEF PullsOn, Dispatches, TopIs
  <1>5. ~IsSend(t, 1)
    BY <1>4 DEF IsSend
  <1>6. CASE Dispatches(t, f, g)
    <2>1. /\ Shape' /\ OnlyCall(t, 2) /\ 2 \in 1 .. Len(stack'[t]) /\ stack'[t][2] = g
          /\ g.call = "OnMessage" /\ ~IsSend(t, 2) /\ f = Top(t)
      BY <1>6 DEF Dispatches, Sets, TopIs
    <2>2. ~IsSend(t, 2)'
      BY <2>1 DEF IsSend
    <2>3. AnswersSeen(t)'
      BY <1>2, <2>1, <2>2, ActorAnswers DEF WakeInv, WakeOf
    <2>4. CallsSeen(t)'
      BY <1>4, <2>1, <2>2, ActorCalls
    <2>5. Len(stack'[t]) # 1
      <3>1. 2 \in Nat /\ 2 >= 2
        OBVIOUS
      <3> QED
        BY <2>1, <3>1, NotAlone
    <2>6. WakeOf(t)'
      BY <2>3, <2>4, <2>5 DEF WakeOf
    <2> QED
      BY <1>2, <1>3, <2>1, <2>6, QuietOthers
  <1>7. CASE PullsOn(t, f, q, rest, g)
    <2>1. /\ Shape' /\ OnlyCall(t, 1) /\ 1 \in 1 .. Len(stack'[t]) /\ stack'[t][1] = g
          /\ g.call = "Get" /\ g.at \in {"CheckStop", "PullNext"} /\ (g.at = "CheckStop" => q = <<>>)
      BY <1>7 DEF PullsOn, Sets
    <2>2. ~IsSend(t, 1)'
      BY <2>1 DEF IsSend
    <2>3. AnswersSeen(t)'
      BY <1>2, <1>5, <2>1, <2>2, ActorAnswers DEF WakeInv, WakeOf
    <2>4. CallsSeen(t)'
      BY <1>4, <2>1, <2>2, ActorCalls
    <2>5. PICK a, d, b, e : a = g.at /\ d = g.delay /\ b = f.at /\ e = f.delay
      OBVIOUS
    <2>6. GetSees(t, b, e)
      BY <1>4, <2>5 DEF WakeInv, WakeOf
    <2>7. \A i \in 1 .. Len(sendlist'[t]) : Seen(t, i)'
      <3>1. sendlist \in [Threads -> Seq(SendMessage)]
        BY DEF Typed
      <3>2. \A u \in Threads : \A w, id : Pending(u, w, id) => Pending(u, w, id)'
        BY <1>5, <2>1, PendingStays
      <3>3. EntriesKept(t)
        BY <1>2, <3>1, <3>2, SameEntries
      <3>4. \A i \in 1 .. Len(sendlist[t]) : Seen(t, i)
        BY <1>4, <2>5, <2>6 DEF GetSees
      <3> QED
        BY <3>3, <3>4 DEF EntriesKept
    <2>8. /\ Len(dmsgq'[t]) > 0 /\ d = kForever => wake'[t]
          /\ d = kForever \/ d > 0
      <3>1. CASE b = "Pull"
        <4>1. TimerOK(g) /\ (rest # <<>> => g.delay # kForever)
          BY <1>7, <2>5, <3>1 DEF PullsOn
        <4>2. Len(dmsgq'[t]) > 0 => rest # <<>>
          BY <1>3
        <4> QED
          BY <2>5, <4>1, <4>2 DEF TimerOK
      <3>2. CASE b = "PullNext"
        <4>1. d = e
          BY <1>7, <2>5, <3>2 DEF PullsOn
        <4>2. Len(rest) = Len(dmsgq[t])
          <5>1. k = 0 /\ Len(rest) = Len(dmsgq[t]) - k
            BY <1>1, <2>5, <3>2 DEF Pulled
          <5>2. Len(dmsgq[t]) \in Nat
            BY DEF Typed
          <5> QED
            BY <5>1, <5>2
        <4> QED
          BY <1>2, <1>3, <2>6, <3>2, <4>1, <4>2 DEF GetSees
      <3> QED
        BY <1>4, <2>5, <3>1, <3>2
    <2>9. a = "CheckStop" => ~(Len(msgq'[t]) > 0)
      BY <1>3, <2>1, <2>5
    <2>10. GetSees(t, a, d)'
      BY <2>1, <2>5, <2>7, <2>8, <2>9 DEF GetSees
    <2>11. WakeOf(t)'
      BY <2>1, <2>3, <2>4, <2>5, <2>10 DEF WakeOf
    <2> QED
      BY <1>2, <1>3, <1>5, <2>1, <2>11, QuietOthers
  <1> QED
    BY <1>1, <1>6, <1>7

\* CheckStop.
LEMMA CheckStopWake ==
    ASSUME WakeInv, Shape, Typed, NEW t \in Threads, CheckStop(t)
    PROVE  WakeInv'
  <1>1. PICK f, g : Ends(t, f) \/ Waits(t, f, g)
    BY CheckStopStack
  <1>2. /\ wake' = wake /\ ready' = ready /\ msgq' = msgq /\ dmsgq' = dmsgq /\ fStop' = fStop
        /\ owner' = owner /\ sendlist' = sendlist
    BY DEF CheckStop, queues
  <1>3. /\ Len(stack[t]) = 1 /\ stack[t][1] = f /\ f.call = "Get" /\ Shape' /\ OnlyCall(t, 1)
        /\ stack[t] \in Seq(Frame)
    BY <1>1, StackFacts DEF Ends, Waits, TopIs, Sets
  <1>4. ~IsSend(t, 1)
    BY <1>3 DEF IsSend
  <1>5. ~IsSend(t, 1)'
    <2>1. CASE Ends(t, f)
      <3>1. 1 \notin 1 .. 0 /\ Len(stack'[t]) = 0
        BY <2>1 DEF Ends
      <3> QED
        BY <3>1 DEF IsSend
    <2>2. CASE Waits(t, f, g)
      BY <2>2 DEF Waits, Sets, IsSend
    <2> QED
      BY <1>1, <2>1, <2>2
  <1>6. AnswersSeen(t)'
    BY <1>2, <1>3, <1>4, <1>5, ActorAnswers DEF WakeInv, WakeOf
  <1>7. CallsSeen(t)'
    BY <1>3, <1>5, ActorCalls
  <1>8. Len(stack'[t]) = 1 => GetSees(t, stack[t][1].at, stack[t][1].delay)'
    <2>1. CASE Ends(t, f)
      <3>1. Len(stack'[t]) = 0
        BY <2>1 DEF Ends
      <3> QED
        BY <3>1
    <2>2. CASE Waits(t, f, g)
      <3>1. PICK a, d, b, e : a = g.at /\ d = g.delay /\ b = f.at /\ e = f.delay
        OBVIOUS
      <3>2. stack'[t][1] = g /\ a = "Wait" /\ b = "CheckStop" /\ ~fStop[t]
        BY <2>2, <3>1 DEF Waits, Sets
      <3>3. GetSees(t, b, e)
        BY <1>3, <3>1 DEF WakeInv, WakeOf
      <3>4. \A i \in 1 .. Len(sendlist'[t]) : Seen(t, i)'
        <4>1. sendlist \in [Threads -> Seq(SendMessage)]
          BY DEF Typed
        <4>2. \A u \in Threads : \A w, id : Pending(u, w, id) => Pending(u, w, id)'
          BY <1>3, <1>4, PendingStays
        <4>3. EntriesKept(t)
          BY <1>2, <4>1, <4>2, SameEntries
        <4>4. \A i \in 1 .. Len(sendlist[t]) : Seen(t, i)
          BY <3>2, <3>3 DEF GetSees
        <4> QED
          BY <4>3, <4>4 DEF EntriesKept
      <3>5. d = kForever => e = kForever
        <4>1. e \in Int /\ now \in Nat
          <5>1. f \in GetFrame
            BY <1>3, FrameKinds, StackFacts, <2>2 DEF Waits, TopIs
          <5> QED
            BY <3>1, <5>1 DEF GetFrame, Typed
        <4>2. e = kForever \/ e > 0
          BY <3>2, <3>3 DEF GetSees
        <4>3. e # kForever => d = now + e
          BY <2>2, <3>1 DEF Waits
        <4> QED
          BY <4>1, <4>2, <4>3 DEF kForever
      <3>6. GetSees(t, a, d)'
        BY <1>2, <3>2, <3>3, <3>4, <3>5 DEF GetSees
      <3> QED
        BY <3>1, <3>2, <3>6
    <2> QED
      BY <1>1, <2>1, <2>2
  <1>9. WakeOf(t)'
    BY <1>6, <1>7, <1>8 DEF WakeOf
  <1> QED
    BY <1>2, <1>3, <1>4, <1>9, QuietOthers

\* GetWait.
LEMMA GetWaitWake ==
    ASSUME WakeInv, Shape, Typed, NEW t \in Threads, GetWait(t)
    PROVE  WakeInv'
  <1>1. PICK f, g : Wakes(t, f, g)
    BY GetWaitStack
  <1>2. /\ ready' = ready /\ msgq' = msgq /\ dmsgq' = dmsgq /\ fStop' = fStop
        /\ owner' = owner /\ sendlist' = sendlist
    BY DEF GetWait, queues
  <1>3. /\ Len(stack[t]) = 1 /\ stack[t][1] = f /\ f.call = "Get" /\ Shape' /\ OnlyCall(t, 1)
        /\ stack'[t][1] = g /\ g.call = "Get" /\ g.at = "ReceiveSends"
        /\ wake' = [wake EXCEPT ![t] = FALSE]
    BY <1>1 DEF Wakes, TopIs, Sets
  <1>4. ~IsSend(t, 1) /\ ~IsSend(t, 1)'
    BY <1>3 DEF IsSend
  <1>5. \A v \in Threads : v # t => (wake[v] => wake'[v])
    BY <1>3 DEF Typed
  <1>6. \A i \in Nat : ~IsSend(t, i)'
    <2> SUFFICES ASSUME NEW i \in Nat, IsSend(t, i)' PROVE FALSE
      OBVIOUS
    <2>1. i # 1
      BY <1>4
    <2>2. i \in 1 .. Len(stack[t])
      BY <1>3, <2>1 DEF OnlyCall, IsSend
    <2>3. i \in 1 .. 1
      BY <1>3, <2>2
    <2> QED
      BY <2>1, <2>3
  <1>7. AnswersSeen(t)' /\ CallsSeen(t)'
    BY <1>6 DEF AnswersSeen, CallsSeen
  <1>8. PICK a, d : a = g.at /\ d = g.delay
    OBVIOUS
  <1>9. GetSees(t, a, d)'
    BY <1>3, <1>8 DEF GetSees
  <1>10. WakeOf(t)'
    BY <1>3, <1>7, <1>8, <1>9 DEF WakeOf
  <1> QED
    BY <1>2, <1>3, <1>4, <1>5, <1>10, QuietOthers

\* Send, and Post: the call that a handler makes is not one that waits.
LEMMA HandlerCallsWake ==
    ASSUME WakeInv, Shape, Typed, NEW t \in Threads, NEW n, NEW f, NEW g, HandlerCalls(t, n, f, g),
           g.call = "Send" => g.at = "Push",
           sendlist' = sendlist, ready' = ready, wake' = wake, msgq' = msgq, dmsgq' = dmsgq,
           fStop' = fStop, owner' = owner
    PROVE  WakeInv'
  <1>1. PICK N \in Nat : N = n + 1
    BY DEF HandlerCalls
  <1>2. /\ n \in Nat /\ n >= 1 /\ f = Top(t) /\ f.call = "OnMessage" /\ Shape' /\ OnlyCall(t, N)
        /\ ~IsSend(t, N) /\ N \in 1 .. Len(stack'[t]) /\ stack'[t][N] = g
    BY <1>1 DEF HandlerCalls, TopIs, Sets
  <1>3. IsSend(t, N)' => stack'[t][N].at = "Push"
    BY <1>2 DEF IsSend
  <1>4. AnswersSeen(t)'
    BY <1>2, <1>3, ActorAnswers DEF WakeInv, WakeOf
  <1>5. CallsSeen(t)'
    BY <1>2, <1>3, ActorCalls
  <1>6. Len(stack'[t]) # 1
    <2>1. N >= 2
      BY <1>1, <1>2
    <2> QED
      BY <1>2, <2>1, NotAlone
  <1>7. WakeOf(t)'
    BY <1>4, <1>5, <1>6 DEF WakeOf
  <1> QED
    BY <1>2, <1>7, QuietOthers

\* A Send that goes on does not uncover Get.
LEMMA SendGoesWake ==
    ASSUME Shape, NEW t \in Threads, NEW n, NEW f, NEW g, SendGoes(t, n, f, g)
    PROVE  /\ n \in Nat /\ n = Len(stack[t]) /\ f = stack[t][n] /\ Shape' /\ OnlyCall(t, n)
           /\ IsSend(t, n) /\ IsSend(t, n)' /\ stack'[t][n] = g /\ g.to = f.to /\ g.id = f.id
           /\ f.to \in Threads /\ f.waited \in BOOLEAN
           /\ Len(stack'[t]) # 1
  <1>1. /\ n \in Nat /\ n = Len(stack[t]) /\ f = stack[t][n] /\ Shape' /\ OnlyCall(t, n)
        /\ IsSend(t, n) /\ IsSend(t, n)' /\ stack'[t][n] = g /\ g.to = f.to /\ g.id = f.id
        /\ n \in 1 .. Len(stack'[t]) /\ TopIs(t, n, f) /\ f.call = "Send"
        /\ f.to \in Threads /\ f.waited \in BOOLEAN
    BY DEF SendGoes, TopSend, TopIs, Sets
  <1>2. n >= 2
    BY <1>1, AboveGet
  <1>3. Len(stack'[t]) # 1
    BY <1>1, <1>2, NotAlone
  <1> QED
    BY <1>1, <1>3

\* SendPush: its sender is about to signal the callee.
LEMMA SendPushWake ==
    ASSUME WakeInv, Shape, Typed, NEW t \in Threads, SendPush(t)
    PROVE  WakeInv'
  <1>1. PICK n, f, g, m : Enlists(t, n, f, g, m)
    BY SendPushStack
  <1>2. /\ n \in Nat /\ n = Len(stack[t]) /\ f = stack[t][n] /\ Shape' /\ OnlyCall(t, n)
        /\ IsSend(t, n) /\ IsSend(t, n)' /\ stack'[t][n] = g /\ g.to = f.to /\ g.id = f.id
        /\ f.to \in Threads /\ Len(stack'[t]) # 1
    BY <1>1, SendGoesWake DEF Enlists
  <1>3. /\ f.at = "Push" /\ g.at = "WakeUp" /\ g.waited = f.waited
        /\ m \in SendMessage /\ m.id = f.id /\ m.from = t
        /\ sendlist' = [sendlist EXCEPT ![f.to] = Append(sendlist[f.to], m)]
    BY <1>1 DEF Enlists
  <1>4. /\ wake' = wake /\ ready' = ready /\ msgq' = msgq /\ dmsgq' = dmsgq /\ fStop' = fStop
        /\ owner' = owner
    BY DEF SendPush
  <1>5. AnswersSeen(t)'
    BY <1>2, <1>3, <1>4, ActorAnswers DEF WakeInv, WakeOf
  <1>6. CallsSeen(t)'
    BY <1>2, <1>3, ActorCalls
  <1>7. WakeOf(t)'
    BY <1>2, <1>5, <1>6 DEF WakeOf
  <1>8. \A u \in Threads : \A w, id : Pending(u, w, id) => Pending(u, w, id)'
    BY <1>2, <1>3, PendingStays
  <1>9. ASSUME NEW v \in Threads, v # t PROVE WakeOf(v)'
    <2>1. stack'[v] = stack[v]
      BY <1>2, <1>9, OthersStay
    <2>2. sendlist \in [Threads -> Seq(SendMessage)]
      BY DEF Typed
    <2>3. EntriesKept(v)
      <3>1. CASE v # f.to
        <4>1. sendlist'[v] = sendlist[v]
          BY <1>3, <2>2, <3>1
        <4> QED
          BY <1>4, <1>8, <2>2, <4>1, SameEntries
      <3>2. CASE v = f.to
        <4>1. PICK q, l : q = sendlist[v] /\ q \in Seq(SendMessage) /\ l \in Nat /\ l = Len(q)
          BY <2>2, ListFacts
        <4>2. sendlist'[v] = Append(q, m)
          BY <1>3, <2>2, <3>2, <4>1
        <4>3. /\ Len(sendlist'[v]) = l + 1 /\ sendlist'[v][l + 1] = m
              /\ \A k \in 1 .. l : sendlist'[v][k] = q[k]
          BY <1>3, <4>1, <4>2
        <4> SUFFICES ASSUME NEW k \in 1 .. l + 1
                     PROVE  Seen(v, k)' \/ \E j \in 1 .. Len(sendlist[v]) :
                              sendlist[v][j].from = sendlist'[v][k].from /\ ~Seen(v, j)
          BY <4>3 DEF EntriesKept
        <4>4. CASE k = l + 1
          <5>1. Pending(t, v, m.id)'
            BY <1>2, <1>3, <3>2 DEF Pending
          <5>2. sendlist'[v][k] = m
            BY <4>3, <4>4
          <5> QED
            BY <1>3, <5>1, <5>2 DEF Seen
        <4>5. CASE k \in 1 .. l
          <5>1. sendlist'[v][k] = sendlist[v][k] /\ k \in 1 .. Len(sendlist[v])
            BY <4>1, <4>3, <4>5
          <5>2. sendlist[v][k].from \in Threads
            BY <2>2, <5>1, ListFacts
          <5>3. Seen(v, k) => Seen(v, k)'
            BY <1>4, <1>8, <5>1, <5>2 DEF Seen
          <5> QED
            BY <5>1, <5>3
        <4>6. k = l + 1 \/ k \in 1 .. l
          BY <4>1
        <4> QED
          BY <4>4, <4>5, <4>6
      <3> QED
        BY <3>1, <3>2
    <2>4. Spares(v)
      BY <1>4, <2>1, <2>3 DEF Spares
    <2> QED
      BY <2>4, SparesKeeps DEF WakeInv
  <1> QED
    BY <1>7, <1>9 DEF WakeInv

\* SendWakeUp: it signals the callee.
LEMMA SendWakeUpWake ==
    ASSUME WakeInv, Shape, Typed, NEW t \in Threads, SendWakeUp(t)
    PROVE  WakeInv'
  <1>1. PICK n, f, g : Signals(t, n, f, g)
    BY SendWakeUpStack
  <1>2. /\ n \in Nat /\ n = Len(stack[t]) /\ f = stack[t][n] /\ Shape' /\ OnlyCall(t, n)
        /\ IsSend(t, n) /\ IsSend(t, n)' /\ stack'[t][n] = g /\ g.to = f.to /\ g.id = f.id
        /\ f.to \in Threads /\ Len(stack'[t]) # 1
    BY <1>1, SendGoesWake DEF Signals
  <1>3. /\ f.at = "WakeUp" /\ g.at = "Test" /\ g.waited = f.waited
        /\ wake' = [wake EXCEPT ![f.to] = TRUE]
    BY <1>1 DEF Signals
  <1>4. /\ ready' = ready /\ msgq' = msgq /\ dmsgq' = dmsgq /\ fStop' = fStop
        /\ owner' = owner /\ sendlist' = sendlist
    BY DEF SendWakeUp, queues
  <1>5. wake'[f.to] /\ \A v \in Threads : wake[v] => wake'[v]
    BY <1>2, <1>3 DEF Typed
  <1>6. AnswersSeen(t)'
    BY <1>2, <1>3, <1>4, <1>5, ActorAnswers DEF WakeInv, WakeOf
  <1>7. CallsSeen(t)'
    BY <1>2, <1>3, ActorCalls
  <1>8. WakeOf(t)'
    BY <1>2, <1>6, <1>7 DEF WakeOf
  <1>9. ASSUME NEW v \in Threads, v # t PROVE WakeOf(v)'
    <2>1. stack'[v] = stack[v]
      BY <1>2, <1>9, OthersStay
    <2>2. EntriesKept(v)
      <3>1. CASE v = f.to
        BY <1>5, <3>1 DEF EntriesKept, Seen
      <3>2. CASE v # f.to
        <4>1. ASSUME NEW u \in Threads, NEW id, Pending(u, v, id) PROVE Pending(u, v, id)'
          <5>1. PICK i \in Nat : /\ IsSend(u, i) /\ stack[u][i].to = v /\ stack[u][i].id = id
                                 /\ stack[u][i].at = "WakeUp"
            BY <4>1 DEF Pending
          <5>2. u # t \/ i # n
            BY <1>2, <3>2, <5>1
          <5>3. IsSend(u, i)' /\ stack'[u][i] = stack[u][i]
            BY <1>2, <5>1, <5>2 DEF OnlyCall, IsSend
          <5> QED
            BY <5>1, <5>3 DEF Pending
        <4>2. sendlist \in [Threads -> Seq(SendMessage)]
          BY DEF Typed
        <4> QED
          BY <1>4, <1>5, <4>1, <4>2, SameEntries
      <3> QED
        BY <3>1, <3>2
    <2>3. Spares(v)
      BY <1>4, <1>5, <2>1, <2>2 DEF Spares
    <2> QED
      BY <2>3, SparesKeeps DEF WakeInv
  <1> QED
    BY <1>8, <1>9 DEF WakeInv

\* SendTest: a Send that returns gives back the wakeups it used up.
LEMMA SendTestWake ==
    ASSUME WakeInv, Shape, Typed, NEW t \in Threads, SendTest(t)
    PROVE  WakeInv'
  <1>1. PICK n, f, g : Finishes(t, n, f) \/ Receiving(t, n, f, g)
    BY SendTestStack
  <1>2. /\ ready' = ready /\ msgq' = msgq /\ dmsgq' = dmsgq /\ fStop' = fStop
        /\ owner' = owner /\ sendlist' = sendlist
    BY DEF SendTest, queues
  <1>3. CASE Finishes(t, n, f)
    <2>1. /\ n \in Nat /\ n = Len(stack[t]) /\ f = stack[t][n] /\ Shape' /\ OnlyCall(t, n)
          /\ TopIs(t, n, f) /\ Drops(t, n) /\ f.call = "Send" /\ f.at = "Test"
          /\ ~IsSend(t, n)' /\ wake' = [wake EXCEPT ![t] = wake[t] \/ f.waited]
      BY <1>3 DEF Finishes, TopSend, TopIs, Drops
    <2>2. /\ (wake[t] => wake'[t]) /\ (f.waited => wake'[t])
          /\ \A v \in Threads : v # t => (wake[v] => wake'[v])
      BY <2>1 DEF Typed
    <2>3. AnswersSeen(t)'
      BY <1>2, <2>1, <2>2, ActorAnswers DEF WakeInv, WakeOf
    <2>4. CallsSeen(t)'
      BY <2>1, ActorCalls
    <2>5. Len(stack'[t]) = 1 => GetSees(t, stack[t][1].at, stack[t][1].delay)'
      BY <2>1, DropSees
    <2>6. WakeOf(t)'
      BY <2>3, <2>4, <2>5 DEF WakeOf
    <2> QED
      BY <1>2, <2>1, <2>2, <2>6, QuietOthers
  <1>4. CASE Receiving(t, n, f, g)
    <2>1. /\ n \in Nat /\ n = Len(stack[t]) /\ f = stack[t][n] /\ Shape' /\ OnlyCall(t, n)
          /\ IsSend(t, n) /\ IsSend(t, n)' /\ stack'[t][n] = g /\ g.to = f.to /\ g.id = f.id
          /\ f.to \in Threads /\ Len(stack'[t]) # 1
      BY <1>4, SendGoesWake DEF Receiving
    <2>2. /\ f.at = "Test" /\ g.at = "ReceiveSends" /\ g.waited = f.waited
          /\ f.id \notin ready /\ wake' = wake
      BY <1>4 DEF Receiving
    <2>3. AnswersSeen(t)'
      BY <1>2, <2>1, <2>2, ActorAnswers DEF WakeInv, WakeOf
    <2>4. CallsSeen(t)'
      BY <2>1, <2>2, ActorCalls
    <2>5. WakeOf(t)'
      BY <2>1, <2>3, <2>4 DEF WakeOf
    <2> QED
      BY <1>2, <2>1, <2>2, <2>5, QuietOthers
  <1> QED
    BY <1>1, <1>3, <1>4

\* SendWait: it uses up a wakeup, and owes it to the calls below.
LEMMA SendWaitWake ==
    ASSUME WakeInv, Shape, Typed, NEW t \in Threads, SendWait(t)
    PROVE  WakeInv'
  <1>1. PICK n, f, g : Woken(t, n, f, g)
    BY SendWaitStack
  <1>2. /\ ready' = ready /\ msgq' = msgq /\ dmsgq' = dmsgq /\ fStop' = fStop
        /\ owner' = owner /\ sendlist' = sendlist
    BY DEF SendWait, queues
  <1>3. /\ n \in Nat /\ n = Len(stack[t]) /\ f = stack[t][n] /\ Shape' /\ OnlyCall(t, n)
        /\ IsSend(t, n) /\ IsSend(t, n)' /\ stack'[t][n] = g /\ g.to = f.to /\ g.id = f.id
        /\ f.to \in Threads /\ Len(stack'[t]) # 1
    BY <1>1, SendGoesWake DEF Woken
  <1>4. f.at = "Wait" /\ g.at = "Test" /\ g.waited = TRUE /\ wake' = [wake EXCEPT ![t] = FALSE]
    BY <1>1 DEF Woken
  <1>5. \A v \in Threads : v # t => (wake[v] => wake'[v])
    BY <1>4 DEF Typed
  <1>6. AnswersSeen(t)'
    <2> SUFFICES ASSUME NEW i \in Nat, IsSend(t, i)', stack'[t][i].at \in {"ReceiveSends", "Wait"}
                 PROVE  Owed(t, i)'
      BY DEF AnswersSeen
    <2>1. i # n
      BY <1>3, <1>4
    <2>2. i \in 1 .. n
      BY <1>3, <2>1 DEF OnlyCall, IsSend
    <2>3. n > i
      BY <1>3, <2>1, <2>2
    <2>4. IsSend(t, n)' /\ stack'[t][n].waited
      BY <1>3, <1>4
    <2> QED
      BY <1>3, <2>3, <2>4 DEF Owed
  <1>7. CallsSeen(t)'
    BY <1>3, <1>4, ActorCalls
  <1>8. WakeOf(t)'
    BY <1>3, <1>6, <1>7 DEF WakeOf
  <1> QED
    BY <1>2, <1>3, <1>4, <1>5, <1>8, QuietOthers

\* PostPush: the thread that is given the message is woken.
LEMMA PostPushWake ==
    ASSUME WakeInv, Shape, Typed, NEW t \in Threads, PostPush(t)
    PROVE  WakeInv'
  <1>1. PICK n, f, m, u : Queues(t, n, f, m, u)
    BY PostPushStack
  <1>2. /\ ready' = ready /\ fStop' = fStop /\ owner' = owner /\ sendlist' = sendlist
    BY DEF PostPush, PushMessage
  <1>3. /\ n \in Nat /\ n = Len(stack[t]) /\ f = stack[t][n] /\ Shape' /\ OnlyCall(t, n)
        /\ TopIs(t, n, f) /\ Drops(t, n) /\ f.call = "Post" /\ u \in Threads
        /\ ~IsSend(t, n) /\ ~IsSend(t, n)' /\ wake' = [wake EXCEPT ![u] = TRUE]
        /\ \A v \in Threads \ {u} : msgq'[v] = msgq[v] /\ dmsgq'[v] = dmsgq[v]
    BY <1>1 DEF Queues, TopIs, Drops
  <1>4. wake'[u] /\ \A v \in Threads : wake[v] => wake'[v]
    BY <1>3 DEF Typed
  <1>5. AnswersSeen(t)'
    BY <1>2, <1>3, <1>4, ActorAnswers DEF WakeInv, WakeOf
  <1>6. CallsSeen(t)'
    BY <1>3, ActorCalls
  <1>7. Len(stack'[t]) = 1 => GetSees(t, stack[t][1].at, stack[t][1].delay)'
    BY <1>3, DropSees
  <1>8. WakeOf(t)'
    BY <1>5, <1>6, <1>7 DEF WakeOf
  <1>9. \A v \in Threads : /\ Len(msgq'[v]) > 0 => Len(msgq[v]) > 0 \/ wake'[v]
                           /\ Len(dmsgq'[v]) > 0 => Len(dmsgq[v]) > 0 \/ wake'[v]
    BY <1>3, <1>4
  <1> QED
    BY <1>2, <1>3, <1>4, <1>8, <1>9, QuietOthers

\* Clear: the senders whose messages go are woken; the rest of the list was there before.
LEMMA ClearWake ==
    ASSUME WakeInv, HeldInv, Shape, Typed, NEW x \in Threads, NEW H, Clears(x, H),
           stack' = stack, fStop' = fStop,
           \A v \in Threads : owner[v] = "quit" => owner'[v] = "quit"
    PROVE  WakeInv'
  <1> SUFFICES ASSUME NEW v \in Threads PROVE Spares(v)
    BY SparesKeeps DEF WakeInv
  <1>1. wake[v] => wake'[v]
    BY DEF Clears
  <1>2. sendlist \in [Threads -> Seq(SendMessage)]
    BY DEF Typed
  <1>3. \A u \in Threads : \A w, id : Pending(u, w, id) => Pending(u, w, id)'
    BY DEF Pending, IsSend
  <1>4. EntriesKept(v)
    <2>1. CASE v # x
      <3>1. sendlist'[v] = sendlist[v]
        BY <2>1 DEF Clears
      <3> QED
        BY <1>1, <1>2, <1>3, <3>1, SameEntries
    <2>2. CASE v = x
      <3>1. PICK f : Leaves(f, x, H)
        BY DEF Clears
      <3> SUFFICES ASSUME NEW k \in 1 .. Len(sendlist'[x])
                   PROVE  Seen(x, k)' \/ \E j \in 1 .. Len(sendlist[x]) :
                            sendlist[x][j].from = sendlist'[x][k].from /\ ~Seen(x, j)
        BY <2>2 DEF EntriesKept
      <3>2. PICK j \in 1 .. Len(sendlist[x]) : sendlist'[x][k] = sendlist[x][j]
        BY <3>1 DEF Leaves
      <3>3. sendlist[x][j].from \in Threads
        BY <1>2, ListFacts
      <3>4. Seen(x, j) => Seen(x, k)'
        BY <1>1, <1>3, <2>2, <3>2, <3>3 DEF Seen
      <3> QED
        BY <3>2, <3>4
    <2> QED
      BY <2>1, <2>2
  <1>5. ASSUME NEW i \in Nat, IsSend(v, i), stack[v][i].id \in ready'
        PROVE  stack[v][i].id \in ready \/ wake'[v]
    <2>1. SUFFICES ASSUME NEW k \in 1 .. Len(sendlist[x]), sendlist[x][k].handler \in H,
                          sendlist[x][k].id = stack[v][i].id
                   PROVE  wake'[v]
      <3>1. \A id : id \in ready' <=> \/ id \in ready
                                      \/ \E k \in 1 .. Len(sendlist[x]) :
                                           sendlist[x][k].handler \in H /\ sendlist[x][k].id = id
        BY DEF Clears
      <3> QED
        BY <1>5, <3>1
    <2>2. PICK u : u = sendlist[x][k].from
      OBVIOUS
    <2>3. u \in Threads /\ wake'[u] /\ Caller(u, x, stack[v][i].id)
      BY <1>2, <2>1, <2>2, ListFacts DEF Clears, HeldInv, Listed
    <2>4. PICK j \in Nat : IsSend(u, j) /\ stack[u][j].id = stack[v][i].id
      BY <2>3 DEF Caller
    <2>5. u = v
      BY <1>5, <2>3, <2>4 DEF HeldInv, Numbered
    <2> QED
      BY <2>3, <2>5
  <1>6. Len(msgq'[v]) > 0 => Len(msgq[v]) > 0
    <2>1. CASE v # x
      BY <2>1 DEF Clears
    <2>2. CASE v = x
      <3>1. PICK k, l : k = Len(msgq'[x]) /\ l = Len(msgq[x])
        OBVIOUS
      <3>2. k \in Nat /\ l \in Nat
        BY <3>1 DEF Clears, Typed
      <3>3. \A i \in 1 .. k : \E j \in 1 .. l : msgq'[x][i] = msgq[x][j]
        BY <3>1 DEF Clears
      <3>4. k > 0 => l > 0
        <4>1. k > 0 => 1 \in 1 .. k
          BY <3>2
        <4>2. k > 0 => \E j : j \in 1 .. l
          BY <3>3, <4>1
        <4> QED
          BY <3>2, <4>2
      <3> QED
        BY <2>2, <3>1, <3>4
    <2> QED
      BY <2>1, <2>2
  <1>7. Len(dmsgq'[v]) > 0 => Len(dmsgq[v]) > 0
    <2>1. CASE v # x
      BY <2>1 DEF Clears
    <2>2. CASE v = x
      <3>1. PICK k, l : k = Len(dmsgq'[x]) /\ l = Len(dmsgq[x])
        OBVIOUS
      <3>2. k \in Nat /\ l \in Nat
        BY <3>1 DEF Clears, Typed
      <3>3. \A i \in 1 .. k : \E j \in 1 .. l : dmsgq'[x][i] = dmsgq[x][j]
        BY <3>1 DEF Clears
      <3>4. k > 0 => l > 0
        <4>1. k > 0 => 1 \in 1 .. k
          BY <3>2
        <4>2. k > 0 => \E j : j \in 1 .. l
          BY <3>3, <4>1
        <4> QED
          BY <3>2, <4>2
      <3> QED
        BY <2>2, <3>1, <3>4
    <2> QED
      BY <2>1, <2>2
  <1> QED
    BY <1>1, <1>4, <1>5, <1>6, <1>7 DEF Spares

\* A step of the owner or of the clock: no call changes, and a thread told to stop is
\* woken or about to be.
LEMMA StillWake ==
    ASSUME WakeInv, Typed, stack' = stack, sendlist' = sendlist, ready' = ready, msgq' = msgq,
           dmsgq' = dmsgq, \A v \in Threads : wake[v] => wake'[v],
           \A v \in Threads : fStop'[v] =>
               (fStop[v] /\ owner[v] # "quit") \/ owner'[v] = "quit" \/ wake'[v]
    PROVE  WakeInv'
  <1> SUFFICES ASSUME NEW v \in Threads PROVE Spares(v)
    BY SparesKeeps DEF WakeInv
  <1>1. sendlist \in [Threads -> Seq(SendMessage)]
    BY DEF Typed
  <1>2. \A u \in Threads : \A w, id : Pending(u, w, id) => Pending(u, w, id)'
    BY DEF Pending, IsSend
  <1>3. EntriesKept(v)
    BY <1>1, <1>2, SameEntries
  <1> QED
    BY <1>3 DEF Spares

\* Every step keeps every thread from missing anything.
LEMMA WakeStep ==
    ASSUME WakeInv, CallInv, Next
    PROVE  WakeInv'
  <1> USE DEF CallInv
  <1>1. ASSUME NEW t \in Threads, Step(t) PROVE WakeInv'
    <2>1. CASE ReceiveSend(t)
      BY <2>1, ReceiveWake
    <2>2. CASE ReceivedSends(t)
      BY <2>2, ReceivedWake
    <2>3. CASE OnMessageReturns(t)
      BY <2>3, ReturnWake
    <2>4. CASE Pull(t)
      BY <2>4, PullWake
    <2>5. CASE CheckStop(t)
      BY <2>5, CheckStopWake
    <2>6. CASE GetWait(t)
      BY <2>6, GetWaitWake
    <2>7. CASE SendPush(t)
      BY <2>7, SendPushWake
    <2>8. CASE SendWakeUp(t)
      BY <2>8, SendWakeUpWake
    <2>9. CASE SendTest(t)
      BY <2>9, SendTestWake
    <2>10. CASE SendWait(t)
      BY <2>10, SendWaitWake
    <2>11. CASE PostPush(t)
      BY <2>11, PostPushWake
    <2> QED
      BY <1>1, <2>1, <2>2, <2>3, <2>4, <2>5, <2>6, <2>7, <2>8, <2>9, <2>10, <2>11 DEF Step
  <1>2. ASSUME NEW t \in Threads, NEW u \in Threads, NEW h \in Handlers, Send(t, u, h)
        PROVE  WakeInv'
    <2>1. PICK n, f, g : Begins(t, u, n, f, g)
      BY <1>2, SendStack
    <2>2. HandlerCalls(t, n, f, g) /\ (g.call = "Send" => g.at = "Push")
      BY <2>1 DEF Begins
    <2>3. /\ sendlist' = sendlist /\ ready' = ready /\ wake' = wake /\ msgq' = msgq
          /\ dmsgq' = dmsgq /\ fStop' = fStop /\ owner' = owner
      BY <1>2 DEF Send, queues
    <2> QED
      BY <2>2, <2>3, HandlerCallsWake
  <1>3. ASSUME NEW t \in Threads, NEW u \in Threads, NEW h \in Handlers \cup {MQID_DISPOSE},
               Post(t, u, h)
        PROVE  WakeInv'
    <2>1. PICK n, f, g : HandlerCalls(t, n, f, g) /\ g \in PostFrame /\ g.call = "Post"
      BY <1>3, PostStack
    <2>2. /\ sendlist' = sendlist /\ ready' = ready /\ wake' = wake /\ msgq' = msgq
          /\ dmsgq' = dmsgq /\ fStop' = fStop /\ owner' = owner
      BY <1>3 DEF Post, queues
    <2> QED
      BY <2>1, <2>2, HandlerCallsWake
  <1>4. ASSUME NEW t \in Threads, NEW u \in Threads, NEW h \in Handlers, ClearHandler(t, u, h)
        PROVE  WakeInv'
    <2>1. PICK H : H = {h}
      OBVIOUS
    <2>2. Clear(u, H) /\ stack' = stack /\ fStop' = fStop /\ owner' = owner
      BY <1>4, <2>1 DEF ClearHandler
    <2>3. Clears(u, H)
      BY <2>2, ClearFacts
    <2> QED
      BY <2>2, <2>3, ClearWake
  <1>5. ASSUME NEW t \in Threads, Quit(t) PROVE WakeInv'
    <2>1. /\ stack' = stack /\ sendlist' = sendlist /\ ready' = ready /\ msgq' = msgq
          /\ dmsgq' = dmsgq /\ wake' = wake
      BY <1>5 DEF Quit, queues
    <2>2. \A v \in Threads : fStop'[v] =>
            (fStop[v] /\ owner[v] # "quit") \/ owner'[v] = "quit" \/ wake'[v]
      BY <1>5 DEF Quit, Typed
    <2> QED
      BY <2>1, <2>2, StillWake
  <1>6. ASSUME NEW t \in Threads, QuitWakeUp(t) PROVE WakeInv'
    <2>1. /\ stack' = stack /\ sendlist' = sendlist /\ ready' = ready /\ msgq' = msgq
          /\ dmsgq' = dmsgq
      BY <1>6 DEF QuitWakeUp, queues
    <2>2. \A v \in Threads : wake[v] => wake'[v]
      BY <1>6 DEF QuitWakeUp, Typed
    <2>3. \A v \in Threads : fStop'[v] =>
            (fStop[v] /\ owner[v] # "quit") \/ owner'[v] = "quit" \/ wake'[v]
      BY <1>6 DEF QuitWakeUp, Typed
    <2> QED
      BY <2>1, <2>2, <2>3, StillWake
  <1>7. ASSUME NEW t \in Threads, JoinAndClear(t) PROVE WakeInv'
    <2>1. PICK H : H = Handlers \cup {MQID_DISPOSE, "app"}
      OBVIOUS
    <2>2. Clear(t, H) /\ stack' = stack /\ fStop' = fStop
      BY <1>7, <2>1 DEF JoinAndClear
    <2>3. \A v \in Threads : owner[v] = "quit" => owner'[v] = "quit"
      BY <1>7 DEF JoinAndClear, Typed
    <2>4. Clears(t, H)
      BY <2>2, ClearFacts
    <2> QED
      BY <2>2, <2>3, <2>4, ClearWake
  <1>8. ASSUME Tick PROVE WakeInv'
    <2>1. /\ stack' = stack /\ sendlist' = sendlist /\ ready' = ready /\ msgq' = msgq
          /\ dmsgq' = dmsgq /\ wake' = wake /\ fStop' = fStop /\ owner' = owner
      BY <1>8 DEF Tick, queues
    <2> QED
      BY <2>1, StillWake
  <1> QED
    BY <1>1, <1>2, <1>3, <1>4, <1>5, <1>6, <1>7, <1>8 DEF Next

\* At the start Get waits, and has been woken for the first message.
LEMMA WakeInit ==
    ASSUME Init
    PROVE  WakeInv
  <1> SUFFICES ASSUME NEW t \in Threads PROVE WakeOf(t)
    BY DEF WakeInv
  <1>1. PICK g : g = GetCall("Wait", StartTime % TimeMod, kForever)
    OBVIOUS
  <1>2. stack[t] = <<g>>
    BY <1>1 DEF Init
  <1>3. Len(stack[t]) = 1 /\ stack[t][1] = g
    BY <1>2
  <1>4. g.call = "Get" /\ g.at = "Wait"
    BY <1>1 DEF GetCall
  <1>5. \A i \in Nat : i \in 1 .. 1 => i = 1
    OBVIOUS
  <1>6. \A i \in Nat : ~IsSend(t, i)
    BY <1>3, <1>4, <1>5 DEF IsSend
  <1>7. AnswersSeen(t) /\ CallsSeen(t)
    BY <1>6 DEF AnswersSeen, CallsSeen
  <1>8. PICK a, d : a = g.at /\ d = g.delay
    OBVIOUS
  <1>9. /\ sendlist[t] = <<>> /\ dmsgq[t] = <<>> /\ fStop[t] = FALSE
        /\ wake[t] = (t \in left.start)
        /\ msgq[t] = IF t \in left.start THEN <<FirstMessage>> ELSE <<>>
    BY DEF Init
  <1>10. /\ Len(sendlist[t]) = 0 /\ Len(dmsgq[t]) = 0 /\ (Len(msgq[t]) > 0 => wake[t])
         /\ \A k \in 1 .. 0 : FALSE
    <2>1. Len(sendlist[t]) = 0 /\ Len(dmsgq[t]) = 0
      BY <1>9
    <2>2. CASE t \in left.start
      <3>1. wake[t] = TRUE
        BY <1>9, <2>2
      <3> QED
        BY <2>1, <3>1
    <2>3. CASE t \notin left.start
      <3>1. Len(msgq[t]) = 0
        BY <1>9, <2>3
      <3> QED
        BY <2>1, <3>1
    <2> QED
      BY <2>2, <2>3
  <1>11. GetSees(t, a, d)
    BY <1>4, <1>8, <1>9, <1>10 DEF GetSees
  <1> QED
    BY <1>3, <1>7, <1>8, <1>11 DEF WakeOf

\* No thread sleeps on work (Get, Send): one that waits with its event not set has an empty
\* queue, a timer if it has delayed messages, nothing to receive, no answer it has not seen
\* and no Quit -- or somebody is about to signal it.
THEOREM NoWakeupIsEverLost == Spec => []NoLostWakeup
  <1>1. ASSUME CallInv, WakeInv, NEW t \in Threads, NEW s \in ToSet(sendlist[t]), ~wake[t]
        PROVE  \E k \in 1 .. Len(sendlist[t]) :
                 s = sendlist[t][k] /\ (Seen(t, k) => AboutToWake(s.from, t, s.id))
    <2>1. sendlist \in [Threads -> Seq(SendMessage)] /\ Shape
      BY <1>1 DEF CallInv, Typed
    <2>2. sendlist[t] \in Seq(SendMessage)
      BY <2>1
    <2>3. PICK k \in 1 .. Len(sendlist[t]) : s = sendlist[t][k]
      BY <1>1, <2>2 DEF ToSet
    <2>4. ASSUME Seen(t, k) PROVE AboutToWake(s.from, t, s.id)
      <3>1. PICK i \in Nat : /\ IsSend(s.from, i) /\ stack[s.from][i].to = t
                             /\ stack[s.from][i].id = s.id /\ stack[s.from][i].at = "WakeUp"
        BY <1>1, <2>3, <2>4 DEF Seen, Pending
      <3>2. s.from \in Threads
        BY <2>1, <2>3, ListFacts
      <3>3. stack[s.from] \in Seq(Frame)
        BY <2>1, <3>2, StackFacts
      <3>4. stack[s.from][i] \in SendsOf(s.from)
        BY <3>1, <3>3 DEF SendsOf, Calls, IsSend
      <3> QED
        BY <3>1, <3>4 DEF AboutToWake
    <2> QED
      BY <2>3, <2>4
  <1>2. ASSUME CallInv, WakeInv PROVE NoLostWakeup
    <2> SUFFICES ASSUME NEW t \in Threads, ~wake[t]
                 PROVE  /\ InCall(t, "Get", "Wait") =>
                             /\ msgq[t] = <<>>
                             /\ dmsgq[t] # <<>> => Top(t).delay # kForever
                             /\ \A s \in ToSet(sendlist[t]) : AboutToWake(s.from, t, s.id)
                             /\ fStop[t] => owner[t] = "quit"
                        /\ InCall(t, "Send", "Wait") =>
                             /\ Top(t).id \notin ready
                             /\ \A s \in ToSet(sendlist[t]) :
                                  s.from = Top(t).to => AboutToWake(s.from, t, s.id)
      BY DEF NoLostWakeup
    <2>1. Shape /\ WakeOf(t) /\ msgq[t] \in Seq(Message) /\ dmsgq[t] \in Seq(Delayed)
      BY <1>2 DEF CallInv, WakeInv, Typed
    <2>2. ASSUME InCall(t, "Get", "Wait")
          PROVE  /\ msgq[t] = <<>>
                 /\ dmsgq[t] # <<>> => Top(t).delay # kForever
                 /\ \A s \in ToSet(sendlist[t]) : AboutToWake(s.from, t, s.id)
                 /\ fStop[t] => owner[t] = "quit"
      <3>1. Running(t) /\ Top(t).call = "Get" /\ Top(t).at = "Wait"
        BY <2>2 DEF InCall
      <3>2. PICK f : TopIs(t, 1, f) /\ f = Top(t)
        BY <2>1, <3>1, TopGet
      <3>3. PICK a, d : a = f.at /\ d = f.delay
        OBVIOUS
      <3>4. Len(stack[t]) = 1 /\ stack[t][1] = f
        BY <3>2 DEF TopIs
      <3>5. GetSees(t, a, d) /\ a = "Wait"
        BY <2>1, <3>1, <3>2, <3>3, <3>4 DEF WakeOf
      <3>6. /\ \A k \in 1 .. Len(sendlist[t]) : Seen(t, k)
            /\ ~(Len(dmsgq[t]) > 0 /\ d = kForever)
            /\ ~(Len(msgq[t]) > 0)
            /\ fStop[t] => owner[t] = "quit"
        BY <3>5 DEF GetSees
      <3>7. msgq[t] = <<>> /\ (dmsgq[t] # <<>> => Len(dmsgq[t]) > 0)
        BY <2>1, <3>6
      <3>8. \A s \in ToSet(sendlist[t]) : AboutToWake(s.from, t, s.id)
        BY <1>1, <1>2, <3>6
      <3> QED
        BY <3>2, <3>3, <3>6, <3>7, <3>8
    <2>3. ASSUME InCall(t, "Send", "Wait")
          PROVE  /\ Top(t).id \notin ready
                 /\ \A s \in ToSet(sendlist[t]) :
                      s.from = Top(t).to => AboutToWake(s.from, t, s.id)
      <3>1. PICK n, f : TopSend(t, n, f) /\ f = Top(t) /\ f.at = "Wait"
        BY <2>1, <2>3, TopSendExists
      <3>2. n \in Nat /\ n = Len(stack[t]) /\ f = stack[t][n] /\ IsSend(t, n)
        BY <3>1 DEF TopSend, TopIs
      <3>3. ~Owed(t, n)
        <4> SUFFICES ASSUME NEW j \in Nat, j > n, IsSend(t, j) PROVE FALSE
          BY DEF Owed
        <4>1. j \in 1 .. n
          BY <3>2 DEF IsSend
        <4> QED
          BY <3>2, <4>1
      <3>4. f.id \notin ready
        BY <2>1, <3>1, <3>2, <3>3 DEF WakeOf, AnswersSeen
      <3>5. \A k \in 1 .. Len(sendlist[t]) : sendlist[t][k].from = f.to => Seen(t, k)
        BY <2>1, <3>1, <3>2 DEF WakeOf, CallsSeen
      <3>6. \A s \in ToSet(sendlist[t]) : s.from = f.to => AboutToWake(s.from, t, s.id)
        BY <1>1, <1>2, <3>5
      <3> QED
        BY <3>1, <3>4, <3>6
    <2> QED
      BY <2>2, <2>3
  <1>3. ASSUME CallInv, WakeInv, [Next]_vars PROVE WakeInv'
    <2>1. CASE Next
      BY <1>3, <2>1, WakeStep
    <2>2. CASE vars' = vars
      <3>1. /\ stack' = stack /\ sendlist' = sendlist /\ ready' = ready /\ msgq' = msgq
            /\ dmsgq' = dmsgq /\ wake' = wake /\ fStop' = fStop /\ owner' = owner
        BY <2>2 DEF vars, queues
      <3> QED
        BY <1>3, <3>1, StillWake DEF CallInv
    <2> QED
      BY <1>3, <2>1, <2>2
  <1> QED
    BY <1>2, <1>3, WakeInit, CallInvariance, PTL DEF Spec

-----------------------------------------------------------------------------
(* What a thread has cleared it does not dispatch.                         *)

\* Where a message is after a step.
LEMMA HoldsNext ==
    ASSUME NEW v, NEW m, Holds(v, m)'
    PROVE  \/ \E i \in 1 .. Len(msgq'[v]) : m = msgq'[v][i]
           \/ \E i \in 1 .. Len(dmsgq'[v]) : m = dmsgq'[v][i].msg
           \/ \E i \in 1 .. Len(handled'[v]) : m = handled'[v][i]
  BY DEF Holds

\* A step that only moves messages from the queues to the dispatched ones, or drops some.
LEMMA MovesKeepPosts ==
    ASSUME PostInv, pushed' = pushed, cleared' = cleared, posts' = posts,
           \A v \in Threads : \A m : Holds(v, m)' => Holds(v, m)
    PROVE  PostInv'
  <1>1. \A v \in Threads : Given(v)' = Given(v)
    BY DEF Given, FirstMessage
  <1> QED
    BY <1>1 DEF PostInv

\* A step that leaves the messages alone.
LEMMA StillPosts ==
    ASSUME PostInv, pushed' = pushed, cleared' = cleared, posts' = posts,
           msgq' = msgq, dmsgq' = dmsgq, handled' = handled
    PROVE  PostInv'
  <1>1. \A v \in Threads : \A m : Holds(v, m)' => Holds(v, m)
    BY DEF Holds
  <1> QED
    BY <1>1, MovesKeepPosts

\* Pull.
LEMMA PullPosts ==
    ASSUME PostInv, Shape, Typed, NEW t \in Threads, Pull(t)
    PROVE  PostInv'
  <1>1. PICK f, k, q, rest, g :
          Pulled(t, f, k, q, rest) /\ (PullsOn(t, f, q, rest, g) \/ Dispatches(t, f, g))
    BY PullStack
  <1>2. pushed' = pushed /\ cleared' = cleared /\ posts' = posts
    BY DEF Pull, counters
  <1>3. /\ dmsgq'[t] = rest /\ msgq'[t] = (IF q = <<>> THEN q ELSE Tail(q))
        /\ handled'[t] = (IF q = <<>> THEN handled[t] ELSE Append(handled[t], Head(q)))
        /\ \A v \in Threads : v # t => /\ msgq'[v] = msgq[v] /\ dmsgq'[v] = dmsgq[v]
                                       /\ handled'[v] = handled[v]
        /\ q \in Seq(Message) /\ handled[t] \in Seq(Message)
    BY <1>1 DEF Pulled, Typed
  <1>4. \A i \in 1 .. Len(q) : Holds(t, q[i])
    BY <1>1 DEF Pulled, Holds
  <1>5. \A i \in 1 .. Len(msgq'[t]) : Holds(t, msgq'[t][i])
    <2>1. CASE q = <<>>
      BY <1>3, <1>4, <2>1
    <2>2. CASE q # <<>>
      <3>1. PICK l \in Nat : l = Len(q) /\ l >= 1
        BY <1>3, <2>2
      <3>2. Len(msgq'[t]) = l - 1 /\ \A i \in 1 .. l - 1 : msgq'[t][i] = q[i + 1] /\ i + 1 \in 1 .. l
        BY <1>3, <2>2, <3>1
      <3> QED
        BY <1>4, <3>1, <3>2
    <2> QED
      BY <2>1, <2>2
  <1>6. \A i \in 1 .. Len(dmsgq'[t]) : Holds(t, dmsgq'[t][i].msg)
    <2>1. PICK l \in Nat : l = Len(dmsgq[t])
      BY DEF Typed
    <2>2. k \in 0 .. l /\ Len(rest) = l - k /\ \A i \in 1 .. l - k : rest[i] = dmsgq[t][k + i]
      BY <1>1, <2>1 DEF Pulled
    <2>3. \A i \in 1 .. l - k : k + i \in 1 .. l
      BY <2>2
    <2> SUFFICES ASSUME NEW i \in 1 .. l - k PROVE Holds(t, rest[i].msg)
      BY <1>3, <2>2
    <2>4. rest[i].msg = dmsgq[t][k + i].msg /\ k + i \in 1 .. Len(dmsgq[t])
      BY <2>1, <2>2, <2>3
    <2> QED
      BY <2>4 DEF Holds
  <1>7. \A i \in 1 .. Len(handled'[t]) : Holds(t, handled'[t][i])
    <2>1. CASE q = <<>>
      BY <1>3, <2>1 DEF Holds
    <2>2. CASE q # <<>>
      <3>1. PICK l \in Nat : l = Len(handled[t])
        BY <1>3
      <3>2. /\ Len(handled'[t]) = l + 1 /\ handled'[t][l + 1] = q[1] /\ 1 \in 1 .. Len(q)
            /\ \A i \in 1 .. l : handled'[t][i] = handled[t][i]
        BY <1>3, <2>2, <3>1
      <3>3. \A i \in 1 .. l + 1 : i = l + 1 \/ i \in 1 .. l
        BY <3>1
      <3>4. \A i \in 1 .. l : Holds(t, handled[t][i])
        BY <3>1 DEF Holds
      <3> QED
        BY <1>4, <3>2, <3>3, <3>4
    <2> QED
      BY <2>1, <2>2
  <1>8. ASSUME NEW v \in Threads, NEW m, Holds(v, m)' PROVE Holds(v, m)
    <2>1. CASE v = t
      BY <1>5, <1>6, <1>7, <1>8, <2>1, HoldsNext
    <2>2. CASE v # t
      BY <1>3, <1>8, <2>2 DEF Holds
    <2> QED
      BY <2>1, <2>2
  <1> QED
    BY <1>2, <1>8, MovesKeepPosts

\* PostPush: the message is new.
LEMMA PostPushPosts ==
    ASSUME PostInv, Shape, Typed, NEW t \in Threads, PostPush(t)
    PROVE  PostInv'
  <1>1. PICK n, f, m, u : Queues(t, n, f, m, u)
    BY PostPushStack
  <1>2. handled' = handled /\ cleared' = cleared /\ posts' = posts + 1
    BY DEF PostPush, PushMessage
  <1>3. m.id = posts + 1 /\ pushed' = [pushed EXCEPT ![u] = @ \cup {m}] /\ u \in Threads
    BY <1>1 DEF Queues
  <1>4. PICK k \in Nat : k = posts
    BY DEF Typed
  <1>5. /\ pushed'[u] = pushed[u] \cup {m}
        /\ \A v \in Threads : v # u => pushed'[v] = pushed[v]
    BY <1>3 DEF Typed
  <1>6. \A v \in Threads : \A p : p \in pushed'[v] <=> p \in pushed[v] \/ (v = u /\ p = m)
    BY <1>5
  <1>7. \A v \in Threads : \A p \in pushed[v] : p.id \in 1 .. k /\ p.id # m.id
    <2>1. \A x \in 1 .. k : x # k + 1
      BY <1>4
    <2> QED
      BY <1>3, <1>4, <2>1 DEF PostInv
  <1>8. \A x : x \in 1 .. k => x \in 1 .. k + 1
    BY <1>4
  <1>9. ASSUME NEW v \in Threads, NEW p, p \in pushed'[v]
        PROVE  /\ p.id \in 1 .. posts'
               /\ \A w \in Threads : \A r \in pushed'[w] : r.id = p.id => w = v /\ r = p
    <2>1. p.id \in 1 .. posts'
      <3>1. k + 1 \in 1 .. k + 1
        BY <1>4
      <3> QED
        BY <1>2, <1>3, <1>4, <1>6, <1>7, <1>8, <1>9, <3>1
    <2>2. ASSUME NEW w \in Threads, NEW r, r \in pushed'[w], r.id = p.id
          PROVE  w = v /\ r = p
      <3>1. CASE p \in pushed[v] /\ r \in pushed[w]
        BY <2>2, <3>1 DEF PostInv
      <3>2. CASE v = u /\ p = m
        BY <1>6, <1>7, <2>2, <3>2
      <3>3. CASE w = u /\ r = m
        BY <1>6, <1>7, <1>9, <2>2, <3>3
      <3> QED
        BY <1>6, <1>9, <2>2, <3>1, <3>2, <3>3
    <2> QED
      BY <2>1, <2>2
  <1>10. ASSUME NEW v \in Threads, NEW p, Holds(v, p)' PROVE Holds(v, p) \/ (v = u /\ p = m)
    <2>1. CASE v # u
      <3>1. msgq'[v] = msgq[v] /\ dmsgq'[v] = dmsgq[v]
        BY <1>1, <2>1 DEF Queues
      <3> QED
        BY <1>2, <1>10, <3>1 DEF Holds
    <2>2. CASE v = u
      <3>1. \A i \in 1 .. Len(msgq'[u]) : msgq'[u][i] = m \/ Holds(u, msgq'[u][i])
        BY <1>1 DEF Queues, Holds
      <3>2. \A i \in 1 .. Len(dmsgq'[u]) : dmsgq'[u][i].msg = m \/ Holds(u, dmsgq'[u][i].msg)
        BY <1>1 DEF Queues, Holds
      <3>3. \A i \in 1 .. Len(handled'[u]) : Holds(u, handled'[u][i])
        BY <1>2 DEF Holds
      <3> QED
        BY <1>10, <2>2, <3>1, <3>2, <3>3, HoldsNext
    <2> QED
      BY <2>1, <2>2
  <1>11. cleared \subseteq 1 .. k /\ m.id \notin cleared
    <2>1. cleared \subseteq 1 .. k /\ k + 1 \notin 1 .. k
      BY <1>4 DEF PostInv
    <2> QED
      BY <1>3, <1>4, <2>1
  <1>12. ASSUME NEW v \in Threads, NEW p, Holds(v, p)'
         PROVE  p \in Given(v)' /\ p.id \notin cleared'
    <2>1. CASE Holds(v, p)
      <3>1. p \in Given(v) /\ p.id \notin cleared
        BY <2>1 DEF PostInv
      <3> QED
        BY <1>2, <1>6, <3>1 DEF Given, FirstMessage
    <2>2. CASE v = u /\ p = m
      BY <1>2, <1>6, <1>11, <2>2 DEF Given
    <2> QED
      BY <1>10, <1>12, <2>1, <2>2
  <1>13. cleared' \subseteq 1 .. posts'
    BY <1>2, <1>4, <1>8, <1>11
  <1> QED
    BY <1>9, <1>12, <1>13 DEF PostInv

\* Clear leaves no message of H in the queues.
LEMMA ClearHolds ==
    ASSUME NEW x \in Threads, NEW H, Clears(x, H), handled' = handled, NEW v \in Threads, NEW m,
           Holds(v, m)'
    PROVE  Holds(v, m) /\ (v = x => m.handler \notin H \/ \E i \in 1 .. Len(handled[v]) : m = handled[v][i])
  <1>1. CASE v # x
    <2>1. msgq'[v] = msgq[v] /\ dmsgq'[v] = dmsgq[v]
      BY <1>1 DEF Clears
    <2> QED
      BY <1>1, <2>1 DEF Holds
  <1>2. CASE v = x
    <2>1. \A i \in 1 .. Len(msgq'[x]) : msgq'[x][i].handler \notin H /\ Holds(x, msgq'[x][i])
      BY DEF Clears, Holds
    <2>2. \A i \in 1 .. Len(dmsgq'[x]) :
            dmsgq'[x][i].msg.handler \notin H /\ Holds(x, dmsgq'[x][i].msg)
      <3> SUFFICES ASSUME NEW i \in 1 .. Len(dmsgq'[x])
                   PROVE  dmsgq'[x][i].msg.handler \notin H /\ Holds(x, dmsgq'[x][i].msg)
        OBVIOUS
      <3>1. dmsgq'[x][i].msg.handler \notin H
        BY DEF Clears
      <3>2. PICK j \in 1 .. Len(dmsgq[x]) : dmsgq'[x][i] = dmsgq[x][j]
        BY DEF Clears
      <3>3. dmsgq'[x][i].msg = dmsgq[x][j].msg
        BY <3>2
      <3>4. Holds(x, dmsgq[x][j].msg)
        BY DEF Holds
      <3> QED
        BY <3>1, <3>3, <3>4
    <2>3. \A i \in 1 .. Len(handled[x]) : Holds(x, handled[x][i])
      BY DEF Holds
    <2> QED
      BY <1>2, <2>1, <2>2, <2>3, HoldsNext
  <1> QED
    BY <1>1, <1>2

\* A handler clears a queue.
LEMMA ClearHandlerPosts ==
    ASSUME PostInv, Typed, NEW t \in Threads, NEW u \in Threads, NEW h \in Handlers,
           ClearHandler(t, u, h)
    PROVE  PostInv'
  <1>1. PICK H : H = {h}
    OBVIOUS
  <1>2. Clear(u, H) /\ pushed' = pushed /\ handled' = handled /\ posts' = posts
    BY <1>1 DEF ClearHandler
  <1>3. Clears(u, H)
    BY <1>2, ClearFacts
  <1>4. CASE u # t
    <2>1. cleared' = cleared
      BY <1>4 DEF ClearHandler
    <2>2. \A v \in Threads : \A m : Holds(v, m)' => Holds(v, m)
      BY <1>2, <1>3, ClearHolds
    <2> QED
      BY <1>2, <2>1, <2>2, MovesKeepPosts
  <1>5. CASE u = t
    <2>1. cleared' = cleared \cup {m.id : m \in {p \in pushed[t] \ ToSet(handled[t]) : p.handler = h}}
      BY <1>5 DEF ClearHandler
    <2>2. \A x \in cleared' : x \in cleared \/
            \E p \in pushed[t] : p \notin ToSet(handled[t]) /\ p.handler = h /\ x = p.id
      BY <2>1
    <2>3. handled[t] \in Seq(Message)
      BY DEF Typed
    <2>4. cleared' \subseteq 1 .. posts
      <3>1. cleared \subseteq 1 .. posts /\ \A p \in pushed[t] : p.id \in 1 .. posts
        BY DEF PostInv
      <3>2. \A x \in cleared' : x \in 1 .. posts
        BY <2>2, <3>1
      <3> QED
        BY <3>2
    <2>5. ASSUME NEW v \in Threads, NEW m, Holds(v, m)', m.id \in cleared' PROVE FALSE
      <3>1. Holds(v, m) /\ (v = u => m.handler \notin H \/ \E i \in 1 .. Len(handled[v]) : m = handled[v][i])
        BY <1>2, <1>3, <2>5, ClearHolds
      <3>2. m \in Given(v) /\ m.id \notin cleared
        BY <3>1 DEF PostInv
      <3>3. PICK p \in pushed[t] : p \notin ToSet(handled[t]) /\ p.handler = h /\ m.id = p.id
        BY <2>2, <2>5, <3>2
      <3>4. m \in pushed[v]
        <4>1. p.id \in 1 .. posts
          BY <3>3 DEF PostInv
        <4>2. p.id # 0
          BY <4>1 DEF Typed
        <4> QED
          BY <3>2, <3>3, <4>2 DEF Given, FirstMessage
      <3>5. v = t /\ m = p
        BY <3>3, <3>4 DEF PostInv
      <3>6. PICK i \in 1 .. Len(handled[t]) : p = handled[t][i]
        BY <1>1, <1>5, <3>1, <3>3, <3>5
      <3> QED
        BY <2>3, <3>3, <3>6 DEF ToSet
    <2>6. \A v \in Threads : \A m : Holds(v, m)' => m \in Given(v)'
      <3>1. \A v \in Threads : Given(v)' = Given(v)
        BY <1>2 DEF Given, FirstMessage
      <3>2. \A v \in Threads : \A m : Holds(v, m)' => Holds(v, m)
        BY <1>2, <1>3, ClearHolds
      <3> QED
        BY <3>1, <3>2 DEF PostInv
    <2> QED
      BY <1>2, <2>4, <2>5, <2>6 DEF PostInv
  <1> QED
    BY <1>4, <1>5

\* Every step keeps the messages apart, and the cleared ones away.
LEMMA PostStep ==
    ASSUME PostInv, CallInv, Next
    PROVE  PostInv'
  <1> USE DEF CallInv
  <1>1. ASSUME NEW t \in Threads, Step(t) PROVE PostInv'
    <2>1. CASE Pull(t)
      BY <2>1, PullPosts
    <2>2. CASE PostPush(t)
      BY <2>2, PostPushPosts
    <2>3. CASE ~Pull(t) /\ ~PostPush(t)
      <3>1. /\ pushed' = pushed /\ cleared' = cleared /\ posts' = posts
            /\ msgq' = msgq /\ dmsgq' = dmsgq /\ handled' = handled
        BY <1>1, <2>3 DEF Step, ReceiveSend, ReceivedSends, OnMessageReturns, CheckStop, GetWait,
              SendPush, SendWakeUp, SendTest, SendWait, queues, counters, history
      <3> QED
        BY <3>1, StillPosts
    <2> QED
      BY <2>1, <2>2, <2>3
  <1>2. ASSUME NEW t \in Threads, NEW u \in Threads, NEW h \in Handlers, ClearHandler(t, u, h)
        PROVE  PostInv'
    BY <1>2, ClearHandlerPosts
  <1>3. ASSUME NEW t \in Threads, JoinAndClear(t) PROVE PostInv'
    <2>1. PICK H : H = Handlers \cup {MQID_DISPOSE, "app"}
      OBVIOUS
    <2>2. /\ Clear(t, H) /\ pushed' = pushed /\ handled' = handled /\ posts' = posts
          /\ cleared' = cleared
      BY <1>3, <2>1 DEF JoinAndClear, counters, history
    <2>3. Clears(t, H)
      BY <2>2, ClearFacts
    <2>4. \A v \in Threads : \A m : Holds(v, m)' => Holds(v, m)
      BY <2>2, <2>3, ClearHolds
    <2> QED
      BY <2>2, <2>4, MovesKeepPosts
  <1>4. ASSUME \/ \E t, u \in Threads, h \in Handlers : Send(t, u, h)
               \/ \E t, u \in Threads, h \in Handlers \cup {MQID_DISPOSE} : Post(t, u, h)
               \/ \E t \in Threads : Quit(t)
               \/ \E t \in Threads : QuitWakeUp(t)
               \/ Tick
        PROVE  PostInv'
    <2>1. /\ pushed' = pushed /\ cleared' = cleared /\ posts' = posts
          /\ msgq' = msgq /\ dmsgq' = dmsgq /\ handled' = handled
      BY <1>4 DEF Send, Post, Quit, QuitWakeUp, Tick, queues, counters, history
    <2> QED
      BY <2>1, StillPosts
  <1> QED
    BY <1>1, <1>2, <1>3, <1>4 DEF Next

\* Messages are told apart by their numbers, and no cleared one is held (PostPush, Clear).
THEOREM PostInvariance == Spec => []PostInv
  <1>1. ASSUME Init PROVE PostInv
    <2>1. ASSUME NEW t \in Threads, NEW m, Holds(t, m) PROVE m = FirstMessage
      <3>1. /\ dmsgq[t] = <<>> /\ handled[t] = <<>>
            /\ msgq[t] = IF t \in left.start THEN <<FirstMessage>> ELSE <<>>
        BY <1>1 DEF Init
      <3>2. Len(dmsgq[t]) = 0 /\ Len(handled[t]) = 0 /\ \A i \in 1 .. 0 : FALSE
        BY <3>1
      <3>3. PICK i \in 1 .. Len(msgq[t]) : m = msgq[t][i]
        BY <2>1, <3>2 DEF Holds
      <3>4. CASE t \in left.start
        <4>1. PICK x : x = FirstMessage
          OBVIOUS
        <4>2. msgq[t] = <<x>>
          BY <3>1, <3>4, <4>1
        <4> QED
          BY <3>3, <4>1, <4>2
      <3>5. CASE t \notin left.start
        <4>1. Len(msgq[t]) = 0
          BY <3>1, <3>5
        <4> QED
          BY <3>2, <3>3, <4>1
      <3> QED
        BY <3>4, <3>5
    <2>2. cleared = {} /\ \A t \in Threads : pushed[t] = {}
      BY <1>1 DEF Init
    <2> QED
      BY <2>1, <2>2 DEF PostInv, Given
  <1>2. ASSUME CallInv, PostInv, [Next]_vars PROVE PostInv'
    <2>1. CASE Next
      BY <1>2, <2>1, PostStep
    <2>2. CASE vars' = vars
      <3>1. /\ pushed' = pushed /\ cleared' = cleared /\ posts' = posts
            /\ msgq' = msgq /\ dmsgq' = dmsgq /\ handled' = handled
        BY <2>2 DEF vars, queues, counters, history
      <3> QED
        BY <1>2, <3>1, StillPosts
    <2> QED
      BY <1>2, <2>1, <2>2
  <1> QED
    BY <1>1, <1>2, CallInvariance, PTL DEF Spec

\* What a thread has removed from its own queue it does not dispatch any more (Clear), in
\* whatever queue the message was and whenever it was to come.
THEOREM ClearedIsAlwaysGone == Spec => []ClearedIsGone
  <1>1. ASSUME CallInv, PostInv PROVE ClearedIsGone
    <2> SUFFICES ASSUME NEW t \in Threads, NEW i \in DOMAIN handled[t]
                 PROVE  handled[t][i].id \notin cleared
      BY DEF ClearedIsGone
    <2>1. handled[t] \in Seq(Message)
      BY <1>1 DEF CallInv, Typed
    <2>2. i \in 1 .. Len(handled[t])
      BY <2>1
    <2>3. Holds(t, handled[t][i])
      BY <2>2 DEF Holds
    <2> QED
      BY <1>1, <2>3 DEF PostInv
  <1> QED
    BY <1>1, CallInvariance, PostInvariance, PTL

-----------------------------------------------------------------------------
(* Messages are dispatched in their order.                                 *)

\* Of the messages P, m is to be dispatched before n.
Before(P, m, n) ==
    m \in P /\ n \in P /\ m.id < n.id /\ (m.delayed => DueFirst(m, n)) /\ (m.delayed <=> n.delayed)

\* The messages in the order in which they are dispatched, when a are those that were, b is
\* the queue and c the delayed ones.
LineAt(a, b, c, k) ==
    IF k <= Len(a) THEN a[k]
    ELSE IF k <= Len(a) + Len(b) THEN b[k - Len(a)] ELSE c[k - (Len(a) + Len(b))].msg

LineLen(a, b, c) == (Len(a) + Len(b)) + Len(c)

Orderly(P, a, b, c) ==
    \A i, j \in 1 .. LineLen(a, b, c) :
        i < j => ~Before(P, LineAt(a, b, c, j), LineAt(a, b, c, i))

\* dmsgq_ is in the order of its heap, by what its messages say.
Sorted(c) ==
    /\ \A i, j \in 1 .. Len(c) : i < j => PoppedBefore(c[i], c[j])
    /\ \A i \in 1 .. Len(c) : /\ c[i].msTrigger = c[i].msg.due % TimeMod /\ c[i].num = c[i].msg.id
                              /\ c[i].msg.delayed

OrderAt(t) ==
    /\ Sorted(dmsgq[t])
    /\ Orderly(pushed[t], handled[t], msgq[t], dmsgq[t])
OrderInv == \A t \in Threads : OrderAt(t)

\* The line by its parts, of lengths x, y and z.
Parts(a, b, c, x, y, z) ==
    /\ LineLen(a, b, c) = (x + y) + z
    /\ \A k \in 1 .. x : LineAt(a, b, c, k) = a[k]
    /\ \A k \in 1 .. y : LineAt(a, b, c, x + k) = b[k]
    /\ \A k \in 1 .. z : LineAt(a, b, c, (x + y) + k) = c[k].msg

LEMMA LineParts ==
    ASSUME NEW a \in Seq(Message), NEW b \in Seq(Message), NEW c \in Seq(Delayed)
    PROVE  Parts(a, b, c, Len(a), Len(b), Len(c))
  <1>0. PICK x, y, z \in Nat : x = Len(a) /\ y = Len(b) /\ z = Len(c)
    OBVIOUS
  <1>1. \A k \in 1 .. y : ~(x + k <= x) /\ x + k <= x + y /\ (x + k) - x = k
    OBVIOUS
  <1>2. \A k \in 1 .. z : ~((x + y) + k <= x) /\ ~((x + y) + k <= x + y)
                          /\ ((x + y) + k) - (x + y) = k
    OBVIOUS
  <1> QED
    BY <1>0, <1>1, <1>2 DEF LineAt, LineLen, Parts

\* A place in the line is in one of its parts.
LEMMA LinePlace ==
    ASSUME NEW x \in Nat, NEW y \in Nat, NEW z \in Nat, NEW k \in 1 .. (x + y) + z
    PROVE  \/ k \in 1 .. x
           \/ \E i \in 1 .. y : k = x + i
           \/ \E i \in 1 .. z : k = (x + y) + i
  <1>1. CASE k <= x
    BY <1>1
  <1>2. CASE k > x /\ k <= x + y
    <2>1. k - x \in 1 .. y /\ k = x + (k - x)
      BY <1>2
    <2> QED
      BY <2>1
  <1>3. CASE k > x + y
    <2>1. k - (x + y) \in 1 .. z /\ k = (x + y) + (k - (x + y))
      BY <1>3
    <2> QED
      BY <2>1
  <1> QED
    BY <1>1, <1>2, <1>3

\* Place k of the line of d, e and f was g[k] in that of a, b and c.
Stems(g, a, b, c, d, e, f) ==
    /\ LineLen(a, b, c) \in Nat /\ LineLen(d, e, f) \in Nat
    /\ \A k \in 1 .. LineLen(d, e, f) :
         g[k] \in 1 .. LineLen(a, b, c) /\ LineAt(d, e, f, k) = LineAt(a, b, c, g[k])
    /\ \A i, j \in 1 .. LineLen(d, e, f) : i < j => g[i] < g[j]

\* A line whose messages come, in their order, from an orderly line is orderly.
LEMMA OrderKept ==
    ASSUME NEW P, NEW a, NEW b, NEW c, NEW d, NEW e, NEW f, Orderly(P, a, b, c),
           NEW g, Stems(g, a, b, c, d, e, f)
    PROVE  Orderly(P, d, e, f)
  <1> SUFFICES ASSUME NEW i \in 1 .. LineLen(d, e, f), NEW j \in 1 .. LineLen(d, e, f), i < j
               PROVE  ~Before(P, LineAt(d, e, f, j), LineAt(d, e, f, i))
    BY DEF Orderly
  <1>1. /\ g[i] \in 1 .. LineLen(a, b, c) /\ g[j] \in 1 .. LineLen(a, b, c) /\ g[i] < g[j]
        /\ LineAt(d, e, f, i) = LineAt(a, b, c, g[i]) /\ LineAt(d, e, f, j) = LineAt(a, b, c, g[j])
    BY DEF Stems
  <1>2. ~Before(P, LineAt(a, b, c, g[j]), LineAt(a, b, c, g[i]))
    BY <1>1 DEF Orderly
  <1> QED
    BY <1>1, <1>2

\* Message q[1], if any, has joined the dispatched ones a, which are then d; e is left.
Taken(a, q, d, e) ==
    /\ d = IF q = <<>> THEN a ELSE Append(a, Head(q))
    /\ e = IF q = <<>> THEN q ELSE Tail(q)

\* Get moves messages along the line: it stays as it is.
LEMMA PullLine ==
    ASSUME NEW P, NEW a \in Seq(Message), NEW b \in Seq(Message), NEW c \in Seq(Delayed),
           Orderly(P, a, b, c), NEW k \in Nat, k <= Len(c), NEW q \in Seq(Message), NEW f \in Seq(Delayed),
           Moved(b, c, k, q, f), NEW d, NEW e, Taken(a, q, d, e)
    PROVE  Orderly(P, d, e, f)
  <1>a. PICK x, y, z \in Nat : x = Len(a) /\ y = Len(b) /\ z = Len(c)
    OBVIOUS
  <1>b. k <= z
    BY <1>a
  <1>0. PICK N \in Nat : N = (x + y) + z
    OBVIOUS
  <1> DEFINE g == [i \in 1 .. N |-> i]
  <1>1. LineLen(a, b, c) = N
    BY <1>0, <1>a DEF LineLen
  <1>2. /\ \A i \in 1 .. x : LineAt(a, b, c, i) = a[i]
        /\ \A i \in 1 .. y : LineAt(a, b, c, x + i) = b[i]
        /\ \A i \in 1 .. z : LineAt(a, b, c, (x + y) + i) = c[i].msg
    <2>1. Parts(a, b, c, x, y, z)
      BY <1>a, LineParts
    <2> QED
      BY <2>1 DEF Parts
  <1>3. \A i \in 1 .. y + k : q[i] = LineAt(a, b, c, x + i)
    <2> SUFFICES ASSUME NEW i \in 1 .. y + k PROVE q[i] = LineAt(a, b, c, x + i)
      OBVIOUS
    <2>1. CASE i <= y
      BY <1>a, <1>b, <1>2, <2>1 DEF Moved
    <2>2. CASE i > y
      <3>1. PICK j \in 1 .. k : i = y + j
        <4>1. i - y \in 1 .. k /\ i = y + (i - y)
          BY <2>2
        <4> QED
          BY <4>1
      <3>2. j \in 1 .. z /\ x + i = (x + y) + j
        BY <1>b, <3>1
      <3> QED
        BY <1>a, <1>b, <1>2, <3>1, <3>2 DEF Moved
    <2> QED
      BY <2>1, <2>2
  <1>4. \A i \in 1 .. z - k : f[i].msg = LineAt(a, b, c, ((x + y) + k) + i)
    <2> SUFFICES ASSUME NEW i \in 1 .. z - k
                 PROVE  f[i].msg = LineAt(a, b, c, ((x + y) + k) + i)
      OBVIOUS
    <2>1. k + i \in 1 .. z /\ (x + y) + (k + i) = ((x + y) + k) + i
      BY <1>b
    <2> QED
      BY <1>a, <1>b, <1>2, <2>1 DEF Moved
  <1>5. LineLen(d, e, f) = N /\ \A i \in 1 .. N : LineAt(d, e, f, i) = LineAt(a, b, c, i)
    <2>1. CASE q = <<>>
      <3>1. y = 0 /\ k = 0 /\ d = a /\ e = q /\ Len(e) = 0
        BY <1>a, <1>b, <2>1 DEF Moved, Taken
      <3>2. d \in Seq(Message) /\ e \in Seq(Message)
        BY <3>1
      <3>3. /\ LineLen(d, e, f) = (x + 0) + z
            /\ \A i \in 1 .. x : LineAt(d, e, f, i) = a[i]
            /\ \A i \in 1 .. z : LineAt(d, e, f, (x + 0) + i) = f[i].msg
        <4>1. Len(d) = x /\ Len(f) = z
          BY <1>a, <1>b, <3>1 DEF Moved
        <4>2. Parts(d, e, f, x, 0, z)
          BY <3>1, <3>2, <4>1, LineParts
        <4> QED
          BY <3>1, <4>2 DEF Parts
      <3>4. ASSUME NEW i \in 1 .. N PROVE LineAt(d, e, f, i) = LineAt(a, b, c, i)
        <4>1. \/ i \in 1 .. x
              \/ \E j \in 1 .. y : i = x + j
              \/ \E j \in 1 .. z : i = (x + y) + j
          <5>1. i \in 1 .. (x + y) + z
            BY <1>0
          <5> QED
            BY <5>1, LinePlace
        <4>2. CASE i \in 1 .. x
          BY <1>2, <3>3, <4>2
        <4>3. ASSUME NEW j \in 1 .. z, i = (x + y) + j PROVE LineAt(d, e, f, i) = LineAt(a, b, c, i)
          <5>1. i = (x + 0) + j /\ i = ((x + y) + k) + j /\ j \in 1 .. z - k
            BY <3>1, <4>3
          <5> QED
            BY <1>4, <3>3, <5>1
        <4> QED
          BY <3>1, <4>1, <4>2, <4>3
      <3> QED
        BY <1>0, <3>1, <3>3, <3>4
    <2>2. CASE q # <<>>
      <3>1. PICK w \in Nat : w + 1 = y + k
        <4>1. Len(q) # 0
          BY <2>2
        <4>0. Len(q) = y + k
          BY <1>a, <1>b, <1>a DEF Moved
        <4>2. (y + k) - 1 \in Nat /\ ((y + k) - 1) + 1 = y + k
          BY <4>0, <4>1
        <4> QED
          BY <4>2
      <3>2. /\ d \in Seq(Message) /\ Len(d) = x + 1 /\ d[x + 1] = q[1]
            /\ \A i \in 1 .. x : d[i] = a[i]
        <4>1. PICK m : m = Head(q)
          OBVIOUS
        <4>2. m = q[1] /\ m \in Message
          BY <2>2, <4>1
        <4>3. d = Append(a, m)
          BY <2>2, <4>1 DEF Taken
        <4> QED
          BY <1>a, <4>2, <4>3, AppendFacts
      <3>3. e \in Seq(Message) /\ Len(e) = w /\ \A i \in 1 .. w : e[i] = q[i + 1]
        BY <1>a, <1>b, <2>2, <3>1 DEF Taken, Moved
      <3>4. PICK r \in Nat : r = z - k
        <4>1. z - k \in Nat
          BY <1>b
        <4> QED
          BY <4>1
      <3>5. PICK u \in Nat : u = x + 1
        OBVIOUS
      <3>6. /\ LineLen(d, e, f) = (u + w) + r
            /\ \A i \in 1 .. u : LineAt(d, e, f, i) = d[i]
            /\ \A i \in 1 .. w : LineAt(d, e, f, u + i) = e[i]
            /\ \A i \in 1 .. r : LineAt(d, e, f, (u + w) + i) = f[i].msg
        <4>1. Len(d) = u /\ Len(e) = w /\ Len(f) = r
          BY <1>a, <1>b, <3>2, <3>3, <3>4, <3>5 DEF Moved
        <4>2. Parts(d, e, f, u, w, r)
          BY <3>2, <3>3, <4>1, LineParts
        <4> QED
          BY <4>2 DEF Parts
      <3>7. (u + w) + r = N
        BY <1>0, <3>1, <3>4, <3>5
      <3>8. ASSUME NEW i \in 1 .. N PROVE LineAt(d, e, f, i) = LineAt(a, b, c, i)
        <4>1. \/ i \in 1 .. u
              \/ \E j \in 1 .. w : i = u + j
              \/ \E j \in 1 .. r : i = (u + w) + j
          <5>1. i \in 1 .. (u + w) + r
            BY <3>7
          <5> QED
            BY <5>1, LinePlace
        <4>2. CASE i \in 1 .. x
          BY <1>2, <3>2, <3>5, <3>6, <4>2
        <4>3. CASE i = u
          <5>1. 1 \in 1 .. y + k /\ i = x + 1 /\ u \in 1 .. u
            BY <3>1, <3>5, <4>3
          <5> QED
            BY <1>3, <3>2, <3>6, <4>3, <5>1
        <4>4. ASSUME NEW j \in 1 .. w, i = u + j PROVE LineAt(d, e, f, i) = LineAt(a, b, c, i)
          <5>1. j + 1 \in 1 .. y + k /\ i = x + (j + 1)
            BY <3>1, <3>5, <4>4
          <5>2. LineAt(d, e, f, i) = q[j + 1]
            BY <3>3, <3>6, <4>4
          <5> QED
            BY <1>3, <5>1, <5>2
        <4>5. ASSUME NEW j \in 1 .. r, i = (u + w) + j
              PROVE  LineAt(d, e, f, i) = LineAt(a, b, c, i)
          <5>1. j \in 1 .. z - k /\ i = ((x + y) + k) + j
            BY <3>1, <3>4, <3>5, <4>5
          <5> QED
            BY <1>4, <3>6, <4>5, <5>1
        <4>6. i \in 1 .. u => i \in 1 .. x \/ i = u
          BY <3>5
        <4> QED
          BY <4>1, <4>2, <4>3, <4>4, <4>5, <4>6
      <3> QED
        BY <3>6, <3>7, <3>8
    <2> QED
      BY <2>1, <2>2
  <1>6. \A i \in 1 .. N : g[i] = i
    OBVIOUS
  <1> HIDE DEF g
  <1>7. Stems(g, a, b, c, d, e, f)
    BY <1>0, <1>1, <1>5, <1>6 DEF Stems
  <1> QED
    BY <1>7, OrderKept

\* Clear takes messages out of the queues: the others keep their order.
LEMMA ClearLine ==
    ASSUME NEW P, NEW a \in Seq(Message), NEW b \in Seq(Message), NEW c \in Seq(Delayed),
           Orderly(P, a, b, c), NEW e \in Seq(Message), NEW h \in Seq(Delayed),
           NEW f, Picks(f, b, e), NEW g, Picks(g, c, h)
    PROVE  Orderly(P, a, e, h)
  <1>1. PICK x, y, z \in Nat : x = Len(a) /\ y = Len(b) /\ z = Len(c)
    OBVIOUS
  <1>2. PICK u, w \in Nat : u = Len(e) /\ w = Len(h)
    OBVIOUS
  <1>3. /\ \A i \in 1 .. u : f[i] \in 1 .. y /\ e[i] = b[f[i]]
        /\ \A i, j \in 1 .. u : i < j => f[i] < f[j]
    BY <1>1, <1>2 DEF Picks
  <1>4. /\ \A i \in 1 .. w : g[i] \in 1 .. z /\ h[i] = c[g[i]]
        /\ \A i, j \in 1 .. w : i < j => g[i] < g[j]
    BY <1>1, <1>2 DEF Picks
  <1>5. Parts(a, b, c, x, y, z) /\ Parts(a, e, h, x, u, w)
    BY <1>1, <1>2, LineParts
  <1> DEFINE G == [k \in 1 .. (x + u) + w |->
                     IF k <= x THEN k
                     ELSE IF k <= x + u THEN x + f[k - x] ELSE (x + y) + g[k - (x + u)]]
  <1>6. /\ \A k \in 1 .. x : G[k] = k
        /\ \A k \in 1 .. u : G[x + k] = x + f[k]
        /\ \A k \in 1 .. w : G[(x + u) + k] = (x + y) + g[k]
    <2>1. \A k \in 1 .. x : k \in 1 .. (x + u) + w /\ k <= x
      OBVIOUS
    <2>2. \A k \in 1 .. u : x + k \in 1 .. (x + u) + w /\ ~(x + k <= x) /\ x + k <= x + u
                            /\ (x + k) - x = k
      OBVIOUS
    <2>3. \A k \in 1 .. w : /\ (x + u) + k \in 1 .. (x + u) + w /\ ~((x + u) + k <= x)
                            /\ ~((x + u) + k <= x + u) /\ ((x + u) + k) - (x + u) = k
      OBVIOUS
    <2> QED
      BY <2>1, <2>2, <2>3
  <1> HIDE DEF G
  <1>7. /\ LineLen(a, b, c) = (x + y) + z /\ LineLen(a, e, h) = (x + u) + w
        /\ \A k \in 1 .. x : LineAt(a, b, c, k) = a[k] /\ LineAt(a, e, h, k) = a[k]
        /\ \A k \in 1 .. y : LineAt(a, b, c, x + k) = b[k]
        /\ \A k \in 1 .. z : LineAt(a, b, c, (x + y) + k) = c[k].msg
        /\ \A k \in 1 .. u : LineAt(a, e, h, x + k) = e[k]
        /\ \A k \in 1 .. w : LineAt(a, e, h, (x + u) + k) = h[k].msg
    BY <1>5 DEF Parts
  <1>8. ASSUME NEW k \in 1 .. (x + u) + w
        PROVE  G[k] \in 1 .. (x + y) + z /\ LineAt(a, e, h, k) = LineAt(a, b, c, G[k])
    <2>1. \/ k \in 1 .. x
          \/ \E i \in 1 .. u : k = x + i
          \/ \E i \in 1 .. w : k = (x + u) + i
      BY LinePlace
    <2>2. CASE k \in 1 .. x
      BY <1>6, <1>7, <2>2
    <2>3. ASSUME NEW i \in 1 .. u, k = x + i
          PROVE  G[k] \in 1 .. (x + y) + z /\ LineAt(a, e, h, k) = LineAt(a, b, c, G[k])
      <3>1. G[k] = x + f[i] /\ f[i] \in 1 .. y /\ LineAt(a, e, h, k) = b[f[i]]
        BY <1>3, <1>6, <1>7, <2>3
      <3>2. x + f[i] \in 1 .. (x + y) + z
        BY <3>1
      <3> QED
        BY <1>7, <3>1, <3>2
    <2>4. ASSUME NEW i \in 1 .. w, k = (x + u) + i
          PROVE  G[k] \in 1 .. (x + y) + z /\ LineAt(a, e, h, k) = LineAt(a, b, c, G[k])
      <3>1. G[k] = (x + y) + g[i] /\ g[i] \in 1 .. z /\ LineAt(a, e, h, k) = c[g[i]].msg
        BY <1>4, <1>6, <1>7, <2>4
      <3>2. (x + y) + g[i] \in 1 .. (x + y) + z
        BY <3>1
      <3> QED
        BY <1>7, <3>1, <3>2
    <2> QED
      BY <2>1, <2>2, <2>3, <2>4
  <1>9. ASSUME NEW k \in 1 .. (x + u) + w, NEW l \in 1 .. (x + u) + w, k < l PROVE G[k] < G[l]
    <2>1. \/ k \in 1 .. x
          \/ \E i \in 1 .. u : k = x + i
          \/ \E i \in 1 .. w : k = (x + u) + i
      BY LinePlace
    <2>2. \/ l \in 1 .. x
          \/ \E i \in 1 .. u : l = x + i
          \/ \E i \in 1 .. w : l = (x + u) + i
      BY LinePlace
    <2>3. \A i \in 1 .. u : x + f[i] \in Nat /\ x < x + f[i] /\ x + f[i] <= x + y
      <3> SUFFICES ASSUME NEW i \in 1 .. u PROVE x + f[i] \in Nat /\ x < x + f[i] /\ x + f[i] <= x + y
        OBVIOUS
      <3>1. f[i] \in 1 .. y
        BY <1>3
      <3> QED
        BY <3>1
    <2>4. \A i \in 1 .. w : (x + y) + g[i] \in Nat /\ x + y < (x + y) + g[i]
      <3> SUFFICES ASSUME NEW i \in 1 .. w PROVE (x + y) + g[i] \in Nat /\ x + y < (x + y) + g[i]
        OBVIOUS
      <3>1. g[i] \in 1 .. z
        BY <1>4
      <3> QED
        BY <3>1
    <2>5. CASE k \in 1 .. x
      <3>1. CASE l \in 1 .. x
        BY <1>6, <1>9, <2>5, <3>1
      <3>2. ASSUME NEW i \in 1 .. u, l = x + i PROVE G[k] < G[l]
        <4>1. G[k] = k /\ k <= x /\ G[l] = x + f[i] /\ x + f[i] \in Nat /\ x < x + f[i]
          BY <1>6, <2>3, <2>5, <3>2
        <4> QED
          BY <4>1
      <3>3. ASSUME NEW i \in 1 .. w, l = (x + u) + i PROVE G[k] < G[l]
        <4>1. G[k] = k /\ k <= x + y /\ G[l] = (x + y) + g[i] /\ (x + y) + g[i] \in Nat
              /\ x + y < (x + y) + g[i]
          BY <1>6, <2>4, <2>5, <3>3
        <4> QED
          BY <4>1
      <3> QED
        BY <2>2, <3>1, <3>2, <3>3
    <2>6. ASSUME NEW i \in 1 .. u, k = x + i PROVE G[k] < G[l]
      <3>1. l \notin 1 .. x
        BY <1>9, <2>6
      <3>2. ASSUME NEW j \in 1 .. u, l = x + j PROVE G[k] < G[l]
        <4>1. i < j
          BY <1>9, <2>6, <3>2
        <4>2. f[i] < f[j] /\ f[i] \in 1 .. y /\ f[j] \in 1 .. y
          BY <1>3, <4>1
        <4>3. G[k] = x + f[i] /\ G[l] = x + f[j]
          BY <1>6, <2>6, <3>2
        <4> QED
          BY <4>2, <4>3
      <3>3. ASSUME NEW j \in 1 .. w, l = (x + u) + j PROVE G[k] < G[l]
        <4>1. G[k] = x + f[i] /\ G[l] = (x + y) + g[j]
          BY <1>6, <2>6, <3>3
        <4>2. x + f[i] \in Nat /\ x + f[i] <= x + y /\ (x + y) + g[j] \in Nat /\ x + y < (x + y) + g[j]
          BY <2>3, <2>4
        <4> QED
          BY <4>1, <4>2
      <3> QED
        BY <2>2, <3>1, <3>2, <3>3
    <2>7. ASSUME NEW i \in 1 .. w, k = (x + u) + i PROVE G[k] < G[l]
      <3>1. l \notin 1 .. x /\ \A j \in 1 .. u : l # x + j
        BY <1>9, <2>7
      <3>2. ASSUME NEW j \in 1 .. w, l = (x + u) + j PROVE G[k] < G[l]
        <4>1. i < j
          BY <1>9, <2>7, <3>2
        <4>2. g[i] < g[j] /\ g[i] \in 1 .. z /\ g[j] \in 1 .. z
          BY <1>4, <4>1
        <4>3. G[k] = (x + y) + g[i] /\ G[l] = (x + y) + g[j]
          BY <1>6, <2>7, <3>2
        <4> QED
          BY <4>2, <4>3
      <3> QED
        BY <2>2, <3>1, <3>2
    <2> QED
      BY <2>1, <2>5, <2>6, <2>7
  <1>10. Stems(G, a, b, c, a, e, h)
    <2>1. (x + y) + z \in Nat /\ (x + u) + w \in Nat
      OBVIOUS
    <2> QED
      BY <1>7, <1>8, <1>9, <2>1 DEF Stems
  <1> QED
    BY <1>10, OrderKept

\* The line of d, e and f is that of a, b and c with m put in at p.
Adds(p, m, a, b, c, d, e, f) ==
    /\ LineLen(a, b, c) \in Nat /\ LineLen(d, e, f) = LineLen(a, b, c) + 1
    /\ p \in 1 .. LineLen(a, b, c) + 1 /\ LineAt(d, e, f, p) = m
    /\ \A k \in 1 .. LineLen(a, b, c) :
         IF k < p THEN LineAt(d, e, f, k) = LineAt(a, b, c, k)
                  ELSE LineAt(d, e, f, k + 1) = LineAt(a, b, c, k)

\* A message put in where nothing behind it is to come before it.
LEMMA OrderAdds ==
    ASSUME NEW P, NEW a, NEW b, NEW c, NEW d, NEW e, NEW f, Orderly(P, a, b, c),
           NEW p, NEW m, Adds(p, m, a, b, c, d, e, f),
           \A o \in P : ~(m.id < o.id), ~(m.id < m.id),
           \A k \in 1 .. LineLen(a, b, c) : LineAt(a, b, c, k) # m,
           \A k \in p .. LineLen(a, b, c) : ~Before(P \cup {m}, LineAt(a, b, c, k), m)
    PROVE  Orderly(P \cup {m}, d, e, f)
  <1>1. PICK N \in Nat : N = LineLen(a, b, c)
    BY DEF Adds
  <1>2. /\ LineLen(d, e, f) = N + 1 /\ p \in 1 .. N + 1 /\ LineAt(d, e, f, p) = m
        /\ \A k \in 1 .. N :
             IF k < p THEN LineAt(d, e, f, k) = LineAt(a, b, c, k)
                      ELSE LineAt(d, e, f, k + 1) = LineAt(a, b, c, k)
    BY <1>1 DEF Adds
  <1> DEFINE Old(i) == IF i < p THEN i ELSE i - 1
  <1>3. ASSUME NEW i \in 1 .. N + 1, i # p
        PROVE  Old(i) \in 1 .. N /\ LineAt(d, e, f, i) = LineAt(a, b, c, Old(i))
    <2>1. CASE i < p
      BY <1>2, <2>1
    <2>2. CASE i > p
      <3>1. i - 1 \in 1 .. N /\ ~(i - 1 < p) /\ (i - 1) + 1 = i /\ Old(i) = i - 1
        BY <1>2, <2>2
      <3> QED
        BY <1>2, <3>1
    <2> QED
      BY <1>2, <1>3, <2>1, <2>2
  <1> SUFFICES ASSUME NEW i \in 1 .. N + 1, NEW j \in 1 .. N + 1, i < j
               PROVE  ~Before(P \cup {m}, LineAt(d, e, f, j), LineAt(d, e, f, i))
    BY <1>2 DEF Orderly
  <1>4. CASE j = p
    BY <1>2, <1>4 DEF Before
  <1>5. CASE i = p
    <2>1. Old(j) \in p .. N /\ LineAt(d, e, f, j) = LineAt(a, b, c, Old(j))
      <3>1. j # p /\ Old(j) = j - 1
        BY <1>5, <1>2
      <3> QED
        BY <1>2, <1>3, <1>5, <3>1
    <2> QED
      BY <1>1, <1>2, <1>5, <2>1
  <1>6. CASE i # p /\ j # p
    <2>1. Old(i) < Old(j)
      BY <1>2, <1>6
    <2>2. /\ Old(i) \in 1 .. N /\ LineAt(d, e, f, i) = LineAt(a, b, c, Old(i))
          /\ Old(j) \in 1 .. N /\ LineAt(d, e, f, j) = LineAt(a, b, c, Old(j))
      BY <1>3, <1>6
    <2> HIDE DEF Old
    <2>3. ~Before(P, LineAt(a, b, c, Old(j)), LineAt(a, b, c, Old(i)))
      BY <1>1, <2>1, <2>2 DEF Orderly
    <2>4. LineAt(a, b, c, Old(j)) # m /\ LineAt(a, b, c, Old(i)) # m
      BY <1>1, <2>2
    <2> QED
      BY <2>2, <2>3, <2>4 DEF Before
  <1> QED
    BY <1>4, <1>5, <1>6

\* m is newer than all messages there are.
Newest(m, P, a, b, c) ==
    /\ \A o \in P : o.id < m.id
    /\ \A i \in 1 .. Len(a) : a[i].id < m.id
    /\ \A i \in 1 .. Len(b) : b[i].id < m.id
    /\ \A i \in 1 .. Len(c) : c[i].msg.id < m.id

\* Then it is none of the messages in line.
LEMMA NewestInLine ==
    ASSUME NEW P \in SUBSET Message, NEW a \in Seq(Message), NEW b \in Seq(Message),
           NEW c \in Seq(Delayed), NEW m \in Message, Newest(m, P, a, b, c)
    PROVE  /\ \A o \in P : ~(m.id < o.id)
           /\ ~(m.id < m.id)
           /\ \A k \in 1 .. LineLen(a, b, c) : LineAt(a, b, c, k) # m
  <1>1. PICK x, y, z \in Nat : x = Len(a) /\ y = Len(b) /\ z = Len(c)
    OBVIOUS
  <1>2. Parts(a, b, c, x, y, z)
    BY <1>1, LineParts
  <1>3. m.id \in Nat /\ \A o \in P : o.id \in Nat /\ o.id < m.id
    BY DEF Newest, Message
  <1>4. ASSUME NEW k \in 1 .. LineLen(a, b, c) PROVE LineAt(a, b, c, k) # m
    <2>0. k \in 1 .. (x + y) + z
      BY <1>2 DEF Parts
    <2>1. \/ k \in 1 .. x
          \/ \E i \in 1 .. y : k = x + i
          \/ \E i \in 1 .. z : k = (x + y) + i
      BY <2>0, LinePlace
    <2>2. LineAt(a, b, c, k).id < m.id
      BY <1>1, <1>2, <2>1 DEF Parts, Newest
    <2>3. ~(m.id < m.id)
      BY <1>3
    <2> QED
      BY <2>2, <2>3
  <1> QED
    BY <1>3, <1>4

\* Post puts its message at the end of the queue: behind it are only delayed ones.
LEMMA AppendLine ==
    ASSUME NEW P \in SUBSET Message, NEW a \in Seq(Message), NEW b \in Seq(Message),
           NEW c \in Seq(Delayed), Orderly(P, a, b, c), Sorted(c),
           NEW m \in Message, ~m.delayed, Newest(m, P, a, b, c)
    PROVE  Orderly(P \cup {m}, a, Append(b, m), c)
  <1>1. PICK x, y, z \in Nat : x = Len(a) /\ y = Len(b) /\ z = Len(c)
    OBVIOUS
  <1>2. PICK e, w : e = Append(b, m) /\ w = y + 1
    OBVIOUS
  <1>3. e \in Seq(Message) /\ Len(e) = w /\ e[w] = m /\ w \in Nat /\ \A k \in 1 .. y : e[k] = b[k]
    BY <1>1, <1>2, AppendFacts
  <1>4. Parts(a, b, c, x, y, z) /\ Parts(a, e, c, x, w, z)
    BY <1>1, <1>3, LineParts
  <1>5. /\ LineLen(a, b, c) = (x + y) + z /\ LineLen(a, e, c) = (x + w) + z
        /\ \A k \in 1 .. x : LineAt(a, b, c, k) = a[k] /\ LineAt(a, e, c, k) = a[k]
        /\ \A k \in 1 .. y : LineAt(a, b, c, x + k) = b[k]
        /\ \A k \in 1 .. z : LineAt(a, b, c, (x + y) + k) = c[k].msg
        /\ \A k \in 1 .. w : LineAt(a, e, c, x + k) = e[k]
        /\ \A k \in 1 .. z : LineAt(a, e, c, (x + w) + k) = c[k].msg
    BY <1>4 DEF Parts
  <1>6. PICK p \in Nat : p = x + w
    BY <1>3
  <1>7. ASSUME NEW k \in 1 .. (x + y) + z
        PROVE  IF k < p THEN LineAt(a, e, c, k) = LineAt(a, b, c, k)
                        ELSE LineAt(a, e, c, k + 1) = LineAt(a, b, c, k)
    <2>1. \/ k \in 1 .. x
          \/ \E i \in 1 .. y : k = x + i
          \/ \E i \in 1 .. z : k = (x + y) + i
      BY LinePlace
    <2>2. CASE k \in 1 .. x
      BY <1>2, <1>5, <1>6, <2>2
    <2>3. ASSUME NEW i \in 1 .. y, k = x + i PROVE k < p /\ LineAt(a, e, c, k) = LineAt(a, b, c, k)
      <3>1. i \in 1 .. w /\ k < p
        BY <1>2, <1>6, <2>3
      <3> QED
        BY <1>3, <1>5, <2>3, <3>1
    <2>4. ASSUME NEW i \in 1 .. z, k = (x + y) + i
          PROVE  ~(k < p) /\ LineAt(a, e, c, k + 1) = LineAt(a, b, c, k)
      <3>1. ~(k < p) /\ k + 1 = (x + w) + i
        BY <1>2, <1>6, <2>4
      <3> QED
        BY <1>5, <2>4, <3>1
    <2> QED
      BY <2>1, <2>2, <2>3, <2>4
  <1>8. Adds(p, m, a, b, c, a, e, c)
    <2>1. /\ (x + y) + z \in Nat /\ (x + w) + z = ((x + y) + z) + 1
          /\ p \in 1 .. ((x + y) + z) + 1 /\ w \in 1 .. w
      BY <1>2, <1>6
    <2>2. LineAt(a, e, c, p) = m
      BY <1>3, <1>5, <1>6, <2>1
    <2> QED
      BY <1>5, <1>7, <2>1, <2>2 DEF Adds
  <1>9. ASSUME NEW k \in p .. LineLen(a, b, c) PROVE ~Before(P \cup {m}, LineAt(a, b, c, k), m)
    <2>1. PICK i \in 1 .. z : k = (x + y) + i
      <3>1. k - (x + y) \in 1 .. z /\ k = (x + y) + (k - (x + y))
        BY <1>2, <1>5, <1>6
      <3> QED
        BY <3>1
    <2>2. LineAt(a, b, c, k).delayed
      BY <1>1, <1>5, <2>1 DEF Sorted
    <2> QED
      BY <2>2 DEF Before
  <1> QED
    BY <1>2, <1>8, <1>9, NewestInLine, OrderAdds

\* d is put into q where it belongs.
Slots(q, d, n, r) ==
    /\ Inserts(q, d, n, r)
    /\ \A i \in 1 .. n : PoppedBefore(q[i], d)
    /\ \A i \in n + 1 .. Len(q) : PoppedBefore(d, q[i])

\* dmsgq_ is in the order of its heap: what PushDelayed puts in is between those that are
\* popped before it and the others.
LEMMA PushDelayedPlace ==
    ASSUME NEW q \in Seq(Delayed), NEW d \in Delayed, Sorted(q), \A i \in 1 .. Len(q) : q[i].num < d.num
    PROVE  \E n : Slots(q, d, n, PushDelayed(q, d))
  <1>1. PICK l \in Nat : l = Len(q)
    OBVIOUS
  <1> DEFINE S == {i \in DOMAIN q : ~PoppedBefore(d, q[i])}
  <1>2. Inserts(q, d, Cardinality(S), PushDelayed(q, d))
    BY PushDelayedFacts
  <1>3. \A i \in S : i \in 1 .. l /\ ~PoppedBefore(d, q[i])
    BY <1>1
  <1>4. \A i \in 1 .. l : i \notin S => PoppedBefore(d, q[i])
    BY <1>1
  <1> HIDE DEF S
  <1>5. /\ d.num \in Nat /\ d.msTrigger \in Nat
        /\ \A i \in 1 .. l : q[i].num \in Nat /\ q[i].msTrigger \in Nat /\ q[i].num < d.num
    <2>1. \A e \in Delayed : e.num \in Nat /\ e.msTrigger \in Nat
      BY DEF Delayed
    <2>2. \A i \in 1 .. l : q[i] \in Delayed
      BY <1>1
    <2> QED
      BY <1>1, <2>1, <2>2
  <1>6. ASSUME NEW i \in 1 .. l, NEW j \in S, i <= j PROVE i \in S
    <2>1. CASE i < j
      <3>1. PoppedBefore(q[i], q[j]) /\ ~PoppedBefore(d, q[j])
        BY <1>1, <1>3, <2>1 DEF Sorted
      <3>2. ~PoppedBefore(d, q[i])
        BY <1>3, <1>5, <3>1 DEF PoppedBefore
      <3> QED
        BY <1>4, <3>2
    <2>2. CASE i = j
      BY <2>2
    <2> QED
      BY <1>3, <1>6, <2>1, <2>2
  <1>7. \E n \in 0 .. l : S = 1 .. n
    <2>1. CASE S = {}
      <3>1. S = 1 .. 0
        BY <2>1
      <3> QED
        BY <3>1
    <2>2. CASE S # {}
      <3>1. S \in SUBSET (1 .. l)
        BY <1>3
      <3>2. PICK n \in S : \A k \in S : k <= n
        <4>1. \E a, b \in S : \A k \in S : a <= k /\ k <= b
          BY <2>2, <3>1, EndsExist
        <4> QED
          BY <4>1
      <3>3. n \in 1 .. l
        BY <1>3
      <3>4. ASSUME NEW i \in S PROVE i \in 1 .. n
        BY <1>3, <3>2, <3>3
      <3>5. ASSUME NEW i \in 1 .. n PROVE i \in S
        <4>1. i \in 1 .. l /\ i <= n
          BY <3>3
        <4> QED
          BY <1>6, <4>1
      <3>6. S = 1 .. n
        BY <3>4, <3>5
      <3> QED
        BY <3>3, <3>6
    <2> QED
      BY <2>1, <2>2
  <1>8. PICK n \in 0 .. l : S = 1 .. n
    BY <1>7
  <1>9. Cardinality(S) = n
    <2>1. n \in Nat
      OBVIOUS
    <2>2. Cardinality(1 .. n) = IF 1 > n THEN 0 ELSE n - 1 + 1
      BY <2>1, FS_Interval
    <2> QED
      BY <1>8, <2>1, <2>2
  <1>10. ASSUME NEW i \in 1 .. n PROVE PoppedBefore(q[i], d)
    <2>1. i \in 1 .. l /\ ~PoppedBefore(d, q[i])
      BY <1>3, <1>8
    <2> QED
      BY <1>5, <2>1 DEF PoppedBefore
  <1>11. ASSUME NEW i \in n + 1 .. l PROVE PoppedBefore(d, q[i])
    <2>1. i \in 1 .. l /\ i \notin 1 .. n
      OBVIOUS
    <2> QED
      BY <1>4, <1>8, <2>1
  <1> QED
    BY <1>1, <1>2, <1>9, <1>10, <1>11 DEF Slots

\* A newer message is popped before another only if it is due earlier.
LEMMA NewerPops ==
    ASSUME NEW d \in Delayed, NEW e \in Delayed, PoppedBefore(d, e), e.num < d.num
    PROVE  d.msTrigger < e.msTrigger
  BY DEF PoppedBefore, Delayed

\* d is what stands for m in dmsgq_.
Stamped(d, m) == d.msTrigger = m.due % TimeMod /\ d.num = m.id /\ d.msg = m

\* PostDelayed puts its message among the delayed ones: those behind it are due later.
LEMMA InsertLine ==
    ASSUME NEW P \in SUBSET Message, NEW a \in Seq(Message), NEW b \in Seq(Message),
           NEW c \in Seq(Delayed), Orderly(P, a, b, c), Sorted(c),
           NEW m \in Message, Newest(m, P, a, b, c),
           NEW d \in Delayed, Stamped(d, m),
           NEW n, NEW h \in Seq(Delayed), Slots(c, d, n, h)
    PROVE  Orderly(P \cup {m}, a, b, h)
  <1>1. PICK x, y, z \in Nat : x = Len(a) /\ y = Len(b) /\ z = Len(c)
    OBVIOUS
  <1>2. /\ n \in 0 .. z /\ Len(h) = z + 1 /\ h[n + 1] = d
        /\ \A i \in 1 .. n : h[i] = c[i]
        /\ \A i \in n + 1 .. z : h[i + 1] = c[i] /\ PoppedBefore(d, c[i])
    BY <1>1 DEF Slots, Inserts
  <1>3. PICK w \in Nat : w = z + 1
    OBVIOUS
  <1>4. Parts(a, b, c, x, y, z) /\ Parts(a, b, h, x, y, w)
    BY <1>1, <1>2, <1>3, LineParts
  <1>5. /\ LineLen(a, b, c) = (x + y) + z /\ LineLen(a, b, h) = (x + y) + w
        /\ \A k \in 1 .. x : LineAt(a, b, c, k) = a[k] /\ LineAt(a, b, h, k) = a[k]
        /\ \A k \in 1 .. y : LineAt(a, b, c, x + k) = b[k] /\ LineAt(a, b, h, x + k) = b[k]
        /\ \A k \in 1 .. z : LineAt(a, b, c, (x + y) + k) = c[k].msg
        /\ \A k \in 1 .. w : LineAt(a, b, h, (x + y) + k) = h[k].msg
    BY <1>4 DEF Parts
  <1>a. n \in Nat /\ n <= z
    BY <1>2
  <1>6. PICK p \in Nat : p = (x + y) + (n + 1)
    BY <1>a
  <1>7. ASSUME NEW k \in 1 .. (x + y) + z
        PROVE  IF k < p THEN LineAt(a, b, h, k) = LineAt(a, b, c, k)
                        ELSE LineAt(a, b, h, k + 1) = LineAt(a, b, c, k)
    <2>1. \/ k \in 1 .. x
          \/ \E i \in 1 .. y : k = x + i
          \/ \E i \in 1 .. z : k = (x + y) + i
      BY LinePlace
    <2>2. CASE k \in 1 .. x
      <3>1. k < p
        BY <1>2, <1>6, <2>2
      <3> QED
        BY <1>5, <2>2, <3>1
    <2>3. ASSUME NEW i \in 1 .. y, k = x + i PROVE k < p /\ LineAt(a, b, h, k) = LineAt(a, b, c, k)
      <3>1. k < p
        BY <1>2, <1>6, <2>3
      <3> QED
        BY <1>5, <2>3, <3>1
    <2>4. ASSUME NEW i \in 1 .. z, k = (x + y) + i
          PROVE  IF k < p THEN LineAt(a, b, h, k) = LineAt(a, b, c, k)
                          ELSE LineAt(a, b, h, k + 1) = LineAt(a, b, c, k)
      <3>1. CASE i <= n
        <4>1. k < p /\ i \in 1 .. n /\ i \in 1 .. w
          BY <1>2, <1>3, <1>6, <2>4, <3>1
        <4>2. LineAt(a, b, h, k) = h[i].msg /\ LineAt(a, b, c, k) = c[i].msg /\ h[i] = c[i]
          BY <1>2, <1>5, <2>4, <4>1
        <4> QED
          BY <4>1, <4>2
      <3>2. CASE i > n
        <4>0. n \in Nat /\ n + 1 <= i
          BY <1>2, <3>2
        <4>1. ~(k < p) /\ i \in n + 1 .. z /\ i + 1 \in 1 .. w /\ k + 1 = (x + y) + (i + 1)
          BY <1>3, <1>6, <2>4, <4>0
        <4>2. LineAt(a, b, h, k + 1) = h[i + 1].msg /\ LineAt(a, b, c, k) = c[i].msg
              /\ h[i + 1] = c[i]
          BY <1>2, <1>5, <2>4, <4>1
        <4> QED
          BY <4>1, <4>2
      <3> QED
        BY <1>2, <3>1, <3>2
    <2> QED
      BY <2>1, <2>2, <2>3, <2>4
  <1>8. Adds(p, m, a, b, c, a, b, h)
    <2>1. /\ (x + y) + z \in Nat /\ (x + y) + w = ((x + y) + z) + 1
          /\ p \in 1 .. ((x + y) + z) + 1 /\ n + 1 \in 1 .. w
      BY <1>a, <1>3, <1>6
    <2>2. LineAt(a, b, h, p) = m
      <3>1. d.msg = m
        BY DEF Stamped
      <3> QED
        BY <1>2, <1>5, <1>6, <2>1, <3>1
    <2> QED
      BY <1>5, <1>7, <2>1, <2>2 DEF Adds
  <1>9. ASSUME NEW k \in p .. LineLen(a, b, c) PROVE ~Before(P \cup {m}, LineAt(a, b, c, k), m)
    <2>1. PICK i \in n + 1 .. z : k = (x + y) + i
      <3>1. k \in p .. (x + y) + z
        BY <1>5
      <3>2. k - (x + y) \in n + 1 .. z /\ k = (x + y) + (k - (x + y))
        BY <1>a, <1>6, <3>1
      <3> QED
        BY <3>2
    <2>2. i \in 1 .. z
      BY <1>a
    <2>3. PICK o : o = c[i].msg
      OBVIOUS
    <2>4. LineAt(a, b, c, k) = o
      BY <1>5, <2>1, <2>2, <2>3
    <2>5. c[i].msTrigger = o.due % TimeMod /\ c[i].num = o.id /\ o.id < m.id
      BY <1>1, <2>2, <2>3 DEF Sorted, Newest
    <2>6. o \in Message
      <3>1. c[i] \in Delayed
        BY <1>1, <2>2
      <3> QED
        BY <2>3, <3>1 DEF Delayed
    <2>7. PICK u, v : u = o.due % TimeMod /\ v = m.due % TimeMod
      OBVIOUS
    <2>8. u \in Int /\ v \in Int /\ o.id \in Nat /\ m.id \in Nat
      BY <2>6, <2>7, ThreadsConstantsOK DEF Message
    <2>9. c[i] \in Delayed /\ PoppedBefore(d, c[i]) /\ c[i].num < d.num
      BY <1>1, <1>2, <2>1, <2>2, <2>5 DEF Stamped
    <2>10. v < u
      <3>1. d.msTrigger < c[i].msTrigger
        BY <2>9, NewerPops
      <3>2. d.msTrigger = v /\ c[i].msTrigger = u
        BY <2>5, <2>7 DEF Stamped
      <3> QED
        BY <3>1, <3>2
    <2>11. ~DueFirst(o, m)
      BY <2>7, <2>8, <2>10 DEF DueFirst
    <2>12. o.delayed
      BY <1>1, <2>2, <2>3 DEF Sorted
    <2> QED
      BY <2>4, <2>11, <2>12 DEF Before
  <1> QED
    BY <1>8, <1>9, NewestInLine, OrderAdds

\* Get leaves the delayed messages in their order,
LEMMA SortedMoved ==
    ASSUME NEW b, NEW c \in Seq(Delayed), Sorted(c), NEW k \in Nat, k <= Len(c), NEW q, NEW f,
           Moved(b, c, k, q, f)
    PROVE  Sorted(f)
  <1>1. PICK z \in Nat : z = Len(c)
    OBVIOUS
  <1>2. Len(f) = z - k /\ \A i \in 1 .. z - k : f[i] = c[k + i] /\ k + i \in 1 .. z
    BY <1>1 DEF Moved
  <1>3. \A i, j \in 1 .. z - k : i < j => k + i < k + j
    OBVIOUS
  <1> QED
    BY <1>1, <1>2, <1>3 DEF Sorted

\* and so does Clear,
LEMMA SortedPicks ==
    ASSUME NEW c \in Seq(Delayed), Sorted(c), NEW g, NEW h, Picks(g, c, h)
    PROVE  Sorted(h)
  BY DEF Sorted, Picks

\* and PostDelayed.
LEMMA SortedSlots ==
    ASSUME NEW c \in Seq(Delayed), Sorted(c), NEW d \in Delayed, NEW m, Stamped(d, m),
           m.delayed, NEW n, NEW h, Slots(c, d, n, h)
    PROVE  Sorted(h)
  <1>1. PICK z \in Nat : z = Len(c)
    OBVIOUS
  <1>2. /\ n \in 0 .. z /\ Len(h) = z + 1 /\ h[n + 1] = d
        /\ \A i \in 1 .. n : h[i] = c[i] /\ PoppedBefore(c[i], d)
        /\ \A i \in n + 1 .. z : h[i + 1] = c[i] /\ PoppedBefore(d, c[i])
    BY <1>1 DEF Slots, Inserts
  <1>3. \A i, j \in 1 .. z : i < j => PoppedBefore(c[i], c[j])
    BY <1>1 DEF Sorted
  <1>4. \A i \in 1 .. z : /\ c[i].msTrigger = c[i].msg.due % TimeMod /\ c[i].num = c[i].msg.id
                          /\ c[i].msg.delayed
    BY <1>1 DEF Sorted
  <1>5. ASSUME NEW i \in 1 .. z + 1
        PROVE  \/ i \in 1 .. n /\ i \in 1 .. z /\ h[i] = c[i]
               \/ i = n + 1 /\ h[i] = d
               \/ i > n + 1 /\ i - 1 \in n + 1 .. z /\ i - 1 \in 1 .. z /\ h[i] = c[i - 1]
    <2>1. CASE i <= n
      BY <1>2, <2>1
    <2>2. CASE i = n + 1
      BY <1>2, <2>2
    <2>3. CASE i > n + 1
      <3>1. i - 1 \in n + 1 .. z /\ i - 1 \in 1 .. z /\ (i - 1) + 1 = i
        BY <1>2, <2>3
      <3> QED
        BY <1>2, <2>3, <3>1
    <2> QED
      BY <1>2, <2>1, <2>2, <2>3
  <1>6. ASSUME NEW i \in 1 .. z + 1
        PROVE  /\ h[i].msTrigger = h[i].msg.due % TimeMod /\ h[i].num = h[i].msg.id
               /\ h[i].msg.delayed
    BY <1>4, <1>5 DEF Stamped
  <1>7. ASSUME NEW i \in 1 .. z + 1, NEW j \in 1 .. z + 1, i < j PROVE PoppedBefore(h[i], h[j])
    <2>1. CASE i \in 1 .. n /\ h[i] = c[i]
      <3>1. CASE j \in 1 .. n /\ h[j] = c[j]
        BY <1>2, <1>3, <1>7, <2>1, <3>1
      <3>2. CASE h[j] = d
        BY <1>2, <2>1, <3>2
      <3>3. CASE j - 1 \in n + 1 .. z /\ h[j] = c[j - 1]
        <4>1. i \in 1 .. z /\ j - 1 \in 1 .. z /\ i < j - 1
          BY <1>2, <2>1, <3>3
        <4> QED
          BY <1>3, <2>1, <3>3, <4>1
      <3> QED
        BY <1>5, <3>1, <3>2, <3>3
    <2>2. CASE i = n + 1 /\ h[i] = d
      <3>1. j - 1 \in n + 1 .. z /\ h[j] = c[j - 1]
        <4>1. ~(j \in 1 .. n) /\ j # n + 1
          BY <1>2, <1>7, <2>2
        <4> QED
          BY <1>5, <4>1
      <3> QED
        BY <1>2, <2>2, <3>1
    <2>3. CASE i > n + 1 /\ i - 1 \in 1 .. z /\ h[i] = c[i - 1]
      <3>1. j - 1 \in 1 .. z /\ h[j] = c[j - 1]
        <4>1. ~(j \in 1 .. n) /\ j # n + 1
          BY <1>2, <1>7, <2>3
        <4> QED
          BY <1>5, <4>1
      <3>2. i - 1 < j - 1
        BY <1>7
      <3> QED
        BY <1>3, <2>3, <3>1, <3>2
    <2> QED
      BY <1>5, <2>1, <2>2, <2>3
  <1> QED
    BY <1>2, <1>6, <1>7 DEF Sorted

\* A thread whose messages are left alone.
LEMMA OrderStays ==
    ASSUME OrderInv, NEW v \in Threads, pushed'[v] = pushed[v],
           handled'[v] = handled[v], msgq'[v] = msgq[v], dmsgq'[v] = dmsgq[v]
    PROVE  OrderAt(v)'
  <1>1. Sorted(dmsgq'[v])
    BY DEF OrderInv, OrderAt
  <1>2. Orderly(pushed'[v], handled'[v], msgq'[v], dmsgq'[v])
    BY DEF OrderInv, OrderAt
  <1> QED
    BY <1>1, <1>2 DEF OrderAt

\* A step that leaves the messages alone.
LEMMA StillOrder ==
    ASSUME OrderInv, pushed' = pushed, msgq' = msgq, dmsgq' = dmsgq, handled' = handled
    PROVE  OrderInv'
  BY OrderStays DEF OrderInv

\* Pull.
LEMMA PullOrder ==
    ASSUME OrderInv, Shape, Typed, NEW t \in Threads, Pull(t)
    PROVE  OrderInv'
  <1>1. PICK f, k, q, rest : Pulled(t, f, k, q, rest)
    BY PullStack
  <1>2. pushed' = pushed
    BY DEF Pull
  <1>4. ASSUME NEW v \in Threads, v # t PROVE OrderAt(v)'
    <2>1. handled'[v] = handled[v] /\ msgq'[v] = msgq[v] /\ dmsgq'[v] = dmsgq[v]
      BY <1>1, <1>4 DEF Pulled, Typed
    <2> QED
      BY <1>2, <2>1, OrderStays
  <1>5. PICK a, b, c : a = handled[t] /\ b = msgq[t] /\ c = dmsgq[t]
    OBVIOUS
  <1>6. a \in Seq(Message) /\ b \in Seq(Message) /\ c \in Seq(Delayed)
    BY <1>5 DEF Typed
  <1>7. PICK d, e : d = handled'[t] /\ e = msgq'[t]
    OBVIOUS
  <1>8. dmsgq'[t] = rest /\ Taken(a, q, d, e)
    BY <1>1, <1>5, <1>7 DEF Pulled, Typed, Taken
  <1>9. q \in Seq(Message) /\ rest \in Seq(Delayed) /\ Moved(b, c, k, q, rest) /\ k \in 0 .. Len(c)
    BY <1>1, <1>5 DEF Pulled
  <1>10. k \in Nat /\ k <= Len(c)
    BY <1>6, <1>9
  <1>11. Sorted(c) /\ Orderly(pushed[t], a, b, c)
    BY <1>5 DEF OrderInv, OrderAt
  <1>12. Sorted(rest)
    BY <1>6, <1>9, <1>10, <1>11, SortedMoved
  <1>13. Orderly(pushed[t], d, e, rest)
    BY <1>6, <1>8, <1>9, <1>10, <1>11, PullLine
  <1>14. OrderAt(t)'
    BY <1>2, <1>7, <1>8, <1>12, <1>13 DEF OrderAt
  <1> QED
    BY <1>4, <1>14 DEF OrderInv

\* Clear.
LEMMA ClearOrder ==
    ASSUME OrderInv, Typed, NEW u \in Threads, NEW H, Clears(u, H), pushed' = pushed,
           handled' = handled
    PROVE  OrderInv'
  <1>2. ASSUME NEW v \in Threads, v # u PROVE OrderAt(v)'
    <2>1. msgq'[v] = msgq[v] /\ dmsgq'[v] = dmsgq[v]
      BY <1>2 DEF Clears
    <2> QED
      BY <2>1, OrderStays
  <1>3. PICK a, b, c : a = handled[u] /\ b = msgq[u] /\ c = dmsgq[u]
    OBVIOUS
  <1>4. a \in Seq(Message) /\ b \in Seq(Message) /\ c \in Seq(Delayed)
    BY <1>3 DEF Typed
  <1>5. PICK e, h : e = msgq'[u] /\ h = dmsgq'[u]
    OBVIOUS
  <1>6. e \in Seq(Message) /\ h \in Seq(Delayed)
    BY <1>5 DEF Clears
  <1>7. PICK f, g : Picks(f, b, e) /\ Picks(g, c, h)
    <2>1. Thinned(u)
      BY DEF Clears
    <2> QED
      BY <1>3, <1>5, <2>1 DEF Thinned
  <1>8. Sorted(c) /\ Orderly(pushed[u], a, b, c)
    BY <1>3 DEF OrderInv, OrderAt
  <1>9. Sorted(h)
    BY <1>4, <1>7, <1>8, SortedPicks
  <1>10. Orderly(pushed[u], a, e, h)
    BY <1>4, <1>6, <1>7, <1>8, ClearLine
  <1>11. OrderAt(u)'
    BY <1>3, <1>5, <1>9, <1>10 DEF OrderAt
  <1> QED
    BY <1>2, <1>11 DEF OrderInv

\* PostPush.
LEMMA PostPushOrder ==
    ASSUME OrderInv, PostInv, Shape, Typed, NEW t \in Threads, PostPush(t)
    PROVE  OrderInv'
  <1>1. PICK n, f, m, u : Queues(t, n, f, m, u)
    BY PostPushStack
  <1>2. handled' = handled
    BY DEF PostPush, PushMessage
  <1>3. /\ m \in Message /\ m.id = posts + 1 /\ u \in Threads /\ Placed(u, m)
        /\ pushed' = [pushed EXCEPT ![u] = @ \cup {m}]
    BY <1>1 DEF Queues
  <1>4. pushed'[u] = pushed[u] \cup {m} /\ \A v \in Threads : v # u => pushed'[v] = pushed[v]
    BY <1>3 DEF Typed
  <1>6. ASSUME NEW v \in Threads, v # u PROVE OrderAt(v)'
    <2>1. msgq'[v] = msgq[v] /\ dmsgq'[v] = dmsgq[v]
      BY <1>1, <1>6 DEF Queues
    <2> QED
      BY <1>2, <1>4, <1>6, <2>1, OrderStays
  <1>7. PICK a, b, c, P : a = handled[u] /\ b = msgq[u] /\ c = dmsgq[u] /\ P = pushed[u]
    OBVIOUS
  <1>8. /\ a \in Seq(Message) /\ b \in Seq(Message) /\ c \in Seq(Delayed)
        /\ P \in SUBSET Message
    BY <1>3, <1>7 DEF Typed
  <1>9. Newest(m, P, a, b, c)
    <2>1. posts \in Nat
      BY DEF Typed
    <2>2. \A o \in pushed[u] : o.id < m.id
      <3>1. \A o \in pushed[u] : o.id \in 1 .. posts
        BY <1>3 DEF PostInv
      <3> QED
        BY <1>3, <2>1, <3>1
    <2>3. FirstMessage.id < m.id
      BY <1>3, <2>1 DEF FirstMessage
    <2>4. \A o : Holds(u, o) => o.id < m.id
      BY <1>3, <2>2, <2>3 DEF PostInv, Given
    <2> QED
      BY <1>7, <2>2, <2>4 DEF Newest, Holds
  <1>10. Sorted(c) /\ Orderly(P, a, b, c)
    BY <1>3, <1>7 DEF OrderInv, OrderAt
  <1>11. ASSUME m.delayed PROVE OrderAt(u)'
    <2>1. PICK d : d = [msTrigger |-> m.due % TimeMod, num |-> m.id, msg |-> m]
      OBVIOUS
    <2>2. d \in Delayed /\ Stamped(d, m)
      <3>1. m.due % TimeMod \in Nat /\ m.id \in Nat
        BY <1>3, ThreadsConstantsOK DEF Message
      <3> QED
        BY <1>3, <2>1, <3>1 DEF Delayed, Stamped
    <2>3. PICK h : h = PushDelayed(c, d)
      OBVIOUS
    <2>4. h \in Seq(Delayed)
      BY <1>8, <2>2, <2>3, PushDelayedFacts
    <2>5. PICK k : Slots(c, d, k, h)
      <3>1. \A i \in 1 .. Len(c) : c[i].num < d.num
        BY <1>9, <1>10, <2>2 DEF Newest, Sorted, Stamped
      <3> QED
        BY <1>8, <1>10, <2>2, <2>3, <3>1, PushDelayedPlace
    <2>6. msgq'[u] = b /\ dmsgq'[u] = h
      BY <1>3, <1>7, <1>11, <2>1, <2>3 DEF Placed
    <2>7. Sorted(h)
      BY <1>8, <1>10, <1>11, <2>2, <2>5, SortedSlots
    <2>8. Orderly(P \cup {m}, a, b, h)
      BY <1>3, <1>8, <1>9, <1>10, <2>2, <2>4, <2>5, InsertLine
    <2> QED
      BY <1>2, <1>3, <1>4, <1>7, <2>6, <2>7, <2>8 DEF OrderAt
  <1>12. ASSUME ~m.delayed PROVE OrderAt(u)'
    <2>1. dmsgq'[u] = c /\ msgq'[u] = Append(b, m)
      BY <1>3, <1>7, <1>12 DEF Placed
    <2>2. Orderly(P \cup {m}, a, Append(b, m), c)
      BY <1>3, <1>8, <1>9, <1>10, <1>12, AppendLine
    <2> QED
      BY <1>2, <1>3, <1>4, <1>7, <1>10, <2>1, <2>2 DEF OrderAt
  <1>13. OrderAt(u)'
    BY <1>11, <1>12
  <1> QED
    BY <1>6, <1>13 DEF OrderInv

\* Every step keeps the messages in their order.
LEMMA OrderStep ==
    ASSUME OrderInv, PostInv, CallInv, Next
    PROVE  OrderInv'
  <1> USE DEF CallInv
  <1>1. ASSUME NEW t \in Threads, Step(t) PROVE OrderInv'
    <2>1. CASE Pull(t)
      BY <2>1, PullOrder
    <2>2. CASE PostPush(t)
      BY <2>2, PostPushOrder
    <2>3. CASE ~Pull(t) /\ ~PostPush(t)
      <3>1. pushed' = pushed /\ msgq' = msgq /\ dmsgq' = dmsgq /\ handled' = handled
        BY <1>1, <2>3 DEF Step, ReceiveSend, ReceivedSends, OnMessageReturns, CheckStop, GetWait,
              SendPush, SendWakeUp, SendTest, SendWait, queues, counters, history
      <3> QED
        BY <3>1, StillOrder
    <2> QED
      BY <2>1, <2>2, <2>3
  <1>2. ASSUME NEW t \in Threads, NEW u \in Threads, NEW h \in Handlers, ClearHandler(t, u, h)
        PROVE  OrderInv'
    <2>1. PICK H : H = {h}
      OBVIOUS
    <2>2. Clear(u, H) /\ pushed' = pushed /\ handled' = handled
      BY <1>2, <2>1 DEF ClearHandler
    <2> QED
      BY <2>2, ClearFacts, ClearOrder
  <1>3. ASSUME NEW t \in Threads, JoinAndClear(t) PROVE OrderInv'
    <2>1. PICK H : H = Handlers \cup {MQID_DISPOSE, "app"}
      OBVIOUS
    <2>2. Clear(t, H) /\ pushed' = pushed /\ handled' = handled
      BY <1>3, <2>1 DEF JoinAndClear, counters, history
    <2> QED
      BY <2>2, ClearFacts, ClearOrder
  <1>4. ASSUME \/ \E t, u \in Threads, h \in Handlers : Send(t, u, h)
               \/ \E t, u \in Threads, h \in Handlers \cup {MQID_DISPOSE} : Post(t, u, h)
               \/ \E t \in Threads : Quit(t)
               \/ \E t \in Threads : QuitWakeUp(t)
               \/ Tick
        PROVE  OrderInv'
    <2>1. pushed' = pushed /\ msgq' = msgq /\ dmsgq' = dmsgq /\ handled' = handled
      BY <1>4 DEF Send, Post, Quit, QuitWakeUp, Tick, queues, counters, history
    <2> QED
      BY <2>1, StillOrder
  <1> QED
    BY <1>1, <1>2, <1>3, <1>4 DEF Next

\* Messages are dispatched in the order in which they were queued, and of two delayed ones
\* the one queued first and due first comes first (Post, DelayedMessage::operator<), unless
\* the clock runs over between the two, for operator< compares timestamps as numbers.
THEOREM AlwaysDispatchedInOrder == Spec => []DispatchedInOrder
  <1>1. ASSUME Init, CallInv PROVE OrderInv
    <2> SUFFICES ASSUME NEW t \in Threads PROVE OrderAt(t)
      BY DEF OrderInv
    <2>1. /\ dmsgq[t] = <<>> /\ handled[t] = <<>> /\ pushed[t] = {}
      BY <1>1 DEF Init
    <2>2. Sorted(dmsgq[t])
      BY <2>1 DEF Sorted
    <2> QED
      BY <2>1, <2>2 DEF OrderAt, Orderly, Before
  <1>2. ASSUME CallInv, PostInv, OrderInv, [Next]_vars PROVE OrderInv'
    <2>1. CASE Next
      BY <1>2, <2>1, OrderStep
    <2>2. CASE vars' = vars
      <3>1. pushed' = pushed /\ msgq' = msgq /\ dmsgq' = dmsgq /\ handled' = handled
        BY <2>2 DEF vars, queues, counters, history
      <3> QED
        BY <1>2, <3>1, StillOrder
    <2> QED
      BY <1>2, <2>1, <2>2
  <1>3. ASSUME CallInv, OrderInv PROVE DispatchedInOrder
    <2> SUFFICES ASSUME NEW t \in Threads, NEW i \in DOMAIN handled[t], NEW j \in DOMAIN handled[t],
                        Before(pushed[t], handled[t][i], handled[t][j])
                 PROVE  i < j
      BY DEF DispatchedInOrder, Before
    <2>1. PICK a, b, c, P : a = handled[t] /\ b = msgq[t] /\ c = dmsgq[t] /\ P = pushed[t]
      OBVIOUS
    <2>2. /\ a \in Seq(Message) /\ b \in Seq(Message) /\ c \in Seq(Delayed)
          /\ P \in SUBSET Message
      BY <1>3, <2>1 DEF CallInv, Typed
    <2>3. PICK x, y, z \in Nat : x = Len(a) /\ y = Len(b) /\ z = Len(c)
      BY <2>2
    <2>4. Parts(a, b, c, x, y, z)
      BY <2>2, <2>3, LineParts
    <2>5. i \in 1 .. x /\ j \in 1 .. x /\ i \in 1 .. (x + y) + z /\ j \in 1 .. (x + y) + z
      <3>1. DOMAIN a = 1 .. x
        BY <2>2, <2>3
      <3>2. i \in 1 .. x /\ j \in 1 .. x
        BY <2>1, <3>1
      <3>3. \A k \in 1 .. x : k \in 1 .. (x + y) + z
        OBVIOUS
      <3> QED
        BY <3>2, <3>3
    <2>6. /\ LineLen(a, b, c) = (x + y) + z
          /\ LineAt(a, b, c, i) = a[i] /\ LineAt(a, b, c, j) = a[j]
      BY <2>4, <2>5 DEF Parts
    <2>7. Orderly(P, a, b, c)
      BY <1>3, <2>1 DEF OrderInv, OrderAt
    <2>8. j < i => ~Before(P, a[i], a[j])
      BY <2>5, <2>6, <2>7 DEF Orderly
    <2>9. i # j
      <3>1. a[i].id < a[j].id /\ a[i] \in Message
        BY <2>1, <2>2, <2>3, <2>5 DEF Before
      <3>2. a[i].id \in Nat
        BY <3>1 DEF Message
      <3> QED
        BY <3>1, <3>2
    <2> QED
      BY <2>1, <2>5, <2>8, <2>9
  <1>4. Spec => []PostInv
    BY PostInvariance
  <1> QED
    BY <1>1, <1>2, <1>3, <1>4, CallInvariance, PTL DEF Spec

=============================================================================
