------------------------------- MODULE Threads -------------------------------
(***************************************************************************)
(* The message queues and blocking calls every part of the system runs on: *)
(* rtc::Thread (webrtc/base/thread.cc) and rtc::MessageQueue               *)
(* (webrtc/base/messagequeue.cc) over the wakeup event of                  *)
(* PhysicalSocketServer (webrtc/base/physicalsocketserver.cc).             *)
(*                                                                         *)
(* A thread is a stack of calls.  At the bottom is Get, called again and   *)
(* again by ProcessMessages; above it alternate the handlers of messages   *)
(* and the Sends and Posts those handlers make.  A step is what a thread   *)
(* does under one lock, or one access to an unguarded flag; between two    *)
(* steps the other threads run.  What a handler does is up to the          *)
(* application: any Send, Post or Clear within the bounds.                 *)
(***************************************************************************)
EXTENDS Integers, Sequences, FiniteSets

CONSTANTS Threads,
          CanSend,         \* <<t, u>>: handlers on t call u->Send
          CanPost,         \* <<t, u>>: handlers on t post to u
          Handlers,        \* the MessageHandler objects
          Quitting,        \* the threads whose owner may Stop them
          Delays,          \* arguments of PostDelayed, in ticks
          TimeMod,         \* 2^32 ms: the width of a timestamp
          StartTime,       \* the clock at the start
          Workloads        \* bounds: the threads given a first message, and how much their
                           \* handlers, the owners and the clock may do

VARIABLES
    stack,        \* the calls of each thread, the running one last
    msgq, dmsgq,  \* MessageQueue::msgq_ and dmsgq_, the latter in the order of pop
    sendlist,     \* Thread::sendlist_
    ready,        \* the Sends whose |ready| is set
    wake,         \* fSignaled_ of the thread's EventDispatcher
    fStop,        \* MessageQueue::fStop_
    owner,        \* how far the owner is in ~Thread
    now,          \* the clock, not truncated
    left,         \* what the handlers may still do, and how far the clock may still run
    sends, posts, \* numbers of the last Send and of the last message queued
    pushed,       \* the messages each queue was given
    handled,      \* the messages each thread dispatched, in order
    cleared       \* the messages a handler removed from the queue of its own thread

queues == <<msgq, dmsgq, sendlist>>
history == <<pushed, handled, cleared>>
counters == <<left, sends, posts>>
vars == <<stack, queues, ready, wake, fStop, owner, now, counters, history>>

ASSUME ThreadsConstantsOK ==
    /\ CanSend \subseteq Threads \X Threads /\ CanPost \subseteq Threads \X Threads
    /\ Quitting \subseteq Threads
    /\ Delays \subseteq Nat
    /\ TimeMod \in Nat \ {0} /\ StartTime \in Nat
    /\ Workloads \subseteq [start : SUBSET Threads, sends : Nat, posts : Nat, delayed : Nat,
                            clears : Nat, quits : Nat, ticks : Nat]

kForever == -1
MQID_DISPOSE == "MQID_DISPOSE"   \* its messages have no handler
NoSend == 0

-----------------------------------------------------------------------------
(* Timestamps are 32 bits wide and compared modulo their width.            *)

Time == now % TimeMod
TimeDiff(later, earlier) ==
    LET diff == (later - earlier) % TimeMod
    IN  IF 2 * diff >= TimeMod THEN diff - TimeMod ELSE diff

\* Mutant: timestamps compared as numbers.
TimeIsLater_Plain(earlier, later) == later > earlier

TimeIsLater(earlier, later) == TimeDiff(later, earlier) > 0

\* DelayedMessage::operator<, the greatest first: timestamps compare as plain numbers.
PoppedBefore(d, e) ==
    \/ d.msTrigger < e.msTrigger
    \/ d.msTrigger = e.msTrigger /\ d.num < e.num

\* d goes behind those that are popped before it, which are the first of q.
PushDelayed(q, d) ==
    LET n == Cardinality({i \in DOMAIN q : ~PoppedBefore(d, q[i])})
    IN  SubSeq(q, 1, n) \o <<d>> \o SubSeq(q, n + 1, Len(q))

\* How many delayed messages the first pass of Get moves: up to the first that is later.
DueCount(q, cur) ==
    CHOOSE n \in 0 .. Len(q) :
        /\ \A i \in 1 .. n : ~TimeIsLater(cur, q[i].msTrigger)
        /\ n < Len(q) => TimeIsLater(cur, q[n + 1].msTrigger)

-----------------------------------------------------------------------------
(* Calls.                                                                  *)

GetCall(at, cur, delay) == [call |-> "Get", at |-> at, msCurrent |-> cur, delay |-> delay]
SendCall(at, to, id, h, waited) ==
    [call |-> "Send", at |-> at, to |-> to, id |-> id, handler |-> h, waited |-> waited]
\* by: "Dispatch" for a posted message, "Send" for one in sendlist_, "Direct" for a Send
\* of a thread to itself.
OnMessageCall(by, id, from) == [call |-> "OnMessage", by |-> by, id |-> id, from |-> from]
PostCall(to, msg) == [call |-> "Post", to |-> to, msg |-> msg]

Running(t) == stack[t] # <<>>
Top(t) == stack[t][Len(stack[t])]
InCall(t, call, at) == Running(t) /\ Top(t).call = call /\ Top(t).at = at
InHandler(t) == Running(t) /\ Top(t).call = "OnMessage"

Returned(calls) == SubSeq(calls, 1, Len(calls) - 1)
Goto(calls, f) == [calls EXCEPT ![Len(calls)] = f]

NewGet == GetCall("ReceiveSends", Time, kForever)

\* Every thread waits in Get; the application has just posted to some.
FirstMessage == [id |-> 0, handler |-> "app", due |-> StartTime, delayed |-> FALSE]

Init ==
    /\ left \in Workloads
    /\ stack = [t \in Threads |-> <<GetCall("Wait", StartTime % TimeMod, kForever)>>]
    /\ msgq = [t \in Threads |-> IF t \in left.start THEN <<FirstMessage>> ELSE <<>>]
    /\ dmsgq = [t \in Threads |-> <<>>]
    /\ sendlist = [t \in Threads |-> <<>>]
    /\ ready = {}
    /\ wake = [t \in Threads |-> t \in left.start]
    /\ fStop = [t \in Threads |-> FALSE]
    /\ owner = [t \in Threads |-> "running"]
    /\ now = StartTime
    /\ sends = 0 /\ posts = 0
    /\ pushed = [t \in Threads |-> {}]
    /\ handled = [t \in Threads |-> <<>>]
    /\ cleared = {}

\* One operation of a kind is used up.
Charge(kind) == left[kind] > 0 /\ left' = [left EXCEPT ![kind] = @ - 1]

-----------------------------------------------------------------------------
(* Receiving the Sends of other threads, in Get and in Send.               *)

\* The thread whose Sends the running call takes: anyone's in Get, the callee's in Send.
\* Mutant: a thread in Send takes the calls of every thread.
Source_Any(t) == Threads

Source(t) == IF Top(t).call = "Get" THEN Threads ELSE {Top(t).to}

FromSource(t) == {i \in DOMAIN sendlist[t] : sendlist[t][i].from \in Source(t)}

Without(q, i) == SubSeq(q, 1, i - 1) \o SubSeq(q, i + 1, Len(q))

ReceiveSend(t) ==
    /\ Running(t) /\ Top(t).call \in {"Get", "Send"} /\ Top(t).at = "ReceiveSends"
    /\ FromSource(t) # {}
    /\ LET i == CHOOSE j \in FromSource(t) : \A k \in FromSource(t) : j <= k
           smsg == sendlist[t][i]
       IN  /\ sendlist' = [sendlist EXCEPT ![t] = Without(@, i)]
           /\ stack' = [stack EXCEPT ![t] = Append(@, OnMessageCall("Send", smsg.id, smsg.from))]
    /\ UNCHANGED <<msgq, dmsgq, ready, wake, fStop, owner, now, counters, history>>

ReceivedSends(t) ==
    /\ Running(t) /\ Top(t).call \in {"Get", "Send"} /\ Top(t).at = "ReceiveSends"
    /\ FromSource(t) = {}
    /\ stack' = [stack EXCEPT ![t] =
                   Goto(@, [Top(t) EXCEPT !.at = IF Top(t).call = "Get" THEN "Pull" ELSE "Wait"])]
    /\ UNCHANGED <<queues, ready, wake, fStop, owner, now, counters, history>>

\* The handler returns.  A sent message: its sender is told, under crit_.  A dispatched
\* one: ProcessMessages calls Get again.
\* Mutant: the sender is told, not woken.
OnMessageReturns_NoWakeUp(t) ==
    /\ InHandler(t)
    /\ ready' = IF Top(t).by = "Send" THEN ready \cup {Top(t).id} ELSE ready
    /\ stack' = [stack EXCEPT ![t] =
                   IF Top(t).by = "Dispatch" THEN Goto(Returned(@), NewGet) ELSE Returned(@)]
    /\ UNCHANGED <<queues, wake, fStop, owner, now, counters, history>>

OnMessageReturns(t) ==
    /\ InHandler(t)
    /\ IF Top(t).by = "Send"
       THEN /\ ready' = ready \cup {Top(t).id}
            /\ wake' = [wake EXCEPT ![Top(t).from] = TRUE]
       ELSE UNCHANGED <<ready, wake>>
    /\ stack' = [stack EXCEPT ![t] =
                   IF Top(t).by = "Dispatch" THEN Goto(Returned(@), NewGet) ELSE Returned(@)]
    /\ UNCHANGED <<queues, fStop, owner, now, counters, history>>

-----------------------------------------------------------------------------
(* Get.                                                                    *)

\* One pass of the inner loop: the first moves the delayed messages that are due; then
\* the first message, if any, is returned to ProcessMessages, which dispatches it.
Pull(t) ==
    /\ InCall(t, "Get", "Pull") \/ InCall(t, "Get", "PullNext")
    /\ LET f == Top(t)
           n == IF f.at = "Pull" THEN DueCount(dmsgq[t], f.msCurrent) ELSE 0
           rest == SubSeq(dmsgq[t], n + 1, Len(dmsgq[t]))
           q == msgq[t] \o [i \in 1 .. n |-> dmsgq[t][i].msg]
           delay == IF f.at = "PullNext" THEN f.delay
                    ELSE IF rest = <<>> THEN kForever
                    ELSE TimeDiff(rest[1].msTrigger, f.msCurrent)
       IN  /\ dmsgq' = [dmsgq EXCEPT ![t] = rest]
           /\ msgq' = [msgq EXCEPT ![t] = IF q = <<>> THEN q ELSE Tail(q)]
           /\ IF q = <<>> \/ Head(q).handler = MQID_DISPOSE
              THEN stack' = [stack EXCEPT ![t] =
                     Goto(@, GetCall(IF q = <<>> THEN "CheckStop" ELSE "PullNext",
                                     f.msCurrent, delay))]
              ELSE stack' = [stack EXCEPT ![t] = Append(@, OnMessageCall("Dispatch", NoSend, t))]
           /\ handled' = [handled EXCEPT ![t] = IF q = <<>> THEN @ ELSE Append(@, Head(q))]
    /\ UNCHANGED <<sendlist, ready, wake, fStop, owner, now, counters,
                   pushed, cleared>>

\* fStop_ is read without the lock.  Get returns false and the thread ends, or it waits.
CheckStop(t) ==
    /\ InCall(t, "Get", "CheckStop")
    /\ stack' = [stack EXCEPT ![t] =
          IF fStop[t] THEN <<>>
          ELSE LET f == Top(t)
               IN Goto(@, GetCall("Wait", f.msCurrent,
                                  IF f.delay = kForever THEN kForever ELSE now + f.delay))]
    /\ UNCHANGED <<queues, ready, wake, fStop, owner, now, counters, history>>

\* SocketServer::Wait: woken, which resets the event, or timed out.
GetWait(t) ==
    /\ InCall(t, "Get", "Wait")
    /\ wake[t] \/ (Top(t).delay # kForever /\ Top(t).delay <= now)
    /\ wake' = [wake EXCEPT ![t] = FALSE]
    /\ stack' = [stack EXCEPT ![t] = Goto(@, NewGet)]
    /\ UNCHANGED <<queues, ready, fStop, owner, now, counters, history>>

-----------------------------------------------------------------------------
(* Send.                                                                   *)

\* fStop_ of the callee is read without its lock.
Send(t, u, h) ==
    /\ InHandler(t) /\ Charge("sends")
    /\ ~fStop[u]
    /\ u = t \/ <<t, u>> \in CanSend
    /\ sends' = sends + 1
    /\ stack' = [stack EXCEPT ![t] =
          Append(@, IF u = t THEN OnMessageCall("Direct", NoSend, t)
                             ELSE SendCall("Push", u, sends + 1, h, FALSE))]
    /\ UNCHANGED <<queues, ready, wake, fStop, owner, now, posts, history>>

SendPush(t) ==
    /\ InCall(t, "Send", "Push")
    /\ sendlist' = [sendlist EXCEPT ![Top(t).to] =
          Append(@, [id |-> Top(t).id, from |-> t, handler |-> Top(t).handler])]
    /\ stack' = [stack EXCEPT ![t] = Goto(@, [Top(t) EXCEPT !.at = "WakeUp"])]
    /\ UNCHANGED <<msgq, dmsgq, ready, wake, fStop, owner, now, counters, history>>

SendWakeUp(t) ==
    /\ InCall(t, "Send", "WakeUp")
    /\ wake' = [wake EXCEPT ![Top(t).to] = TRUE]
    /\ stack' = [stack EXCEPT ![t] = Goto(@, [Top(t) EXCEPT !.at = "Test"])]
    /\ UNCHANGED <<queues, ready, fStop, owner, now, counters, history>>

\* Mutant: the wakeups that Send consumed are not given back.
SendTest_NoWakeUp(t) ==
    /\ InCall(t, "Send", "Test")
    /\ stack' = [stack EXCEPT ![t] = IF Top(t).id \in ready THEN Returned(@)
                                     ELSE Goto(@, [Top(t) EXCEPT !.at = "ReceiveSends"])]
    /\ UNCHANGED <<queues, ready, wake, fStop, owner, now, counters, history>>

\* |ready| is tested under the callee's lock.  A Send that waited wakes its own thread
\* before it returns: it may have used up wakeups meant for a call further down.
SendTest(t) ==
    /\ InCall(t, "Send", "Test")
    /\ IF Top(t).id \in ready
       THEN /\ stack' = [stack EXCEPT ![t] = Returned(@)]
            /\ wake' = [wake EXCEPT ![t] = @ \/ Top(t).waited]
       ELSE /\ stack' = [stack EXCEPT ![t] = Goto(@, [Top(t) EXCEPT !.at = "ReceiveSends"])]
            /\ UNCHANGED wake
    /\ UNCHANGED <<queues, ready, fStop, owner, now, counters, history>>

SendWait(t) ==
    /\ InCall(t, "Send", "Wait")
    /\ wake[t]
    /\ wake' = [wake EXCEPT ![t] = FALSE]
    /\ stack' = [stack EXCEPT ![t] = Goto(@, [Top(t) EXCEPT !.at = "Test", !.waited = TRUE])]
    /\ UNCHANGED <<queues, ready, fStop, owner, now, counters, history>>

-----------------------------------------------------------------------------
(* Post, PostDelayed, Dispose and Clear.                                   *)

\* Post and DoDelayPost read fStop_ without the lock; PostDelayed has already added the
\* delay to the clock.
Post(t, u, h) ==
    /\ InHandler(t)
    /\ <<t, u>> \in CanPost
    /\ ~fStop[u]
    /\ \E d \in Delays \cup {kForever} :
        /\ IF d = kForever THEN Charge("posts") ELSE Charge("delayed") /\ h # MQID_DISPOSE
        /\ stack' = [stack EXCEPT ![t] = Append(@,
             LET due == IF d = kForever THEN now ELSE now + d
             IN  PostCall(u, [id |-> 0, handler |-> h, due |-> due, delayed |-> d # kForever]))]
    /\ UNCHANGED <<queues, ready, wake, fStop, owner, now, sends, posts, history>>

\* Mutant: the message is put at the front.
PushMessage_AtFront(t) ==
    /\ Running(t) /\ Top(t).call = "Post"
    /\ LET u == Top(t).to
           msg == [Top(t).msg EXCEPT !.id = posts + 1]
       IN  /\ pushed' = [pushed EXCEPT ![u] = @ \cup {msg}]
           /\ IF msg.delayed
              THEN /\ dmsgq' = [dmsgq EXCEPT ![u] = PushDelayed(@,
                          [msTrigger |-> msg.due % TimeMod, num |-> msg.id, msg |-> msg])]
                   /\ UNCHANGED msgq
              ELSE /\ msgq' = [msgq EXCEPT ![u] = <<msg>> \o @]
                   /\ UNCHANGED dmsgq
    /\ posts' = posts + 1
    /\ stack' = [stack EXCEPT ![t] = Returned(@)]
    /\ UNCHANGED <<sendlist, ready, fStop, owner, now, left, sends,
                   handled, cleared>>

\* Under crit_: the message is queued, the next one of its queue, and the thread woken.
PushMessage(t) ==
    /\ Running(t) /\ Top(t).call = "Post"
    /\ LET u == Top(t).to
           msg == [Top(t).msg EXCEPT !.id = posts + 1]
       IN  /\ pushed' = [pushed EXCEPT ![u] = @ \cup {msg}]
           /\ IF msg.delayed
              THEN /\ dmsgq' = [dmsgq EXCEPT ![u] = PushDelayed(@,
                          [msTrigger |-> msg.due % TimeMod, num |-> msg.id, msg |-> msg])]
                   /\ UNCHANGED msgq
              ELSE /\ msgq' = [msgq EXCEPT ![u] = Append(@, msg)]
                   /\ UNCHANGED dmsgq
    /\ posts' = posts + 1
    /\ stack' = [stack EXCEPT ![t] = Returned(@)]
    /\ UNCHANGED <<sendlist, ready, fStop, owner, now, left, sends,
                   handled, cleared>>

\* Mutant: a delayed message does not wake the thread.
PostPush_DelayedAsleep(t) ==
    /\ PushMessage(t)
    /\ wake' = [wake EXCEPT ![Top(t).to] = @ \/ ~Top(t).msg.delayed]

PostPush(t) ==
    /\ PushMessage(t)
    /\ wake' = [wake EXCEPT ![Top(t).to] = TRUE]

\* The numbers in S, in their order.
Ordered(S) ==
    LET n == Cardinality(S)
    IN  CHOOSE f \in [1 .. n -> S] : /\ \A i, j \in 1 .. n : i < j => f[i] < f[j]
                                     /\ \A k \in S : \E i \in 1 .. n : f[i] = k

\* The elements of q at the positions in S, in their order.
Kept(q, S) == [i \in 1 .. Cardinality(S) |-> q[Ordered(S)[i]]]

\* Clear(handler): Thread::Clear answers the Sends, MessageQueue::Clear drops the rest.
\* H is the set of handlers that match; a NULL argument matches all.
\* Mutant: the senders of the removed messages are not told.
ClearSends_Unanswered(u, H) ==
    /\ sendlist' = [sendlist EXCEPT ![u] =
                      Kept(@, {i \in DOMAIN @ : @[i].handler \notin H})]
    /\ UNCHANGED <<ready, wake>>

ClearSends(u, H) ==
    LET gone == {i \in DOMAIN sendlist[u] : sendlist[u][i].handler \in H}
    IN  /\ sendlist' = [sendlist EXCEPT ![u] = Kept(@, DOMAIN @ \ gone)]
        /\ ready' = ready \cup {sendlist[u][i].id : i \in gone}
        /\ wake' = [t \in Threads |-> wake[t] \/ \E i \in gone : sendlist[u][i].from = t]

\* Mutant: delayed messages stay.
ClearPosts_KeepsDelayed(u, H) ==
    /\ msgq' = [msgq EXCEPT ![u] = Kept(@, {i \in DOMAIN @ : @[i].handler \notin H})]
    /\ UNCHANGED dmsgq

ClearPosts(u, H) ==
    /\ msgq' = [msgq EXCEPT ![u] = Kept(@, {i \in DOMAIN @ : @[i].handler \notin H})]
    /\ dmsgq' = [dmsgq EXCEPT ![u] = Kept(@, {i \in DOMAIN @ : @[i].msg.handler \notin H})]

Clear(u, H) == ClearSends(u, H) /\ ClearPosts(u, H)

ToSet(q) == {q[i] : i \in DOMAIN q}

\* A handler clears the queue of its own or of another thread.
ClearHandler(t, u, h) ==
    /\ InHandler(t) /\ Charge("clears")
    /\ owner[u] # "destroyed"
    /\ Clear(u, {h})
    /\ cleared' = IF u = t
                  THEN cleared \cup {m.id : m \in {p \in pushed[t] \ ToSet(handled[t]) : p.handler = h}}
                  ELSE cleared
    /\ UNCHANGED <<stack, fStop, owner, now, sends, posts, pushed, handled>>

-----------------------------------------------------------------------------
(* ~Thread, called by the owner: Stop, which is Quit and Join, and Clear.  *)

Quit(t) ==
    /\ t \in Quitting /\ owner[t] = "running" /\ Charge("quits")
    /\ fStop' = [fStop EXCEPT ![t] = TRUE]
    /\ owner' = [owner EXCEPT ![t] = "quit"]
    /\ UNCHANGED <<stack, queues, ready, wake, now, sends, posts, history>>

QuitWakeUp(t) ==
    /\ owner[t] = "quit"
    /\ wake' = [wake EXCEPT ![t] = TRUE]
    /\ owner' = [owner EXCEPT ![t] = "joining"]
    /\ UNCHANGED <<stack, queues, ready, fStop, now, counters, history>>

\* The caller answers for it that nobody is about to enter a queue that is destroyed.
Unused(t) ==
    \A u \in Threads : Running(u) =>
        ~(Top(u).call \in {"Send", "Post"} /\ Top(u).to = t
            /\ (Top(u).call = "Send" => Top(u).at \in {"Push", "WakeUp"}))

JoinAndClear(t) ==
    /\ owner[t] = "joining"
    /\ ~Running(t)
    /\ Unused(t)
    /\ Clear(t, Handlers \cup {MQID_DISPOSE, "app"})
    /\ owner' = [owner EXCEPT ![t] = "destroyed"]
    /\ UNCHANGED <<stack, fStop, now, counters, history>>

\* The clock runs on while someone waits for it.
Tick ==
    /\ \/ Charge("ticks")
       \/ /\ left.ticks = 0 /\ UNCHANGED left
          /\ \E t \in Threads : InCall(t, "Get", "Wait") /\ Top(t).delay > now
    /\ now' = now + 1
    /\ UNCHANGED <<stack, queues, ready, wake, fStop, owner, sends, posts, history>>

\* The steps a running thread takes by itself.
Step(t) ==
    \/ ReceiveSend(t)
    \/ ReceivedSends(t)
    \/ OnMessageReturns(t)
    \/ Pull(t)
    \/ CheckStop(t)
    \/ GetWait(t)
    \/ SendPush(t)
    \/ SendWakeUp(t)
    \/ SendTest(t)
    \/ SendWait(t)
    \/ PostPush(t)

Next ==
    \/ \E t \in Threads : Step(t)
    \/ \E t, u \in Threads, h \in Handlers : Send(t, u, h)
    \/ \E t, u \in Threads, h \in Handlers \cup {MQID_DISPOSE} : Post(t, u, h)
    \/ \E t, u \in Threads, h \in Handlers : ClearHandler(t, u, h)
    \/ \E t \in Threads : Quit(t)
    \/ \E t \in Threads : QuitWakeUp(t)
    \/ \E t \in Threads : JoinAndClear(t)
    \/ Tick

Spec == Init /\ [][Next]_vars

\* What is not left to the application: threads run, handlers return, the owner who began
\* to stop a thread finishes, time passes.
Progress ==
    \/ \E t \in Threads : Step(t) \/ QuitWakeUp(t) \/ JoinAndClear(t)
    \/ Tick

\* As long as some of it can happen, some of it does: all threads sleep only when none
\* has anything to do.  Fairness to each thread is not needed, as none can run for ever.
FairSpec == Spec /\ WF_vars(Progress)

-----------------------------------------------------------------------------
Calls(t) == {stack[t][i] : i \in DOMAIN stack[t]}
SendsOf(t) == {f \in Calls(t) : f.call = "Send"}

\* Every variable has the values the code can give it.
ThreadsTypeOK ==
    /\ \A t \in Threads : \A f \in Calls(t) :
        f.call \in {"Get", "Send", "OnMessage", "Post"} /\ (f.call = "Send" => f.id \in 1 .. sends)
    /\ ready \subseteq 1 .. sends
    /\ wake \in [Threads -> BOOLEAN] /\ fStop \in [Threads -> BOOLEAN]
    /\ owner \in [Threads -> {"running", "quit", "joining", "destroyed"}]
    /\ now >= StartTime

\* u's Send to t has put its message in the list and not yet signalled t.
AboutToWake(u, t, id) ==
    \E f \in SendsOf(u) : f.to = t /\ f.id = id /\ f.at = "WakeUp"

\* A thread does not sleep on work (Get, Send): one that waits with its event not set has
\* an empty queue, a timer if it has delayed messages, nothing to receive, no answer it has
\* not seen and no unseen Quit -- or somebody is about to signal it.
NoLostWakeup ==
    \A t \in Threads :
        /\ InCall(t, "Get", "Wait") /\ ~wake[t] =>
             /\ msgq[t] = <<>>
             /\ dmsgq[t] # <<>> => Top(t).delay # kForever
             /\ \A s \in ToSet(sendlist[t]) : AboutToWake(s.from, t, s.id)
             /\ fStop[t] => owner[t] = "quit"
        /\ InCall(t, "Send", "Wait") /\ ~wake[t] =>
             /\ Top(t).id \notin ready
             /\ \A s \in ToSet(sendlist[t]) : s.from = Top(t).to => AboutToWake(s.from, t, s.id)

\* A Send that has no answer yet is held in exactly one place (Send, ReceiveSendsFromThread,
\* Clear): the callee's list or a handler the callee runs.
UnansweredIsHeld ==
    \A t \in Threads : \A f \in SendsOf(t) :
        LET listed == {i \in DOMAIN sendlist[f.to] : sendlist[f.to][i].id = f.id}
            run == {i \in DOMAIN stack[f.to] : stack[f.to][i].call = "OnMessage"
                                              /\ stack[f.to][i].by = "Send" /\ stack[f.to][i].id = f.id}
        IN  IF f.at = "Push" \/ f.id \in ready
            THEN listed = {} /\ run = {}
            ELSE (listed = {} /\ \E i \in run : run = {i}) \/ (run = {} /\ \E i \in listed : listed = {i})

\* While a thread is in Send only the thread it called may call in (the test
\* ThreeThreadsInvoke): in the stack the call above a Send is one of its callee.
CallsInAreFromCallee ==
    \A t \in Threads : \A i \in 1 .. Len(stack[t]) - 1 :
        stack[t][i].call = "Send" =>
            stack[t][i + 1].by = "Send" /\ stack[t][i + 1].from = stack[t][i].to

\* m is due before n or with it, and the clock does not run over between the two.
DueFirst(m, n) == m.due <= n.due /\ m.due % TimeMod <= n.due % TimeMod

\* Posted messages are dispatched in the order they were queued, and delayed ones that were
\* queued first and are due first before the others (Post, DelayedMessage::operator<), but
\* for those that the wrap of the clock lies between.
DispatchedInOrder ==
    \A t \in Threads : \A i, j \in DOMAIN handled[t] :
        LET m == handled[t][i]
            n == handled[t][j]
        IN  (m.id < n.id /\ (m.delayed => DueFirst(m, n)) /\ {m, n} \cap pushed[t] = {m, n}
                /\ (m.delayed <=> n.delayed)) => i < j

\* No delayed message is dispatched before it is due (Get, TimeIsLater), also when the
\* timestamps have wrapped between its posting and its time.
DelayedIsNotEarly ==
    \A t \in Threads : \A i \in DOMAIN handled[t] :
        handled[t][i].delayed => handled[t][i].due <= now

\* What a thread has removed from its own queue is not dispatched any more (Clear):
\* its handler may be gone.
ClearedIsGone ==
    \A t \in Threads : \A i \in DOMAIN handled[t] : handled[t][i].id \notin cleared

\* Nobody waits for ever: every Send returns (TwoThreadsInvokeNoDeadlock), whatever the
\* threads call meanwhile and even if the callee ends, and so does the Join of a thread
\* that has been told to stop.
WaitsEnd ==
    /\ (\E t \in Threads : SendsOf(t) # {}) ~> (\A t \in Threads : SendsOf(t) = {})
    /\ \A t \in Quitting : fStop[t] ~> owner[t] = "destroyed"

\* What is queued is served: no message stays in msgq_ or dmsgq_ of a thread that is not
\* told to stop (Get, Post, DoDelayPost), whoever posted it and however long it is delayed.
QueuedIsServed ==
    \A t \in Threads :
        (msgq[t] # <<>> \/ dmsgq[t] # <<>>) ~> ((msgq[t] = <<>> /\ dmsgq[t] = <<>>) \/ fStop[t])
=============================================================================
