------------------------------ MODULE MCThreads ------------------------------
(* Instances of Threads: who calls whom, and how much.  A cycle of three or *)
(* more blocking calls would wait for ever, and nothing in the code         *)
(* prevents one.                                                            *)
EXTENDS Threads

\* Two threads call each other, a third calls one of them.
Topology == {<<"a", "b">>, <<"b", "a">>, <<"c", "a">>}

\* The third posts nothing and is posted nothing.
Posting == {"a", "b"} \X {"a", "b"}

Idle == [start |-> {"a", "b"}, sends |-> 0, posts |-> 0, delayed |-> 0,
         clears |-> 0, quits |-> 0, ticks |-> 0]

Mixed ==
    { [Idle EXCEPT !.sends = 3],                          \* calls within calls
      [Idle EXCEPT !.start = Threads, !.sends = 2],       \* a third thread calls in
      [Idle EXCEPT !.sends = 2, !.quits = 1],             \* the callee ends
      [Idle EXCEPT !.start = {"a"}, !.sends = 2, !.posts = 1],
      [Idle EXCEPT !.start = {"a"}, !.sends = 1, !.posts = 1, !.clears = 1],
      [Idle EXCEPT !.start = {"a"}, !.sends = 1, !.delayed = 1, !.ticks = 1],
      [Idle EXCEPT !.posts = 3],                          \* two threads post to one queue
      [Idle EXCEPT !.posts = 2, !.quits = 1],
      [Idle EXCEPT !.posts = 2, !.clears = 1],
      [Idle EXCEPT !.start = {"a"}, !.delayed = 2, !.ticks = 2],   \* timers over the wrap
      [Idle EXCEPT !.start = {"a"}, !.delayed = 2, !.clears = 1, !.ticks = 1],
      [Idle EXCEPT !.start = {"a"}, !.posts = 1, !.delayed = 1, !.ticks = 1],
      [Idle EXCEPT !.delayed = 1, !.quits = 1] }
=============================================================================
