------------------------------ MODULE MCQueue -------------------------------
(* Instances of QueueState for TLC. *)
EXTENDS QueueRefinement, TLC

CONSTANTS q1, q2, f1, f2, s1, s2, t1, c1, c2

Info(s, p) == [semaphore |-> s, payload |-> p]
B(waits, signals, cbs, f) ==
    [wait_semaphores |-> waits, signal_semaphores |-> signals, cbs |-> cbs, fence |-> f, seq |-> 0]

\* Ping-pong over two binary semaphores: q1 signals s1, q2 waits for it and signals
\* s2, q1 waits for s2.
BinaryCalls ==
    [q \in Queue |->
        IF q = q1
        THEN {<<B(<< >>, <<Info(s1, 0)>>, {c1}, f1)>>,
              <<B(<<Info(s2, 0)>>, << >>, {c1}, NoFence)>>}
        ELSE {<<B(<<Info(s1, 0)>>, <<Info(s2, 0)>>, {c2}, f2)>>}]

\* q1 signals t1 with a fence, then s1; q2 waits for s1, then for t1.
CrossedCalls ==
    [q \in Queue |->
        IF q = q1 THEN {<<B(<< >>, <<Info(t1, 1)>>, {}, f1)>>, <<B(<< >>, <<Info(s1, 0)>>, {}, NoFence)>>}
                  ELSE {<<B(<<Info(s1, 0)>>, << >>, {}, NoFence)>>, <<B(<<Info(t1, 1)>>, << >>, {}, NoFence)>>}]

\* One queue: one call with two batches that signal increasing values, and work
\* that signals nothing.
CounterCalls ==
    [q \in Queue |-> {<<B(<< >>, <<Info(t1, 1)>>, {c1}, NoFence), B(<< >>, <<Info(t1, 2)>>, {c1}, NoFence)>>,
                     <<B(<< >>, << >>, {c2}, NoFence)>>}]

\* The device waits for value 1 of the host and answers with value 2 and a fence.
HandshakeCalls == [q \in Queue |-> {<<B(<<Info(t1, 1)>>, <<Info(t1, 2)>>, {c1}, f1)>>, <<B(<< >>, << >>, {c1}, f1)>>}]

\* One queue, work with a fence.
FencedCalls == [q \in Queue |-> {<<B(<< >>, << >>, {c1}, f1)>>}]

\* Acquire, render, present: wait for the acquired image, signal, wait for the signal.
PresentCalls ==
    [q \in Queue |-> {<<B(<<Info(s1, 0)>>, <<Info(s2, 0)>>, {c1}, f1)>>, <<B(<<Info(s2, 0)>>, << >>, {}, NoFence)>>}]
=============================================================================
