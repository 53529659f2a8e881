------------------------------ MODULE Retirement ----------------------------
(***************************************************************************)
(* What the queue tracking promises, without threads, locks, deques or      *)
(* semaphores: batches are accepted by a queue in order, finished by the    *)
(* device, asked for by a host call that has seen them finished, and then   *)
(* retired: one at a time, in the order of the queue, never one the device  *)
(* still runs, and never before a batch they had to wait for.               *)
(***************************************************************************)
EXTENDS Naturals

CONSTANT Queue

VARIABLES accepted,   \* batches the queue has accepted
          finished,   \* how many of them the device has finished
          asked,      \* how many of them somebody has asked to be retired
          retired,    \* how many of them are retired
          needs       \* pairs of batches: the first waits for the second

vars == <<accepted, finished, asked, retired, needs>>

\* Batch <<q, n>> is behind a counter.
Reached(b, counter) == b[2] <= counter[b[1]]

\* Everything batch b waits for is behind the counter.
Ready(b, counter) == \A pair \in needs : pair[1] = b => Reached(pair[2], counter)

Init ==
    /\ accepted = [q \in Queue |-> 0]
    /\ finished = [q \in Queue |-> 0]
    /\ asked    = [q \in Queue |-> 0]
    /\ retired  = [q \in Queue |-> 0]
    /\ needs    = {}

\* A queue accepts its next batch, which may wait for others or be waited for.
Accept(q) ==
    /\ accepted' = [accepted EXCEPT ![q] = @ + 1]
    /\ needs \subseteq needs'
    /\ \A pair \in needs' \ needs : <<q, accepted'[q]>> \in {pair[1], pair[2]}
    /\ UNCHANGED <<finished, asked, retired>>

\* The device finishes the next batch of a queue.
Finish(q) ==
    /\ finished[q] < accepted[q]
    /\ Ready(<<q, finished[q] + 1>>, finished)
    /\ finished' = [finished EXCEPT ![q] = @ + 1]
    /\ UNCHANGED <<accepted, asked, retired, needs>>

\* Finished batches of some queues are asked for; a request is never withdrawn.
Ask ==
    /\ asked' # asked
    /\ DOMAIN asked' = Queue
    /\ \A q \in Queue : asked'[q] \in asked[q]..finished[q]
    /\ UNCHANGED <<accepted, finished, retired, needs>>

CanRetire(q) == retired[q] < asked[q] /\ Ready(<<q, retired[q] + 1>>, retired)

\* The next batch of a queue is retired.
Retire(q) ==
    /\ CanRetire(q)
    /\ retired' = [retired EXCEPT ![q] = @ + 1]
    /\ UNCHANGED <<accepted, finished, asked, needs>>

Next == Ask \/ \E q \in Queue : Accept(q) \/ Finish(q) \/ Retire(q)

\* A request is served: weak fairness of Retire(q), written with its guard in place of
\* ENABLED so that it can be evaluated under a refinement mapping.
Served(q) == []<>~CanRetire(q) \/ []<><<Retire(q)>>_vars

Spec == Init /\ [][Next]_vars /\ \A q \in Queue : Served(q)
=============================================================================
