--------------------------- MODULE QueueRefinement --------------------------
(***************************************************************************)
(* QueueState implements Retirement: a batch counts as retired when the     *)
(* queue thread has retired its command buffers, and as asked for when      *)
(* request_seq_ covers it.                                                  *)
(***************************************************************************)
EXTENDS QueueProps

\* Batch x waits for a semaphore that batch y signals.
WaitsFor(x, y) ==
    \E w \in Elements(Batch(x).wait_semaphores) : \E v \in Elements(Batch(y).signal_semaphores) : Releases(v, w)

\* Which batch waits for which.
Needs == {pair \in Batches \X Batches : WaitsFor(pair[1], pair[2])}

Abstract == INSTANCE Retirement WITH
    Queue    <- Queue,
    accepted <- [q \in Queue |-> Len(issued[q])],
    finished <- executed,
    asked    <- request_seq_,
    retired  <- [q \in Queue |-> CbsRetired(q)],
    needs    <- Needs

\* Its safety part, for the runs that state no fairness.
RefinesRetirement == Abstract!Init /\ [][Abstract!Next]_(Abstract!vars)

\* The detailed specification implements the abstract one: through every interleaving
\* of submissions, requests, queue threads and semaphore locks, request_seq_ only asks
\* for what the device has finished, and ThreadFunc() retires what was asked for, in
\* order, after what it waited for (SEMAPHORE_STATE::Retire() "ensures that all queues
\* update their state in the order that operations completed on the GPU"), and without
\* getting stuck.
ImplementsRetirement == Abstract!Spec
=============================================================================
