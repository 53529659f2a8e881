------------------------------ MODULE FenceInv ------------------------------
(***************************************************************************)
(* The inductive invariants behind the fence properties of QueueProps:      *)
(* which fences a call under way has still to record, and which submissions *)
(* a fence in flight can belong to.                                         *)
(***************************************************************************)
EXTENDS QueueProps

\* The driver has accepted batch i of the call of h, with fence f, and the layer's fence
\* does not know yet.
Untold(h, i, f) ==
    /\ hpc[h] \in SubmitPc /\ i \in DOMAIN call[h].batches
    /\ hpc[h] = "driver" => i <= call[h].idx
    /\ hpc[h] = "push" => i > 1
    /\ f = call[h].batches[i].fence

\* The submission a call works on is its first batch.
SubIsFirst == \A h \in Host : hpc[h] \in {"seq", "enqueue", "push"} => call[h].sub.fence = call[h].batches[1].fence

\* A fence is untold of by one batch only, which has not signaled it for the layer.
UntoldOnce ==
    \A f \in Fence : \A g, h \in Host : \A i \in DOMAIN call[g].batches, j \in DOMAIN call[h].batches :
        Untold(g, i, f) /\ Untold(h, j, f) => g = h /\ i = j
UntoldUsed ==
    \A f \in Fence, h \in Host : \A i \in DOMAIN call[h].batches : Untold(h, i, f) =>
        /\ vk_fence[f].st \in {"pending", "signaled"}
        /\ fence[f].scope = "kSyncScopeInternal" => fence[f].state = "FENCE_UNSIGNALED"

\* The two directions of FenceVerdictExact, with the calls under way.
Unsignaled ==
    \A f \in Fence : fence[f].scope = "kSyncScopeInternal" /\ vk_fence[f].st = "unsignaled" =>
        fence[f].state = "FENCE_UNSIGNALED"
Signaled ==
    \A f \in Fence :
        fence[f].scope = "kSyncScopeInternal" /\ fence[f].state = "FENCE_UNSIGNALED" /\ vk_fence[f].st # "unsignaled" =>
            \E h \in Host : \E i \in DOMAIN call[h].batches : Untold(h, i, f)

FenceTruth == SubIsFirst /\ UntoldOnce /\ UntoldUsed /\ Unsignaled /\ Signaled

\* A promise that may still be satisfied has not been.
Promised(r) ==
    /\ r.completed <= 1
    /\ r.state = "FENCE_INFLIGHT" => r.completed = 0
    /\ r.scope = "kSyncScopeInternal" /\ r.state = "FENCE_UNSIGNALED" => r.completed = 0
Promises == \A f \in Fence : Promised(fence[f])

-----------------------------------------------------------------------------
(* Without imports and exports, every fence is tracked.                      *)

Tracked == \A f \in Fence : fence[f].scope = "kSyncScopeInternal"

\* Somebody waits for a fence in flight that the application has seen signaled.
SeenIsAwaited ==
    \A f \in Fence : fence[f].state = "FENCE_INFLIGHT" /\ vk_fence[f].st = "observed" =>
        \E h \in Host : hpc[h] = "fblock" /\ call[h].fence = f

\* The submissions of q that have still to retire fence f: the thread has them, or will.
Owes(q, f) ==
       {sub.seq : sub \in {x \in Elements(submissions_[q]) : x.fence = f}}
    \cup {sub.seq : sub \in {x \in {tcur[q]} : InThread(q) /\ tpc[q] # "complete" /\ x.fence = f}}
    \cup {call[h].sub.seq : h \in {g \in Host : hpc[g] = "push" /\ call[g].queue = q /\ call[g].sub.fence = f}}

\* There is one at most: the one the fence is in flight for.
InFlightFor(r, q, n) == r.state = "FENCE_INFLIGHT" /\ r.queue = q /\ r.seq = n
Outstanding == \A q \in Queue, f \in Fence : \A n \in Owes(q, f) : InFlightFor(fence[f], q, n)

FenceOrder == Tracked /\ SeenIsAwaited /\ Outstanding /\ FenceRetiredLast
=============================================================================
