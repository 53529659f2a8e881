----------------------------- MODULE QueueProps -----------------------------
(***************************************************************************)
(* What the queue, fence and semaphore tracking of QueueState has to get    *)
(* right.                                                                   *)
(***************************************************************************)
EXTENDS QueueState, FiniteSetsExt

\* How far the thread of q has come, as the number of the last submission that
\* was popped, had its uses ended, and had its command buffers retired.
InThread(q)   == tpc[q] \in {"enduse", "waits", "cbs", "signals", "fence", "complete"}
Popped(q)     == IF InThread(q) THEN tcur[q].seq ELSE done_[q]
EndUsed(q)    == IF InThread(q) /\ tpc[q] # "enduse" THEN tcur[q].seq ELSE done_[q]
CbsRetired(q) == IF tpc[q] \in {"signals", "fence", "complete"} THEN tcur[q].seq ELSE done_[q]

\* Batch n of queue q, as the driver accepted it.
Batches == {x \in Queue \X (1..MaxSeq) : x[2] <= Len(issued[x[1]])}
Batch(x) == issued[x[1]][x[2]]

\* Signal v is the one that lets wait w proceed on the device.
Releases(v, w) ==
    /\ v.semaphore = w.semaphore
    /\ IF v.semaphore \in BinarySem
       THEN v.payload = w.payload - 1
       ELSE /\ v.payload >= w.payload
            /\ \A x \in Batches : \A u \in Elements(Batch(x).signal_semaphores) :
                  u.semaphore = v.semaphore /\ u.payload >= w.payload => v.payload <= u.payload

\* A queue's state never runs ahead of the device: a submission is popped for
\* retirement only if the device has completed it.
NeverAhead == \A q \in Queue : Popped(q) <= executed[q]

\* FENCE_STATE::Retire() comes last: a fence is RETIRED by its submission only after
\* the command buffers of that submission, and everything before it on the queue.
FenceRetiredLast ==
    \A f \in Fence : fence[f].state = "FENCE_RETIRED" /\ fence[f].queue # NoQueue =>
        /\ CbsRetired(fence[f].queue) >= fence[f].seq
        /\ done_[fence[f].queue] >= fence[f].seq - 1

\* What ValidateFenceForSubmit reads is the truth: outside a submit call, an
\* internally tracked fence is UNSIGNALED exactly when the real one is unsignaled.
FenceVerdictExact ==
    \A f \in Fence : FenceFree(f) /\ fence[f].scope = "kSyncScopeInternal" =>
        (fence[f].state = "FENCE_UNSIGNALED" <=> vk_fence[f].st = "unsignaled")

\* What binary semaphore validation reads is the truth: outside a submit call,
\* CanBeWaited() and CanBeSignaled() tell whether the last operation was a signal,
\* whatever the queue threads have retired meanwhile.
SemaphoreVerdictExact ==
    (\A h \in Host : hpc[h] \notin SubmitPc) =>
        \A s \in BinarySem : /\ CanBeWaited(sem[s])   <=> app_sem[s] % 2 = 1
                             /\ CanBeSignaled(sem[s]) <=> app_sem[s] % 2 = 0

\* in_use_ counts exactly the references of the submissions in use, those from
\* BeginUse() in Submit() to EndUse() in ThreadFunc().
InUse == {x \in Batches : EndUsed(x[1]) < x[2] /\ x[2] <= seq_[x[1]]}
InUseExact ==
    \A o \in Object : in_use[o] = SumFunctionOnSet([x \in Batches |-> References(Batch(x), o)], InUse)

\* "make sure completed doesn't go backwards for timeline semaphores": the assertion
\* of SEMAPHORE_STATE::Retire(), for every pending entry.
CompletedForward ==
    [][\A s \in Sem : sem[s].completed.payload <= sem'[s].completed.payload]_vars

\* No wakeup is lost: a queue thread does not sleep on a submission it was told has
\* finished.
NoLostWakeup == \A q \in Queue : tpc[q] = "asleep" => NothingToRetire(q)

\* The assertion of QUEUE_STATE::Wait(): the sequence number it is asked for is that
\* of a submission still in the deque.
WaitInDeque ==
    \A h \in Host : hpc[h] = "qwait" /\ ~AlreadyDone(call[h].queue, call[h].until) =>
        call[h].until - Head(submissions_[call[h].queue]).seq < Len(submissions_[call[h].queue])

\* completed_.set_value() is called at most once per promise (a second call throws).
PromiseOnce == \A f \in Fence : fence[f].completed <= 1

\* "Tell the queue and then wait for it to finish updating its state": when
\* QUEUE_STATE::NotifyAndWait() returns, every submission it asked for is retired.
IdleMeansRetired ==
    [][\A h \in Host : hpc[h] \in {"qwait", "qblock"} /\ hpc'[h] \notin {"qwait", "qblock"} =>
          done_[call[h].queue] >= call[h].until]_vars

\* When a host wait on a timeline value returns, the command buffers of every batch
\* that signals at most that value are retired.
SemaphoreWaitMeansRetired ==
    [][\A h \in Host : hpc[h] = "sblock" /\ hpc'[h] = "idle" =>
          \A x \in Batches : \A v \in Elements(Batch(x).signal_semaphores) :
              v.semaphore = frame[h].semaphore /\ v.payload <= frame[h].payload =>
                  x[2] <= CbsRetired(x[1])]_vars

\* "Hitting it is almost a certainly a bug in this code": no host wait, and no join of
\* a queue thread, runs into the timeout - each one ends once it has begun.
HostWaitsEnd ==
    \A h \in Host : hpc[h] \in {"qblock", "fblock", "sblock", "sretire", "qjoin"} ~> hpc[h] = "idle"

-----------------------------------------------------------------------------
(* Strengthenings: the inductive parts the proofs rest on.                   *)

\* Every number a pending semaphore operation carries was handed out by its queue.
PendingNumbered ==
    \A s \in Sem : \A op \in Pending(sem[s]) : op.queue # NoQueue => op.seq <= seq_[op.queue]

\* External synchronisation, as the calls carry it: no two host threads are in calls
\* about the same queue, and only calls about queues name one.
Claims(c, q) == q = c.queue \/ q \in c.todo
QueueExclusive ==
    /\ \A h \in Host : hpc[h] \notin QueuePc => call[h].queue = NoQueue /\ call[h].todo = {}
    /\ \A h \in Host : call[h].queue \notin call[h].todo
    /\ \A g \in Host, h \in Host : g # h => \A q \in Queue : ~(Claims(call[g], q) /\ Claims(call[h], q))

\* A host thread holds a numbered submission of q that is not in the deque yet.
PushPc     == {"enqueue", "push"}
Pushing(q) == \E h \in Host : hpc[h] \in PushPc /\ call[h].queue = q

\* Without a gap, every number of q belongs to a retired submission, the one in the
\* thread, one in the deque, or the one a host thread is about to push.
Numbering ==
    /\ \A q \in Queue : InThread(q) => tcur[q].seq = done_[q] + 1
    /\ \A q \in Queue : Popped(q) + Len(submissions_[q]) + (IF Pushing(q) THEN 1 ELSE 0) = seq_[q]
    /\ \A q \in Queue : \A i \in 1..Len(submissions_[q]) : submissions_[q][i].seq = Popped(q) + i
    /\ \A h \in Host : hpc[h] \in PushPc => call[h].sub.seq = seq_[call[h].queue]

\* The number a call waits for, or will wait for, was handed out.
UntilOK(pc, c) ==
    /\ pc \in {"qwait", "qblock"} => c.until <= seq_[c.queue]
    /\ pc = "qnotify" => c.until = AllSeq \/ c.until <= seq_[c.queue]
    /\ pc \in SubmitPc => c.early <= seq_[c.queue]
UntilBounded == \A h \in Host : UntilOK(hpc[h], call[h])

\* A host thread runs SEMAPHORE_STATE::Retire() only from RetireTimeline().
HostRetires == \A h \in Host : rpc[h] # "idle" => hpc[h] = "sretire"

QueueInv == PendingNumbered /\ QueueExclusive /\ Numbering /\ UntilBounded /\ HostRetires

\* Submissions of a queue are retired exactly once and in the order of their numbers.
RetiredInOrder == [][\A q \in Queue : done_'[q] \in {done_[q], done_[q] + 1}]_vars
=============================================================================
