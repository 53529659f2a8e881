---------------------------- MODULE RetirementInv ---------------------------
(***************************************************************************)
(* The inductive invariant behind NeverAhead and the refinement of           *)
(* Retirement: how the payloads that the layer gives to operations on binary *)
(* semaphores stand for the progress of the device.                          *)
(***************************************************************************)
EXTENDS QueueRefinement, SemaphoreInv

-----------------------------------------------------------------------------
(* The device *)

\* Operation k of batch n of queue q, as the driver accepted it.
IssuedOps == UNION {UNION {{<<q, n, k>> : k \in Ops(issued[q][n])} : n \in DOMAIN issued[q]} : q \in Queue}

OpInfo(b, k) == IF IsWait(b, k) THEN b.wait_semaphores[k] ELSE b.signal_semaphores[k - Len(b.wait_semaphores)]
SemOf(x)     == OpInfo(issued[x[1]][x[2]], x[3]).semaphore
Number(x)    == OpInfo(issued[x[1]][x[2]], x[3]).payload
Signals(x)   == ~IsWait(issued[x[1]][x[2]], x[3])

\* The operations on a semaphore have different numbers, in the order of each queue, and the
\* device has executed the first ones.
OpsNumbered ==
    /\ \A x \in IssuedOps : Number(x) \in 1..app_sem[SemOf(x)]
    /\ \A x, y \in IssuedOps : SemOf(x) = SemOf(y) /\ Number(x) = Number(y) => x = y
    /\ \A x, y \in IssuedOps : SemOf(x) = SemOf(y) /\ x[1] = y[1] /\ x[2] < y[2] => Number(x) < Number(y)
OpsExecuted ==
    /\ \A q \in Queue : executed[q] <= Len(issued[q])
    /\ \A s \in Sem : vk_sem[s] <= app_sem[s]
    /\ \A x \in IssuedOps : x[2] <= executed[x[1]] <=> Number(x) <= vk_sem[SemOf(x)]

\* A fence is pending for the batch that will signal it.
FencesPending ==
    \A q \in Queue : \A n \in DOMAIN issued[q] : n > executed[q] /\ issued[q][n].fence # NoFence =>
        vk_fence[issued[q][n].fence] = [st |-> "pending", queue |-> q, n |-> n]

-----------------------------------------------------------------------------
(* Calls under way *)

SameBatch(a, b) == SameOps(a, b) /\ a.fence = b.fence
SameSems(a, b)  == a.wait_semaphores = b.wait_semaphores /\ a.signal_semaphores = b.signal_semaphores

\* The batches of a call that are accepted and have no number yet: so many, after the first Skip(h).
Skip(h)     == IF hpc[h] \in PushPc THEN 1 ELSE 0
Accepted(h) == IF hpc[h] = "driver" THEN call[h].idx ELSE Len(call[h].batches) - Skip(h)

Ahead(q) == Len(issued[q]) - seq_[q]
CallIssued(h) ==
    /\ Ahead(call[h].queue) = Accepted(h)
    /\ \A i \in 1..Accepted(h) :
          SameBatch(issued[call[h].queue][seq_[call[h].queue] + i], call[h].batches[i + Skip(h)])
    /\ call[h].early = 0
CallsIssued ==
    /\ \A q \in Queue : (\A h \in Host : hpc[h] \in SubmitPc => call[h].queue # q) => Ahead(q) = 0
    /\ \A h \in Host : hpc[h] \in SubmitPc => CallIssued(h)

\* The submission under way is the batch with its number; its operations have the payloads
\* that the device knows them by, once told.
SubIs(h) ==
    /\ hpc[h] = "seq" => SameBatch(call[h].sub, call[h].batches[1])
    /\ hpc[h] = "enqueue" =>
          /\ SameBatch(issued[call[h].queue][call[h].sub.seq], call[h].sub)
          /\ \A k \in Ops(call[h].sub) : k < call[h].idx =>
                OpInfo(call[h].sub, k) = OpInfo(issued[call[h].queue][call[h].sub.seq], k)
    /\ hpc[h] = "push" => SameSems(call[h].sub, issued[call[h].queue][call[h].sub.seq])
SubIssued == \A h \in Host : SubIs(h)

\* The limits on submissions.
NamesOnce(b) == \A k, l \in Ops(b) : OpOn(b, k) = OpOn(b, l) => k = l
CallsOnce == \A h \in Host : hpc[h] \in SubmitPc => \A i \in DOMAIN call[h].batches : NamesOnce(call[h].batches[i])
Room ==
    /\ \A q \in Queue : Len(issued[q]) <= MaxSeq
    /\ \A h \in Host : hpc[h] = "driver" =>
          /\ call[h].idx < Len(call[h].batches)
          /\ Len(issued[call[h].queue]) + Len(call[h].batches) - call[h].idx <= MaxSeq

-----------------------------------------------------------------------------
(* The layer *)

\* The layer's semaphore knows of operation x.
Told(x) ==
    /\ x[2] <= seq_[x[1]]
    /\ \A h \in Host : hpc[h] = "enqueue" /\ call[h].queue = x[1] /\ x[2] = seq_[x[1]] => x[3] < call[h].idx

\* The layer numbers operations as the device does.
Telling ==
    /\ \A s \in BinarySem : sem[s].next_payload <= app_sem[s] + 1
    /\ \A x \in IssuedOps : Told(x) <=> Number(x) < sem[SemOf(x)].next_payload
    /\ \A s \in BinarySem : \A p \in sem[s].next_payload..app_sem[s] :
          \E x \in IssuedOps : SemOf(x) = s /\ Number(x) = p

\* What the layer keeps of a submission is what the driver accepted.
IsFor(op, x) == op.queue = x[1] /\ op.seq = x[2] /\ op.payload = Number(x)
PendingFor ==
    \A s \in BinarySem : \A op \in Pending(sem[s]) : op.queue # NoQueue =>
        \E x \in IssuedOps : SemOf(x) = s /\ IsFor(op, x)
DequeFor  == \A q \in Queue : \A i \in DOMAIN submissions_[q] :
                SameSems(submissions_[q][i], issued[q][submissions_[q][i].seq])
ThreadFor == \A q \in Queue : InThread(q) => SameSems(tcur[q], issued[q][tcur[q].seq])
FenceFor ==
    \A f \in Fence : fence[f].state = "FENCE_INFLIGHT" /\ fence[f].queue # NoQueue =>
        /\ fence[f].seq \in DOMAIN issued[fence[f].queue]
        /\ issued[fence[f].queue][fence[f].seq].fence = f
Recorded == PendingFor /\ DequeFor /\ ThreadFor /\ FenceFor

\* Nobody asks for a submission that the device has not executed.
AskedFor == \A q \in Queue : Popped(q) <= request_seq_[q] /\ request_seq_[q] <= executed[q]
IdleFor  == \A h \in Host : hpc[h] \in IdlePc => \A q \in Queue : Claims(call[h], q) => DeviceIdle(q)
InTime   == AskedFor /\ IdleFor

DeviceInv   == OpsNumbered /\ OpsExecuted /\ FencesPending
CallInv     == CallsIssued /\ SubIssued /\ CallsOnce /\ Room
LayerInv    == Telling /\ Recorded /\ InTime
ProgressInv == DeviceInv /\ CallInv /\ LayerInv

-----------------------------------------------------------------------------
(* Retirement in the order of the device *)

BatchesOnce == \A q \in Queue : \A n \in DOMAIN issued[q] : NamesOnce(issued[q][n])

Sorted == \A s \in BinarySem : \A i, j \in DOMAIN sem[s].operations :
             i < j => sem[s].operations[i].payload < sem[s].operations[j].payload

\* A queue thread retires the semaphore its loop has come to.
Retiring ==
    \A q \in Queue : rpc[q] # "idle" =>
        /\ tpc[q] \in {"waits", "signals"} /\ tidx[q] < Len(LoopSemaphores(q))
        /\ frame[q].semaphore = LoopSemaphores(q)[tidx[q] + 1].semaphore
        /\ frame[q].payload = LoopSemaphores(q)[tidx[q] + 1].payload

\* A signal that was told and is not pending has been retired by the queue it is from.
SignalsRetired ==
    \A x \in IssuedOps : Signals(x) /\ Told(x) =>
        \/ x[2] <= CbsRetired(x[1])
        \/ \E op \in Pending(sem[SemOf(x)]) : IsFor(op, x)

\* The waits that the thread has retired have nothing pending before them.
Cleared(q, i) == (tpc[q] = "waits" /\ i <= tidx[q]) \/ tpc[q] = "cbs"
WaitsCleared ==
    \A q \in Queue : \A i \in DOMAIN tcur[q].wait_semaphores : Cleared(q, i) =>
        \A op \in Pending(sem[tcur[q].wait_semaphores[i].semaphore]) : tcur[q].wait_semaphores[i].payload < op.payload

OrderInv == BatchesOnce /\ Sorted /\ SignalsRetired /\ WaitsCleared
=============================================================================
