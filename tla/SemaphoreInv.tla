----------------------------- MODULE SemaphoreInv ---------------------------
(***************************************************************************)
(* The inductive invariant behind SemaphoreVerdictExact of QueueProps: which *)
(* operations of a call under way the layer has still to record, and what    *)
(* the last of them makes of a binary semaphore.                             *)
(***************************************************************************)
EXTENDS QueueProps

\* The operations of a batch in the order of Submit(): its waits, then its signals.
Ops(b)       == 1..(Len(b.wait_semaphores) + Len(b.signal_semaphores))
IsWait(b, k) == k <= Len(b.wait_semaphores)
OpOn(b, k)   == IF IsWait(b, k) THEN b.wait_semaphores[k].semaphore
                                ELSE b.signal_semaphores[k - Len(b.wait_semaphores)].semaphore

\* The driver has accepted operation k of batch i of the call of h, a wait or a signal of
\* s, and the layer's semaphore does not know yet.
UntoldOp(h, i, k, s, wait) ==
    /\ hpc[h] \in SubmitPc /\ i \in DOMAIN call[h].batches /\ k \in Ops(call[h].batches[i])
    /\ hpc[h] = "driver" => i <= call[h].idx
    /\ hpc[h] = "enqueue" /\ i = 1 => call[h].idx <= k
    /\ hpc[h] = "push" => i > 1
    /\ s = OpOn(call[h].batches[i], k) /\ wait = IsWait(call[h].batches[i], k)

\* The submission a call works on is its first batch, with payloads of the layer's.
SameOps(a, b) ==
    /\ Len(a.wait_semaphores) = Len(b.wait_semaphores) /\ Len(a.signal_semaphores) = Len(b.signal_semaphores)
    /\ \A k \in Ops(b) : OpOn(a, k) = OpOn(b, k)
SubOps == \A h \in Host : hpc[h] \in {"seq", "enqueue"} => SameOps(call[h].sub, call[h].batches[1])

\* Two submissions under way do not share a binary semaphore.
OneCall ==
    \A g, h \in Host : g # h /\ {hpc[g], hpc[h]} \subseteq SubmitPc =>
        BinarySem \cap SemsOf(call[g].batches) \cap SemsOf(call[h].batches) = {}

\* Waits and signals of the host are about timeline semaphores.
HostFrames == \A h \in Host : hpc[h] \in SemaphorePc => frame[h].semaphore \in TimelineSem

\* A new operation goes behind all that are pending.
Below(r) == \A i \in DOMAIN r.operations : r.operations[i].payload < r.next_payload
AllBelow == \A s \in BinarySem : Below(sem[s])

\* The application's last operation on s was a signal.
Odd(n)    == n % 2 = 1
Raised(s) == Odd(app_sem[s])

\* If nothing is left to tell, the record says so; otherwise what is left says it.
ToldVerdict ==
    \A s \in BinarySem :
        (\A h \in Host : \A i \in DOMAIN call[h].batches : \A k \in Ops(call[h].batches[i]), w \in BOOLEAN :
            ~UntoldOp(h, i, k, s, w)) => (CanBeWaited(sem[s]) <=> Raised(s))
UntoldVerdict ==
    \A s \in BinarySem, h \in Host : \A i \in DOMAIN call[h].batches : \A k \in Ops(call[h].batches[i]), w \in BOOLEAN :
        /\ UntoldOp(h, i, k, s, w)
        /\ \A j \in DOMAIN call[h].batches : \A l \in Ops(call[h].batches[j]), v \in BOOLEAN : UntoldOp(h, j, l, s, v) => j <= i
        => (w <=> ~Raised(s))

VerdictInv == SubOps /\ OneCall /\ HostFrames /\ AllBelow /\ ToldVerdict /\ UntoldVerdict
=============================================================================
