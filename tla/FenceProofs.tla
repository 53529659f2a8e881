---------------------------- MODULE FenceProofs -----------------------------
(* What the layer knows of fences, for any number of queues, host threads     *)
(* and fences, and any submissions: the verdict that validation reads, the    *)
(* promise behind a wait, and the order in which a fence is retired.          *)
EXTENDS FenceInv, QueueProofs

USE DEF queueVars, threadVars, retireVars, hostVars, deviceVars

-----------------------------------------------------------------------------
(* Calls *)

\* Every thread but h is where it was.
OnlyHost(h) == \A g \in Host : g # h => hpc'[g] = hpc[g] /\ call'[g] = call[g]

\* The thread moves, but not in a submit call.
Elsewhere(h) == OnlyHost(h) /\ hpc[h] \notin SubmitPc /\ hpc'[h] \notin SubmitPc

\* What is left to tell is the same.
SameUntold == \A h \in Host : \A i, f : Untold(h, i, f)' <=> Untold(h, i, f)

LEMMA SubmitPcOther ==
    /\ {"idle", "fblock", "swait", "spoke", "sblock", "senqueue", "sretire", "qnotify", "qwait", "qblock", "qexit", "qjoin"}
          \cap SubmitPc = {}
    /\ SubmitPc = {"driver", "cbs", "seq", "enqueue", "push"}
BY DEF SubmitPc

LEMMA ElsewhereUntold ==
    ASSUME NEW h \in Host, Elsewhere(h), SubIsFirst
    PROVE  SameUntold /\ SubIsFirst'
<1>1. ASSUME NEW g \in Host, NEW i, NEW f PROVE Untold(g, i, f)' <=> Untold(g, i, f)
  BY DEF Elsewhere, OnlyHost, Untold
<1>2. SubIsFirst'
  BY SubmitPcOther DEF Elsewhere, OnlyHost, SubIsFirst
<1> QED BY <1>1, <1>2 DEF SameUntold

LEMMA HostsUntold ==
    ASSUME SubIsFirst, hpc' = hpc, call' = call
    PROVE  SameUntold /\ SubIsFirst'
<1>1. SameUntold
  BY DEF Untold, SameUntold
<1> QED BY <1>1 DEF SubIsFirst

\* FenceTruth with the index of a batch not bounded: Untold says that it is one.
Once ==
    \A f \in Fence : \A g, h \in Host : \A i, j : Untold(g, i, f) /\ Untold(h, j, f) => g = h /\ i = j
Used ==
    \A f \in Fence : \A h \in Host : \A i : Untold(h, i, f) =>
        /\ vk_fence[f].st \in {"pending", "signaled"}
        /\ fence[f].scope = "kSyncScopeInternal" => fence[f].state = "FENCE_UNSIGNALED"
Known ==
    \A f \in Fence :
        fence[f].scope = "kSyncScopeInternal" /\ fence[f].state = "FENCE_UNSIGNALED" /\ vk_fence[f].st # "unsignaled" =>
            \E h \in Host : \E i : Untold(h, i, f)

LEMMA TruthIs == FenceTruth <=> SubIsFirst /\ Unsignaled /\ Once /\ Used /\ Known
<1>1. \A h, i, f : Untold(h, i, f) => i \in DOMAIN call[h].batches
  BY DEF Untold
<1>2. UntoldOnce <=> Once
  BY <1>1 DEF UntoldOnce, Once
<1>3. UntoldUsed <=> Used
  BY <1>1 DEF UntoldUsed, Used
<1>4. Signaled <=> Known
  BY <1>1 DEF Signaled, Known
<1> QED BY <1>2, <1>3, <1>4 DEF FenceTruth

LEMMA TruthIsNext == (FenceTruth <=> SubIsFirst /\ Unsignaled /\ Once /\ Used /\ Known)'
BY TruthIs, PTL

\* Nothing is said to a fence, and the device may signal one.
LEMMA QuietTruth ==
    ASSUME FenceTruth, fence' = fence, SameUntold, SubIsFirst',
           \A f \in Fence : vk_fence'[f].st = vk_fence[f].st \/ (vk_fence[f].st = "pending" /\ vk_fence'[f].st = "signaled")
    PROVE  FenceTruth'
<1>1. SubIsFirst /\ Unsignaled /\ Once /\ Used /\ Known
  BY TruthIs
<1>2. Once'
  BY <1>1 DEF SameUntold, Once
<1>3. Used'
  BY <1>1 DEF SameUntold, Used
<1>4. Unsignaled'
  BY <1>1 DEF Unsignaled
<1>5. Known'
  BY <1>1 DEF SameUntold, Known
<1> QED BY <1>2, <1>3, <1>4, <1>5, TruthIsNext

\* A fence that no call names is told something.
LEMMA ToldTruth ==
    ASSUME FenceTruth, NEW f \in Fence, FenceFree(f), SameUntold, SubIsFirst',
           \A e \in Fence : e # f => fence'[e] = fence[e] /\ vk_fence'[e] = vk_fence[e],
           fence'[f].scope = "kSyncScopeInternal" => (fence'[f].state = "FENCE_UNSIGNALED" <=> vk_fence'[f].st = "unsignaled")
    PROVE  FenceTruth'
<1>1. SubIsFirst /\ Unsignaled /\ Once /\ Used /\ Known
  BY TruthIs
<1>2. \A h \in Host : \A i : ~Untold(h, i, f)
  BY DEF FenceFree, Untold
<1>3. Once'
  BY <1>1 DEF SameUntold, Once
<1>4. Used'
  BY <1>1, <1>2 DEF SameUntold, Used
<1>5. Unsignaled'
  BY <1>1 DEF Unsignaled
<1>6. Known'
  BY <1>1 DEF SameUntold, Known
<1> QED BY <1>3, <1>4, <1>5, <1>6, TruthIsNext

-----------------------------------------------------------------------------
(* Steps that tell a fence nothing *)

\* No fence is told anything, by the layer or by the device.
Silent == fence' = fence /\ vk_fence' = vk_fence

LEMMA MoveElsewhere ==
    ASSUME TypeOK, NEW h \in Host, NEW pc, hpc' = [hpc EXCEPT ![h] = pc], hpc[h] \notin SubmitPc, pc \notin SubmitPc,
           \A g \in Host : g # h => call'[g] = call[g]
    PROVE  Elsewhere(h)
BY DEF TypeOK, Elsewhere, OnlyHost

LEMMA ReturnElsewhere ==
    ASSUME TypeOK, NEW h \in Host, Return(h), hpc[h] \notin SubmitPc
    PROVE  Elsewhere(h)
BY SubmitPcOther DEF TypeOK, Elsewhere, OnlyHost, Return

LEMMA WaitDoneElsewhere ==
    ASSUME TypeOK, NEW h \in Host, QueueWaitDone(h), hpc[h] \notin SubmitPc
    PROVE  Elsewhere(h)
<1>1. CASE Return(h)
  BY <1>1, ReturnElsewhere
<1>2. CASE hpc' = [hpc EXCEPT ![h] = "qnotify"] /\ \E c : call' = [call EXCEPT ![h] = c]
  BY <1>2, SubmitPcOther DEF TypeOK, Elsewhere, OnlyHost
<1> QED BY <1>1, <1>2 DEF QueueWaitDone

\* A step of a call that is not a submission.
OtherStep(h) ==
    \/ QueueNotify(h) \/ QueueWait(h) \/ QueueWaitReady(h) \/ FenceWaitReady(h)
    \/ SemaphoreWait(h) \/ SemaphorePoke(h) \/ SemaphoreReady(h) \/ RetireTimelineEnqueue(h)
    \/ DestroyNotify(h) \/ DestroyJoin(h)

LEMMA OtherStepElsewhere ==
    ASSUME TypeOK, NEW h \in Host, OtherStep(h)
    PROVE  Elsewhere(h) /\ Silent
<1>1. Silent
  BY DEF OtherStep, QueueNotify, QueueWait, QueueWaitReady, FenceWaitReady, SemaphoreWait, SemaphorePoke, SemaphoreReady,
         RetireTimelineEnqueue, DestroyNotify, DestroyJoin, Silent
<1>2. CASE QueueNotify(h)
  <2>1. \A g \in Host : g # h => call'[g] = call[g]
    BY <1>2 DEF QueueNotify, TypeOK
  <2> QED BY <1>1, <1>2, <2>1, MoveElsewhere, SubmitPcOther DEF QueueNotify
<1>3. CASE QueueWait(h)
  <2>1. hpc[h] \notin SubmitPc
    BY <1>3, SubmitPcOther DEF QueueWait
  <2>2. CASE QueueWaitDone(h)
    BY <1>1, <2>1, <2>2, WaitDoneElsewhere
  <2>3. CASE hpc' = [hpc EXCEPT ![h] = "qblock"] /\ call' = call
    BY <1>1, <2>1, <2>3, MoveElsewhere, SubmitPcOther
  <2> QED BY <1>3, <2>2, <2>3 DEF QueueWait
<1>4. CASE QueueWaitReady(h)
  BY <1>1, <1>4, WaitDoneElsewhere, SubmitPcOther DEF QueueWaitReady
<1>5. CASE FenceWaitReady(h) \/ SemaphoreReady(h)
  BY <1>1, <1>5, ReturnElsewhere, SubmitPcOther DEF FenceWaitReady, SemaphoreReady
<1>6. CASE SemaphoreWait(h) \/ RetireTimelineEnqueue(h) \/ DestroyNotify(h)
  BY <1>1, <1>6, MoveElsewhere, SubmitPcOther DEF SemaphoreWait, RetireTimelineEnqueue, DestroyNotify
<1>7. CASE SemaphorePoke(h)
  BY <1>1, <1>7, MoveElsewhere, SubmitPcOther DEF SemaphorePoke
<1>8. CASE DestroyJoin(h)
  <2>1. hpc[h] \notin SubmitPc
    BY <1>8, SubmitPcOther DEF DestroyJoin
  <2>2. CASE Return(h)
    BY <1>1, <2>1, <2>2, ReturnElsewhere
  <2>3. CASE \E q : /\ hpc' = [hpc EXCEPT ![h] = "qexit"]
                    /\ call' = [call EXCEPT ![h].queue = q, ![h].todo = @ \ {q}]
    <3>1. \A g \in Host : g # h => call'[g] = call[g]
      BY <2>3 DEF TypeOK
    <3> QED BY <1>1, <2>1, <2>3, <3>1, MoveElsewhere, SubmitPcOther
  <2> QED BY <1>8, <2>2, <2>3 DEF DestroyJoin
<1> QED BY <1>2, <1>3, <1>4, <1>5, <1>6, <1>7, <1>8 DEF OtherStep

\* A call that is not a submission begins.
OtherCall(h) ==
    \/ \E q \in Queue : QueueWaitIdle(h, q) \/ DeviceWaitIdle(h, q) \/ DestroyDevice(h, q)
    \/ \E s \in TimelineSem, p \in Payloads : WaitSemaphore(h, s, p) \/ SignalSemaphore(h, s, p)

LEMMA OtherCallElsewhere ==
    ASSUME TypeOK, NEW h \in Host, OtherCall(h)
    PROVE  Elsewhere(h) /\ Silent
<1>1. Silent
  BY DEF OtherCall, QueueWaitIdle, DeviceWaitIdle, DestroyDevice, WaitSemaphore, SignalSemaphore, Silent
<1>2. ASSUME NEW q \in Queue, QueueWaitIdle(h, q) \/ DeviceWaitIdle(h, q) \/ DestroyDevice(h, q)
      PROVE  Elsewhere(h)
  <2>1. hpc[h] = "idle" /\ \E pc \in {"qnotify", "qexit"} : hpc' = [hpc EXCEPT ![h] = pc]
    BY <1>2 DEF QueueWaitIdle, DeviceWaitIdle, DestroyDevice
  <2>2. \A g \in Host : g # h => call'[g] = call[g]
    BY <1>2 DEF QueueWaitIdle, DeviceWaitIdle, DestroyDevice, TypeOK
  <2> QED BY <2>1, <2>2, MoveElsewhere, SubmitPcOther
<1>3. ASSUME NEW s, NEW p, WaitSemaphore(h, s, p) \/ SignalSemaphore(h, s, p)
      PROVE  Elsewhere(h)
  <2>1. hpc[h] = "idle" /\ call' = call /\ \E pc \in {"swait", "senqueue"} : hpc' = [hpc EXCEPT ![h] = pc]
    BY <1>3 DEF WaitSemaphore, SignalSemaphore, StartSemaphoreCall
  <2> QED BY <2>1, MoveElsewhere, SubmitPcOther
<1> QED BY <1>1, <1>2, <1>3 DEF OtherCall

\* SEMAPHORE_STATE::Retire(), of a queue thread or a host thread.
LEMMA RetireElsewhere ==
    ASSUME IInv, NEW a \in Actor, Retire(a)
    PROVE  Silent /\ ((hpc' = hpc /\ call' = call) \/ (a \in Host /\ Elsewhere(a)))
<1>1. TypeOK /\ HostRetires
  BY DEF IInv, Order
<1>2. Silent
  BY DEF Retire, RetireAtOnce, RetireWaitOther, RetireResume, RetireEnd, Silent
<1>3. CASE RetireAtOnce(a) \/ RetireWaitOther(a) \/ RetireResume(a)
  BY <1>2, <1>3 DEF RetireAtOnce, RetireWaitOther, RetireResume
<1>4. CASE RetireEnd(a)
  <2>1. CASE a \in Queue
    BY <1>2, <1>4, <2>1 DEF RetireEnd
  <2>2. CASE a \notin Queue
    <3>1. a \in Host /\ Return(a) /\ rpc[a] # "idle"
      BY <1>4, <2>2 DEF RetireEnd, Actor
    <3>2. hpc[a] \notin SubmitPc
      BY <1>1, <3>1, SubmitPcOther DEF HostRetires
    <3> QED BY <1>1, <1>2, <3>1, <3>2, ReturnElsewhere
  <2> QED BY <2>1, <2>2
<1> QED BY <1>3, <1>4 DEF Retire

-----------------------------------------------------------------------------
(* Submissions *)

\* A step between the driver's acceptance and the fence.
LEMMA BetweenUntold ==
    ASSUME TypeOK, SubIsFirst, NEW h \in Host, OnlyHost(h), hpc[h] \in {"cbs", "seq", "enqueue"}, hpc'[h] \in {"seq", "enqueue"},
           call'[h].batches = call[h].batches, call'[h].sub.fence = call[h].batches[1].fence
    PROVE  SameUntold /\ SubIsFirst'
<1>1. ASSUME NEW g \in Host, NEW i, NEW f PROVE Untold(g, i, f)' <=> Untold(g, i, f)
  BY SubmitPcOther DEF OnlyHost, Untold
<1>2. SubIsFirst'
  BY DEF OnlyHost, SubIsFirst
<1> QED BY <1>1, <1>2 DEF SameUntold

LEMMA StartUntold ==
    ASSUME TypeOK', SubIsFirst, NEW h \in Host, OnlyHost(h), hpc[h] = "idle", hpc'[h] = "driver", call'[h].idx = 0
    PROVE  SameUntold /\ SubIsFirst'
<1>1. call'[h].batches \in Seq(CB_SUBMISSION)
  BY DEF TypeOK, Call
<1>2. \A i \in DOMAIN call'[h].batches : i \in Nat /\ i > 0
  BY <1>1, LenProperties
<1>3. ASSUME NEW g \in Host, NEW i, NEW f PROVE Untold(g, i, f)' <=> Untold(g, i, f)
  <2>1. CASE g # h
    BY <2>1 DEF OnlyHost, Untold
  <2>2. CASE g = h
    <3>1. ~Untold(h, i, f)
      BY SubmitPcOther DEF Untold
    <3>2. ~Untold(h, i, f)'
      BY <1>2 DEF Untold
    <3> QED BY <2>2, <3>1, <3>2
  <2> QED BY <2>1, <2>2
<1>4. SubIsFirst'
  BY DEF OnlyHost, SubIsFirst
<1> QED BY <1>3, <1>4 DEF SameUntold

LEMMA CallFields ==
    ASSUME TypeOK, NEW h \in Host
    PROVE  /\ call[h] \in Call /\ call[h].batches \in Seq(CB_SUBMISSION) /\ call[h].sub \in CB_SUBMISSION
           /\ call[h].idx \in Nat
BY DEF TypeOK, Call

\* What the steps of QUEUE_STATE::Submit() do to the call.
LEMMA SubmitSeqCall ==
    ASSUME TypeOK, NEW h \in Host, SubmitSeq(h)
    PROVE  /\ OnlyHost(h) /\ hpc[h] = "seq" /\ hpc'[h] = "enqueue"
           /\ call'[h].queue = call[h].queue /\ call'[h].batches = call[h].batches /\ call'[h].idx = 1
           /\ call'[h].early = call[h].early
           /\ call'[h].sub = [call[h].sub EXCEPT !.seq = seq_[call[h].queue] + 1]
<1> DEFINE c == [call[h] EXCEPT !.sub = [call[h].sub EXCEPT !.seq = seq_[call[h].queue] + 1], !.idx = 1]
<1>1. call' = [call EXCEPT ![h] = c]
  BY DEF SubmitSeq, TypeOK
<1>2. call'[h] = c
  BY <1>1 DEF TypeOK
<1>3. OnlyHost(h) /\ hpc[h] = "seq" /\ hpc'[h] = "enqueue"
  BY <1>1 DEF SubmitSeq, TypeOK, OnlyHost
<1> QED BY <1>2, <1>3, CallFields DEF Call

LEMMA SubmitWaitCall ==
    ASSUME TypeOK, NEW h \in Host, SubmitWait(h)
    PROVE  /\ OnlyHost(h) /\ hpc[h] = "enqueue" /\ hpc'[h] = "enqueue"
           /\ call'[h].queue = call[h].queue /\ call'[h].batches = call[h].batches /\ call'[h].idx = call[h].idx + 1
           /\ call'[h].early = call[h].early
           /\ \E p : call'[h].sub = [call[h].sub EXCEPT !.wait_semaphores =
                        [call[h].sub.wait_semaphores EXCEPT ![call[h].idx] = [call[h].sub.wait_semaphores[call[h].idx] EXCEPT !.payload = p]]]
<1>1. PICK w, p : w = call[h].sub.wait_semaphores[call[h].idx] /\ p = OpPayload(sem[w.semaphore], w.semaphore \in BinarySem, w.payload)
  OBVIOUS
<1> DEFINE sub2 == [call[h].sub EXCEPT !.wait_semaphores = [call[h].sub.wait_semaphores EXCEPT ![call[h].idx] = [w EXCEPT !.payload = p]]]
           c == [call[h] EXCEPT !.idx = call[h].idx + 1, !.sub = sub2]
<1>2. call' = [call EXCEPT ![h] = c]
  <2>1. call' = WaitWritten(call, h, WaitAt(h), WaitPays(h))
    BY SubmitWaitWrites
  <2>2. WaitPays(h) = p /\ WaitAt(h) = call[h].idx
    BY <1>1 DEF WaitPays, WaitAt
  <2> QED BY <1>1, <2>1, <2>2 DEF WaitWritten
<1>3. call'[h] = c
  BY <1>2 DEF TypeOK
<1>4. OnlyHost(h) /\ hpc[h] = "enqueue" /\ hpc'[h] = "enqueue"
  BY <1>2 DEF SubmitWait, TypeOK, OnlyHost
<1>5. call'[h].sub = sub2
  BY <1>3, CallFields DEF Call
<1>6. /\ call'[h].queue = call[h].queue /\ call'[h].batches = call[h].batches /\ call'[h].idx = call[h].idx + 1
      /\ call'[h].early = call[h].early
  BY <1>3, CallFields DEF Call
<1> QED BY <1>1, <1>4, <1>5, <1>6

LEMMA SubmitSignalCall ==
    ASSUME TypeOK, NEW h \in Host, SubmitSignal(h), NEW i, i = call[h].idx - Len(call[h].sub.wait_semaphores)
    PROVE  /\ OnlyHost(h) /\ hpc[h] = "enqueue" /\ hpc'[h] = "enqueue"
           /\ call'[h].queue = call[h].queue /\ call'[h].batches = call[h].batches /\ call'[h].idx = call[h].idx + 1
           /\ call'[h].early = call[h].early
           /\ \E p : call'[h].sub = [call[h].sub EXCEPT !.signal_semaphores =
                        [call[h].sub.signal_semaphores EXCEPT ![i] = [call[h].sub.signal_semaphores[i] EXCEPT !.payload = p]]]
<1>1. PICK w, p : w = call[h].sub.signal_semaphores[i] /\ p = OpPayload(sem[w.semaphore], w.semaphore \in BinarySem, w.payload)
  OBVIOUS
<1> DEFINE sub2 == [call[h].sub EXCEPT !.signal_semaphores = [call[h].sub.signal_semaphores EXCEPT ![i] = [w EXCEPT !.payload = p]]]
           c == [call[h] EXCEPT !.idx = call[h].idx + 1, !.sub = sub2]
<1>2. call' = [call EXCEPT ![h] = c]
  <2>1. call' = SignalWritten(call, h, SignalAt(h), SignalPays(h))
    BY SubmitSignalWrites
  <2>2. SignalPays(h) = p /\ SignalAt(h) = i
    BY <1>1 DEF SignalPays, SignalAt
  <2> QED BY <1>1, <2>1, <2>2 DEF SignalWritten
<1>3. call'[h] = c
  BY <1>2 DEF TypeOK
<1>4. OnlyHost(h) /\ hpc[h] = "enqueue" /\ hpc'[h] = "enqueue"
  BY <1>2 DEF SubmitSignal, TypeOK, OnlyHost
<1>5. call'[h].sub = sub2
  BY <1>3, CallFields DEF Call
<1>6. /\ call'[h].queue = call[h].queue /\ call'[h].batches = call[h].batches /\ call'[h].idx = call[h].idx + 1
      /\ call'[h].early = call[h].early
  BY <1>3, CallFields DEF Call
<1> QED BY <1>1, <1>4, <1>5, <1>6

LEMMA SubmitUntold ==
    ASSUME TypeOK, TypeOK', SubIsFirst, NEW h \in Host,
           \/ \E q \in Queue : \E bs \in Calls[q] : QueueSubmit(h, q, bs)
           \/ SubmitCbs(h) \/ SubmitSeq(h) \/ SubmitWait(h) \/ SubmitSignal(h)
    PROVE  SameUntold /\ SubIsFirst' /\ Silent
<1>1. Silent
  BY DEF QueueSubmit, SubmitCbs, SubmitSeq, SubmitWait, SubmitSignal, Silent
<1>2. ASSUME NEW q, NEW bs, QueueSubmit(h, q, bs) PROVE SameUntold /\ SubIsFirst'
  <2>1. OnlyHost(h) /\ hpc[h] = "idle" /\ hpc'[h] = "driver" /\ call'[h].idx = 0
    BY <1>2 DEF QueueSubmit, OnlyHost, TypeOK, NoCall
  <2> QED BY <2>1, StartUntold
<1>3. ASSUME SubmitCbs(h) PROVE SameUntold /\ SubIsFirst'
  <2>1. OnlyHost(h) /\ hpc[h] = "cbs" /\ hpc'[h] = "seq"
    BY <1>3 DEF SubmitCbs, OnlyHost, TypeOK
  <2>2. call'[h].batches = call[h].batches /\ call'[h].sub = call[h].batches[1]
    BY <1>3, CallFields DEF SubmitCbs, TypeOK, Call
  <2> QED BY <2>1, <2>2, BetweenUntold
<1>4. ASSUME SubmitSeq(h) PROVE SameUntold /\ SubIsFirst'
  <2>1. OnlyHost(h) /\ hpc[h] = "seq" /\ hpc'[h] = "enqueue"
    BY <1>4, SubmitSeqCall
  <2>2. call'[h].batches = call[h].batches /\ call'[h].sub.fence = call[h].sub.fence
    BY <1>4, SubmitSeqCall, CallFields DEF CB_SUBMISSION
  <2> QED BY <2>1, <2>2, BetweenUntold DEF SubIsFirst
<1>5. ASSUME SubmitWait(h) PROVE SameUntold /\ SubIsFirst'
  <2>1. OnlyHost(h) /\ hpc[h] = "enqueue" /\ hpc'[h] = "enqueue"
    BY <1>5, SubmitWaitCall
  <2>2. call'[h].batches = call[h].batches /\ call'[h].sub.fence = call[h].sub.fence
    BY <1>5, SubmitWaitCall, CallFields DEF CB_SUBMISSION
  <2> QED BY <2>1, <2>2, BetweenUntold DEF SubIsFirst
<1>6. ASSUME SubmitSignal(h) PROVE SameUntold /\ SubIsFirst'
  <2>1. OnlyHost(h) /\ hpc[h] = "enqueue" /\ hpc'[h] = "enqueue"
    BY <1>6, SubmitSignalCall
  <2>2. call'[h].batches = call[h].batches /\ call'[h].sub.fence = call[h].sub.fence
    BY <1>6, SubmitSignalCall, CallFields DEF CB_SUBMISSION
  <2> QED BY <2>1, <2>2, BetweenUntold DEF SubIsFirst
<1> QED BY <1>1, <1>2, <1>3, <1>4, <1>5, <1>6

LEMMA DriverAcceptCall ==
    ASSUME TypeOK, NEW h \in Host, DriverAccept(h)
    PROVE  /\ OnlyHost(h) /\ call'[h].batches = call[h].batches /\ call'[h].queue = call[h].queue
           /\ call'[h].early = call[h].early
           /\ \/ hpc'[h] = "driver" /\ call'[h].idx = call[h].idx + 1 /\ call[h].idx + 1 # Len(call[h].batches)
              \/ hpc'[h] = "cbs" /\ call'[h].idx = 0 /\ call[h].idx + 1 = Len(call[h].batches)
<1>1. CASE call[h].idx + 1 = Len(call[h].batches)
  <2> DEFINE c == [call[h] EXCEPT !.idx = 0]
  <2>1. hpc' = [hpc EXCEPT ![h] = "cbs"] /\ call' = [call EXCEPT ![h] = c]
    BY <1>1 DEF DriverAccept, TypeOK
  <2>2. OnlyHost(h) /\ hpc'[h] = "cbs" /\ call'[h] = c
    BY <2>1 DEF OnlyHost, TypeOK
  <2> QED BY <1>1, <2>2, CallFields DEF Call
<1>2. CASE call[h].idx + 1 # Len(call[h].batches)
  <2> DEFINE c == [call[h] EXCEPT !.idx = call[h].idx + 1]
  <2>1. hpc' = [hpc EXCEPT ![h] = "driver"] /\ call' = [call EXCEPT ![h] = c]
    BY <1>2 DEF DriverAccept, TypeOK
  <2>2. OnlyHost(h) /\ hpc'[h] = "driver" /\ call'[h] = c
    BY <2>1 DEF OnlyHost, TypeOK
  <2> QED BY <1>2, <2>2, CallFields DEF Call
<1> QED BY <1>1, <1>2

\* The driver accepts a batch with an unsignaled fence.
LEMMA TruthDriverAccept ==
    ASSUME TypeOK, TypeOK', FenceTruth, NEW h \in Host, DriverAccept(h)
    PROVE  FenceTruth'
<1>1. SubIsFirst /\ Unsignaled /\ Once /\ Used /\ Known
  BY TruthIs
<1>2. PICK k \in Nat : k = call[h].idx + 1
  BY CallFields
<1>3. hpc[h] = "driver" /\ fence' = fence /\ k <= Len(call[h].batches) /\ k > 0 /\ k \in DOMAIN call[h].batches
  <2>1. hpc[h] = "driver" /\ fence' = fence /\ call[h].idx < Len(call[h].batches)
    BY DEF DriverAccept
  <2>2. call[h].idx \in Nat /\ Len(call[h].batches) \in Nat /\ DOMAIN call[h].batches = 1..Len(call[h].batches)
    BY CallFields, LenProperties
  <2> QED BY <1>2, <2>1, <2>2
<1>4. PICK e : e = call[h].batches[k].fence
  OBVIOUS
<1>5. e \in Fence \cup {NoFence}
  <2>1. call[h].batches[k] \in CB_SUBMISSION
    <3>1. k \in 1..Len(call[h].batches)
      BY <1>3, CallFields, LenProperties
    <3> QED BY <3>1, CallFields, ElementOfSeq
  <2> QED BY <1>4, <2>1 DEF CB_SUBMISSION
<1>6. OnlyHost(h) /\ call'[h].batches = call[h].batches /\ (hpc'[h] = "driver" => call'[h].idx = k) /\ hpc'[h] \in {"driver", "cbs"}
  BY <1>2, DriverAcceptCall
<1>7. hpc'[h] = "cbs" => k = Len(call[h].batches)
  BY <1>2, DriverAcceptCall
<1>8. /\ e \in Fence => vk_fence[e].st = "unsignaled" /\ vk_fence'[e].st = "pending"
      /\ \A f \in Fence : f # e => vk_fence'[f] = vk_fence[f]
  <2>1. e \in Fence => e # NoFence
    BY QueueStateAssumption
  <2> QED BY <1>2, <1>4, <2>1 DEF DriverAccept, ValidBatch, TypeOK
<1>9. \A g \in Host : \A i, f : g # h => (Untold(g, i, f)' <=> Untold(g, i, f))
  BY <1>6 DEF OnlyHost, Untold
<1>10. \A i, f : Untold(h, i, f)' <=> Untold(h, i, f) \/ (i = k /\ f = e)
  <2> SUFFICES ASSUME NEW i, NEW f PROVE Untold(h, i, f)' <=> Untold(h, i, f) \/ (i = k /\ f = e)
    OBVIOUS
  <2>1. Untold(h, i, f) <=> i \in DOMAIN call[h].batches /\ i <= k - 1 /\ f = call[h].batches[i].fence
    BY <1>2, <1>3, CallFields, SubmitPcOther DEF Untold
  <2>2. Untold(h, i, f)' <=> i \in DOMAIN call[h].batches /\ i <= k /\ f = call[h].batches[i].fence
    <3>1. \A j \in DOMAIN call[h].batches : j <= Len(call[h].batches)
      BY CallFields, LenProperties
    <3> QED BY <1>6, <1>7, <3>1, SubmitPcOther DEF Untold
  <2>3. \A j \in DOMAIN call[h].batches : j \in Nat
    BY CallFields, LenProperties
  <2> QED BY <1>3, <1>4, <2>1, <2>2, <2>3
<1>11. e \in Fence => \A g \in Host : \A i : ~Untold(g, i, e)
  BY <1>1, <1>8 DEF Used
<1>12. Once'
  BY <1>1, <1>9, <1>10, <1>11 DEF Once
<1>13. Used'
  <2> SUFFICES ASSUME NEW f \in Fence, NEW g \in Host, NEW i, Untold(g, i, f)'
               PROVE  /\ vk_fence'[f].st \in {"pending", "signaled"}
                      /\ fence[f].scope = "kSyncScopeInternal" => fence[f].state = "FENCE_UNSIGNALED"
    BY <1>3 DEF Used
  <2>1. CASE f = e
    BY <1>1, <1>8, <2>1 DEF Unsignaled
  <2>2. CASE f # e
    BY <1>1, <1>8, <1>9, <1>10, <2>2 DEF Used
  <2> QED BY <2>1, <2>2
<1>14. Unsignaled'
  BY <1>1, <1>3, <1>8 DEF Unsignaled
<1>15. Known'
  <2>1. \A f \in Fence : f # e => \A g \in Host : \A i : Untold(g, i, f) => Untold(g, i, f)'
    BY <1>9, <1>10
  <2>2. Untold(h, k, e)'
    BY <1>10
  <2> QED BY <1>1, <1>3, <1>8, <2>1, <2>2 DEF Known
<1>16. SubIsFirst'
  BY <1>1, <1>3, <1>6 DEF SubIsFirst, OnlyHost
<1> QED BY <1>12, <1>13, <1>14, <1>15, <1>16, TruthIsNext

\* FENCE_STATE::EnqueueSignal(), of the fence of the first batch.
LEMMA SubmitFenceCall ==
    ASSUME TypeOK, NEW h \in Host, SubmitFence(h)
    PROVE  /\ OnlyHost(h) /\ hpc[h] = "enqueue" /\ hpc'[h] = "push"
           /\ call'[h].batches = call[h].batches /\ call'[h].sub = call[h].sub /\ call'[h].queue = call[h].queue
           /\ call'[h].early \in {call[h].early, call[h].sub.seq}
           /\ call[h].sub.fence \in Fence /\ fence[call[h].sub.fence].scope = "kSyncScopeInternal" => call'[h].early = call[h].early
<1>1. hpc[h] = "enqueue" /\ hpc' = [hpc EXCEPT ![h] = "push"]
  BY DEF SubmitFence
<1>2. CASE call[h].sub.fence = NoFence
  BY <1>1, <1>2, QueueStateAssumption DEF SubmitFence, OnlyHost, TypeOK
<1>3. CASE call[h].sub.fence # NoFence
  <2>1. PICK n : n = IF FenceRetiresEarly(fence[call[h].sub.fence]) THEN call[h].sub.seq ELSE call[h].early
    OBVIOUS
  <2> DEFINE c == [call[h] EXCEPT !.early = n]
  <2>2. call' = [call EXCEPT ![h] = c]
    BY <1>3, <2>1 DEF SubmitFence, TypeOK
  <2>3. call'[h] = c /\ OnlyHost(h) /\ hpc'[h] = "push"
    BY <1>1, <2>2 DEF TypeOK, OnlyHost
  <2>4. /\ call'[h].batches = call[h].batches /\ call'[h].sub = call[h].sub /\ call'[h].queue = call[h].queue /\ call'[h].early = n
    BY <2>3, CallFields DEF Call
  <2> QED BY <1>1, <2>1, <2>3, <2>4 DEF FenceRetiresEarly
<1> QED BY <1>2, <1>3

LEMMA BatchOne ==
    ASSUME TypeOK, NEW h \in Host, hpc[h] \in SubmitPc
    PROVE  1 \in DOMAIN call[h].batches
<1>1. call[h].batches # << >> /\ call[h].batches \in Seq(CB_SUBMISSION)
  BY CallFields DEF TypeOK
<1> QED BY <1>1, EmptySeq, LenProperties

LEMMA TruthSubmitFence ==
    ASSUME TypeOK, FenceTruth, NEW h \in Host, SubmitFence(h)
    PROVE  FenceTruth'
<1>1. SubIsFirst /\ Unsignaled /\ Once /\ Used /\ Known
  BY TruthIs
<1>2. PICK e : e = call[h].sub.fence
  OBVIOUS
<1>3. /\ OnlyHost(h) /\ hpc[h] = "enqueue" /\ hpc'[h] = "push" /\ call'[h].batches = call[h].batches
      /\ call'[h].sub = call[h].sub
  BY SubmitFenceCall
<1>4. e = call[h].batches[1].fence
  BY <1>1, <1>2, <1>3 DEF SubIsFirst
<1>5. Untold(h, 1, e)
  BY <1>3, <1>4, BatchOne, SubmitPcOther DEF Untold
<1>6. \A g \in Host : \A i, f : g # h => (Untold(g, i, f)' <=> Untold(g, i, f))
  BY <1>3 DEF OnlyHost, Untold
<1>7. \A i, f : Untold(h, i, f)' <=> Untold(h, i, f) /\ i # 1
  <2>1. \A i \in DOMAIN call[h].batches : i \in Nat /\ i > 0
    BY CallFields, LenProperties
  <2> QED BY <1>3, <2>1, SubmitPcOther DEF Untold
<1>8. vk_fence' = vk_fence /\ \A f \in Fence : f # e => fence'[f] = fence[f]
  BY <1>2 DEF SubmitFence, TypeOK
<1>9. e \in Fence => /\ fence'[e].scope = fence[e].scope
                     /\ fence[e].scope = "kSyncScopeInternal" => fence'[e].state = "FENCE_INFLIGHT"
  <2> SUFFICES ASSUME e \in Fence PROVE /\ fence'[e].scope = fence[e].scope
                                        /\ fence[e].scope = "kSyncScopeInternal" => fence'[e].state = "FENCE_INFLIGHT"
    OBVIOUS
  <2>1. fence[e] \in FenceRecord /\ fence'[e] = FenceEnqueueSignal(fence[e], call[h].queue, call[h].sub.seq)
    BY <1>2, QueueStateAssumption DEF SubmitFence, TypeOK
  <2> QED BY <2>1 DEF FenceRecord, FenceEnqueueSignal, FenceRetiresEarly
<1>10. e \in Fence => \A g \in Host : \A i : ~Untold(g, i, e)'
  BY <1>1, <1>5, <1>6, <1>7 DEF Once
<1>11. Once'
  BY <1>1, <1>6, <1>7 DEF Once
<1>12. Used'
  BY <1>1, <1>6, <1>7, <1>8, <1>10 DEF Used
<1>13. Unsignaled'
  <2>1. e \in Fence => vk_fence[e].st # "unsignaled"
    BY <1>1, <1>5 DEF Used
  <2> QED BY <1>1, <1>8, <2>1 DEF Unsignaled
<1>14. Known'
  <2>1. \A f \in Fence : f # e => \A g \in Host : \A i : Untold(g, i, f) => Untold(g, i, f)'
    BY <1>4, <1>6, <1>7 DEF Untold
  <2> QED BY <1>1, <1>8, <1>9, <2>1 DEF Known
<1>15. SubIsFirst'
  BY <1>1, <1>3 DEF SubIsFirst, OnlyHost
<1> QED BY <1>11, <1>12, <1>13, <1>14, <1>15, TruthIsNext

\* The next batch of the call becomes its first, or the call is over.
LEMMA SubmitPushCall ==
    ASSUME TypeOK, NEW h \in Host, SubmitPush(h)
    PROVE  /\ OnlyHost(h) /\ hpc[h] = "push"
           /\ \/ /\ Len(call[h].batches) > 1 /\ hpc'[h] = "cbs"
                 /\ call'[h].batches = Tail(call[h].batches)
                 /\ call'[h].queue = call[h].queue /\ call'[h].early = call[h].early
              \/ /\ Len(call[h].batches) = 1 /\ hpc'[h] \in {"idle", "qnotify"} /\ call'[h].batches = << >>
                 /\ hpc'[h] = "qnotify" =>
                       call[h].early > 0 /\ call'[h].until = call[h].early /\ call'[h].queue = call[h].queue
<1>1. Len(call[h].batches) \in Nat /\ Len(call[h].batches) > 0 /\ hpc[h] = "push"
  <2>1. hpc[h] = "push"
    BY DEF SubmitPush
  <2>2. DOMAIN call[h].batches = 1..Len(call[h].batches) /\ Len(call[h].batches) \in Nat
    BY CallFields, LenProperties
  <2> QED BY <2>1, <2>2, BatchOne, SubmitPcOther
<1>2. CASE Len(call[h].batches) > 1
  <2> DEFINE c == [call[h] EXCEPT !.batches = Tail(call[h].batches)]
  <2>1. hpc' = [hpc EXCEPT ![h] = "cbs"] /\ call' = [call EXCEPT ![h] = c]
    BY <1>2 DEF SubmitPush, TypeOK
  <2>2. OnlyHost(h) /\ hpc'[h] = "cbs" /\ call'[h] = c
    BY <2>1 DEF OnlyHost, TypeOK
  <2> QED BY <1>1, <1>2, <2>2, CallFields DEF Call
<1>3. CASE ~(Len(call[h].batches) > 1) /\ call[h].early > 0
  <2> DEFINE c == [NoCall EXCEPT !.queue = call[h].queue, !.until = call[h].early]
  <2>1. hpc' = [hpc EXCEPT ![h] = "qnotify"] /\ call' = [call EXCEPT ![h] = c]
    BY <1>3 DEF SubmitPush, TypeOK
  <2>2. OnlyHost(h) /\ hpc'[h] = "qnotify" /\ call'[h] = c
    BY <2>1 DEF OnlyHost, TypeOK
  <2>3. call'[h].batches = << >> /\ call'[h].until = call[h].early /\ call'[h].queue = call[h].queue
    BY <2>2 DEF NoCall
  <2>4. Len(call[h].batches) = 1
    <3>1. \A n \in Nat : n > 0 /\ ~(n > 1) => n = 1
      OBVIOUS
    <3> QED BY <1>1, <1>3, <3>1
  <2> HIDE DEF c
  <2> QED BY <1>1, <1>3, <2>2, <2>3, <2>4
<1>4. CASE ~(Len(call[h].batches) > 1) /\ ~(call[h].early > 0)
  <2>1. hpc' = [hpc EXCEPT ![h] = "idle"] /\ call' = [call EXCEPT ![h] = NoCall]
    BY <1>4 DEF SubmitPush, Return
  <2>2. OnlyHost(h) /\ hpc'[h] = "idle" /\ call'[h] = NoCall
    BY <2>1 DEF OnlyHost, TypeOK
  <2>3. call'[h].batches = << >>
    BY <2>2 DEF NoCall
  <2>4. Len(call[h].batches) = 1
    <3>1. \A n \in Nat : n > 0 /\ ~(n > 1) => n = 1
      OBVIOUS
    <3> QED BY <1>1, <1>4, <3>1
  <2> QED BY <1>1, <1>4, <2>2, <2>3, <2>4
<1> QED BY <1>2, <1>3, <1>4

LEMMA TruthSubmitPush ==
    ASSUME TypeOK, FenceTruth, NEW h \in Host, SubmitPush(h)
    PROVE  FenceTruth'
<1>1. SubIsFirst /\ Unsignaled /\ Once /\ Used /\ Known
  BY TruthIs
<1>2. OnlyHost(h) /\ hpc[h] = "push" /\ hpc'[h] \in {"idle", "qnotify", "cbs"}
  BY SubmitPushCall
<1>3. \A g \in Host : \A i, f : g # h => (Untold(g, i, f)' <=> Untold(g, i, f))
  BY <1>2 DEF OnlyHost, Untold
<1>4. fence' = fence /\ vk_fence' = vk_fence
  BY DEF SubmitPush
<1>5. /\ \A i, f : Untold(h, i, f)' => i + 1 \in Nat /\ i \in Nat /\ Untold(h, i + 1, f)
      /\ \A i, f : Untold(h, i, f) => \E j : Untold(h, j, f)'
  <2>1. CASE hpc'[h] # "cbs"
    <3>1. \A i, f : ~Untold(h, i, f)'
      BY <1>2, <2>1, SubmitPcOther DEF Untold
    <3>2. Len(call[h].batches) = 1
      BY <2>1, SubmitPushCall
    <3>3. DOMAIN call[h].batches = {1}
      BY <3>2, CallFields, LenProperties
    <3>4. \A i, f : ~Untold(h, i, f)
      BY <1>2, <3>3 DEF Untold
    <3> QED BY <3>1, <3>4
  <2>2. CASE hpc'[h] = "cbs"
    <3>1. PICK bs \in Seq(CB_SUBMISSION) : bs = call[h].batches
      BY CallFields
    <3>2. call'[h].batches = Tail(bs) /\ Len(bs) > 1 /\ Len(bs) \in Nat
      BY <2>2, <3>1, SubmitPushCall, LenProperties
    <3>3. bs # << >>
      BY <3>2, EmptySeq
    <3>4. /\ DOMAIN bs = 1..Len(bs) /\ DOMAIN Tail(bs) = 1..(Len(bs) - 1)
          /\ \A i \in 1..(Len(bs) - 1) : Tail(bs)[i] = bs[i + 1]
      BY <3>2, <3>3, LenProperties, HeadTailProperties
    <3>5. \A i, f : Untold(h, i, f) <=> i \in 1..Len(bs) /\ i > 1 /\ f = bs[i].fence
      BY <1>2, <3>1, <3>4, SubmitPcOther DEF Untold
    <3>6. \A i, f : Untold(h, i, f)' <=> i \in 1..(Len(bs) - 1) /\ f = bs[i + 1].fence
      BY <2>2, <3>2, <3>4, SubmitPcOther DEF Untold
    <3>7. ASSUME NEW i, NEW f, Untold(h, i, f)' PROVE i + 1 \in Nat /\ i \in Nat /\ Untold(h, i + 1, f)
      BY <3>2, <3>5, <3>6, <3>7
    <3>8. ASSUME NEW i, NEW f, Untold(h, i, f) PROVE \E j : Untold(h, j, f)'
      <4>1. i \in 1..Len(bs) /\ i > 1 /\ f = bs[i].fence
        BY <3>5, <3>8
      <4>2. i - 1 \in 1..(Len(bs) - 1) /\ (i - 1) + 1 = i
        BY <3>2, <4>1
      <4>3. Untold(h, i - 1, f)'
        BY <3>6, <4>1, <4>2
      <4> QED BY <4>3
    <3> QED BY <3>7, <3>8
  <2> QED BY <2>1, <2>2
<1>6. Once'
  <2> SUFFICES ASSUME NEW f \in Fence, NEW g \in Host, NEW k \in Host, NEW i, NEW j, Untold(g, i, f)', Untold(k, j, f)'
               PROVE  g = k /\ i = j
    BY DEF Once
  <2>1. g = k
    BY <1>1, <1>3, <1>5 DEF Once
  <2>2. CASE g = h
    <3>1. i \in Nat /\ j \in Nat /\ Untold(h, i + 1, f) /\ Untold(h, j + 1, f)
      BY <1>5, <2>1, <2>2
    <3>2. i + 1 = j + 1
      BY <1>1, <3>1 DEF Once
    <3> QED BY <2>1, <3>1, <3>2
  <2>3. CASE g # h
    BY <1>1, <1>3, <2>1, <2>3 DEF Once
  <2> QED BY <2>2, <2>3
<1>7. Used'
  BY <1>1, <1>3, <1>4, <1>5 DEF Used
<1>8. Unsignaled'
  BY <1>1, <1>4 DEF Unsignaled
<1>9. Known'
  BY <1>1, <1>3, <1>4, <1>5 DEF Known
<1>10. SubIsFirst'
  BY <1>1, <1>2 DEF SubIsFirst, OnlyHost
<1> QED BY <1>6, <1>7, <1>8, <1>9, <1>10, TruthIsNext

-----------------------------------------------------------------------------
(* Steps that tell a fence something *)

\* What validation reads of a fence that no call names.
LEMMA FreeVerdict ==
    ASSUME FenceTruth, NEW f \in Fence, FenceFree(f), fence[f].scope = "kSyncScopeInternal"
    PROVE  fence[f].state = "FENCE_UNSIGNALED" <=> vk_fence[f].st = "unsignaled"
<1>1. Unsignaled /\ Known
  BY TruthIs
<1>2. \A h \in Host : \A i : ~Untold(h, i, f)
  BY DEF FenceFree, Untold
<1> QED BY <1>1, <1>2 DEF Unsignaled, Known

LEMMA FenceOps ==
    ASSUME NEW r \in FenceRecord
    PROVE  /\ FenceRetire(r).scope = r.scope
           /\ FenceRetire(r).state = "FENCE_UNSIGNALED" <=> r.state = "FENCE_UNSIGNALED"
           /\ FenceNotify(r) \in {r, FenceRetire(r)}
           /\ FenceReset(r).scope = "kSyncScopeInternal" => FenceReset(r).state = "FENCE_UNSIGNALED"
           /\ FenceExport(r, FALSE).scope # "kSyncScopeInternal"
           /\ FenceExport(r, TRUE).scope = "kSyncScopeInternal" => FenceExport(r, TRUE).state = "FENCE_UNSIGNALED"
<1>1. FenceRetire(r).scope = r.scope /\ (FenceRetire(r).state = "FENCE_UNSIGNALED" <=> r.state = "FENCE_UNSIGNALED")
  BY DEF FenceRetire, FenceRecord
<1>2. FenceNotify(r) \in {r, FenceRetire(r)}
  BY DEF FenceNotify
<1>3. FenceReset(r).scope = "kSyncScopeInternal" => FenceReset(r).state = "FENCE_UNSIGNALED"
  BY DEF FenceReset
<1>4. FenceExport(r, FALSE).scope # "kSyncScopeInternal"
  BY DEF FenceExport, FenceRecord
<1>5. FenceExport(r, TRUE).scope = "kSyncScopeInternal" => FenceExport(r, TRUE).state = "FENCE_UNSIGNALED"
  BY DEF FenceExport, FenceRecord
<1> QED BY <1>1, <1>2, <1>3, <1>4, <1>5

LEMMA FenceImportScope ==
    ASSUME NEW r \in FenceRecord, NEW b \in BOOLEAN
    PROVE  FenceImport(r, b).scope # "kSyncScopeInternal"
BY DEF FenceImport, ImportScope, FenceRecord

LEMMA FenceEnqueueState ==
    ASSUME NEW r \in FenceRecord, NEW q, NEW n
    PROVE  /\ FenceEnqueueSignal(r, q, n).scope = r.scope
           /\ r.scope = "kSyncScopeInternal" => FenceEnqueueSignal(r, q, n).state = "FENCE_INFLIGHT"
BY DEF FenceEnqueueSignal, FenceRetiresEarly, FenceRecord

LEMMA WaitForFenceIs ==
    ASSUME TypeOK, NEW h \in Host, NEW f \in Fence, WaitForFence(h, f)
    PROVE  /\ FenceFree(f) /\ Elsewhere(h) /\ fence[f] \in FenceRecord
           /\ \A e \in Fence : e # f => fence'[e] = fence[e] /\ vk_fence'[e] = vk_fence[e]
           /\ fence'[f] = FenceNotify(fence[f])
           /\ vk_fence[f].st # "unsignaled" /\ vk_fence'[f].st = "observed"
           /\ fence[f].state = "FENCE_INFLIGHT" => hpc'[h] = "fblock" /\ call'[h].fence = f
<1>1. FenceFree(f) /\ fence[f] \in FenceRecord /\ hpc[h] = "idle" /\ vk_fence[f].st # "unsignaled"
  BY DEF WaitForFence, TypeOK
<1>2. \A e \in Fence : e # f => fence'[e] = fence[e] /\ vk_fence'[e] = vk_fence[e]
  BY DEF WaitForFence, TypeOK
<1>3. fence'[f] = FenceNotify(fence[f]) /\ vk_fence'[f].st = "observed"
  BY DEF WaitForFence, TypeOK, VkFenceRecord
<1>4. CASE fence[f].state = "FENCE_INFLIGHT"
  <2> DEFINE c == [call[h] EXCEPT !.fence = f]
  <2>1. hpc' = [hpc EXCEPT ![h] = "fblock"] /\ call' = [call EXCEPT ![h] = c]
    BY <1>4 DEF WaitForFence, TypeOK
  <2>2. Elsewhere(h)
    BY <1>1, <2>1, MoveElsewhere, SubmitPcOther DEF TypeOK
  <2>3. hpc'[h] = "fblock" /\ call'[h].fence = f
    BY <2>1, CallFields DEF TypeOK, Call
  <2> QED BY <1>1, <1>2, <1>3, <2>2, <2>3
<1>5. CASE fence[f].state # "FENCE_INFLIGHT"
  <2>1. hpc' = hpc /\ call' = call
    BY <1>5 DEF WaitForFence
  <2>2. Elsewhere(h)
    BY <1>1, <2>1, SubmitPcOther DEF Elsewhere, OnlyHost
  <2> QED BY <1>1, <1>2, <1>3, <1>5, <2>2
<1> QED BY <1>4, <1>5

LEMMA TruthWaitForFence ==
    ASSUME TypeOK, FenceTruth, NEW h \in Host, NEW f \in Fence, WaitForFence(h, f)
    PROVE  FenceTruth'
<1>1. fence[f].scope = "kSyncScopeInternal" => fence[f].state # "FENCE_UNSIGNALED"
  BY FreeVerdict, WaitForFenceIs
<1>2. /\ fence'[f].scope = fence[f].scope
      /\ fence'[f].state = "FENCE_UNSIGNALED" <=> fence[f].state = "FENCE_UNSIGNALED"
  <2>1. PICK r \in FenceRecord : r = fence[f]
    BY WaitForFenceIs
  <2>2. fence'[f] = FenceNotify(r)
    BY <2>1, WaitForFenceIs
  <2>3. fence'[f] = r \/ fence'[f] = FenceRetire(r)
    BY <2>2, FenceOps
  <2> QED BY <2>1, <2>3, FenceOps
<1>3. SameUntold /\ SubIsFirst'
  BY WaitForFenceIs, ElsewhereUntold DEF FenceTruth
<1> QED BY <1>1, <1>2, <1>3, WaitForFenceIs, ToldTruth

\* vkResetFences, imports and exports, and the acquisition of an image.
FenceCall(h, f) ==
    \/ ResetFence(h, f)
    \/ \E b \in BOOLEAN, st \in {"unsignaled", "signaled"} : Uses("vkImportFenceFdKHR") /\ ImportFence(h, f, b, st)
    \/ Uses("vkGetFenceFdKHR") /\ ExportFence(h, f, FALSE)
    \/ Uses("vkGetFenceFdKHR_SYNC_FD") /\ ExportFence(h, f, TRUE)
    \/ \E s \in BinarySem : AcquireNextImage(h, s, f)

LEMMA FenceCallIs ==
    ASSUME TypeOK, NEW h \in Host, NEW f \in Fence, FenceCall(h, f)
    PROVE  /\ FenceFree(f) /\ hpc' = hpc /\ call' = call /\ fence[f] \in FenceRecord
           /\ \A e \in Fence : e # f => fence'[e] = fence[e] /\ vk_fence'[e] = vk_fence[e]
           /\ \/ /\ ResetFence(h, f) /\ fence'[f] = FenceReset(fence[f]) /\ vk_fence'[f].st = "unsignaled"
                 /\ vk_fence[f].st \in {"unsignaled", "observed"}
              \/ Uses("vkImportFenceFdKHR") /\ \E b \in BOOLEAN : fence'[f] = FenceImport(fence[f], b)
              \/ Uses("vkGetFenceFdKHR") /\ fence'[f] = FenceExport(fence[f], FALSE)
              \/ /\ Uses("vkGetFenceFdKHR_SYNC_FD") /\ ExportFence(h, f, TRUE)
                 /\ fence'[f] = FenceExport(fence[f], TRUE) /\ vk_fence'[f].st = "unsignaled"
              \/ /\ \E s \in BinarySem : AcquireNextImage(h, s, f)
                 /\ fence'[f] = FenceEnqueueSignal(fence[f], NoQueue, 0) /\ vk_fence'[f].st = "signaled"
                 /\ vk_fence[f].st = "unsignaled"
<1>1. FenceFree(f) /\ fence[f] \in FenceRecord /\ hpc' = hpc /\ call' = call
  BY DEF FenceCall, ResetFence, ImportFence, ExportFence, AcquireNextImage, TypeOK
<1>2. \A e \in Fence : e # f => fence'[e] = fence[e] /\ vk_fence'[e] = vk_fence[e]
  <2> SUFFICES ASSUME NEW e \in Fence, e # f PROVE fence'[e] = fence[e] /\ vk_fence'[e] = vk_fence[e]
    OBVIOUS
  <2>1. DOMAIN fence = Fence /\ DOMAIN vk_fence = Fence
    BY DEF TypeOK
  <2>2. CASE ResetFence(h, f)
    BY <2>1, <2>2 DEF ResetFence
  <2>3. ASSUME NEW b, NEW st, ImportFence(h, f, b, st) PROVE fence'[e] = fence[e] /\ vk_fence'[e] = vk_fence[e]
    BY <2>1, <2>3 DEF ImportFence
  <2>4. ASSUME NEW b, ExportFence(h, f, b) PROVE fence'[e] = fence[e] /\ vk_fence'[e] = vk_fence[e]
    BY <2>1, <2>4 DEF ExportFence
  <2>5. ASSUME NEW s, AcquireNextImage(h, s, f) PROVE fence'[e] = fence[e] /\ vk_fence'[e] = vk_fence[e]
    BY <2>1, <2>5 DEF AcquireNextImage
  <2> QED BY <2>2, <2>3, <2>4, <2>5 DEF FenceCall
<1>3. ASSUME ResetFence(h, f) PROVE /\ fence'[f] = FenceReset(fence[f]) /\ vk_fence'[f].st = "unsignaled"
                                    /\ vk_fence[f].st \in {"unsignaled", "observed"}
  BY <1>3 DEF ResetFence, TypeOK, VkFenceRecord
<1>4. ASSUME NEW b \in BOOLEAN, NEW st, ImportFence(h, f, b, st) PROVE fence'[f] = FenceImport(fence[f], b)
  BY <1>4 DEF ImportFence, TypeOK
<1>5. ASSUME ExportFence(h, f, FALSE) PROVE fence'[f] = FenceExport(fence[f], FALSE)
  BY <1>5 DEF ExportFence, TypeOK
<1>6. ASSUME ExportFence(h, f, TRUE) PROVE fence'[f] = FenceExport(fence[f], TRUE) /\ vk_fence'[f].st = "unsignaled"
  BY <1>6 DEF ExportFence, TypeOK, VkFenceRecord
<1>7. ASSUME NEW s \in BinarySem, AcquireNextImage(h, s, f)
      PROVE  /\ fence'[f] = FenceEnqueueSignal(fence[f], NoQueue, 0) /\ vk_fence'[f].st = "signaled"
             /\ vk_fence[f].st = "unsignaled"
  BY <1>7 DEF AcquireNextImage, TypeOK, VkFenceRecord
<1> QED BY <1>1, <1>2, <1>3, <1>4, <1>5, <1>6, <1>7 DEF FenceCall

LEMMA TruthFenceCall ==
    ASSUME TypeOK, FenceTruth, NEW h \in Host, NEW f \in Fence, FenceCall(h, f)
    PROVE  FenceTruth'
<1>1. fence'[f].scope = "kSyncScopeInternal" => (fence'[f].state = "FENCE_UNSIGNALED" <=> vk_fence'[f].st = "unsignaled")
  <2>1. PICK r \in FenceRecord : r = fence[f]
    BY FenceCallIs
  <2>2. \/ fence'[f] = FenceReset(r) /\ vk_fence'[f].st = "unsignaled"
        \/ \E b \in BOOLEAN : fence'[f] = FenceImport(r, b)
        \/ fence'[f] = FenceExport(r, FALSE)
        \/ fence'[f] = FenceExport(r, TRUE) /\ vk_fence'[f].st = "unsignaled"
        \/ fence'[f] = FenceEnqueueSignal(r, NoQueue, 0) /\ vk_fence'[f].st = "signaled"
    BY <2>1, FenceCallIs
  <2>3. CASE fence'[f] = FenceReset(r) /\ vk_fence'[f].st = "unsignaled"
    BY <2>3, FenceOps
  <2>4. CASE \E b \in BOOLEAN : fence'[f] = FenceImport(r, b)
    BY <2>4, FenceImportScope
  <2>5. CASE fence'[f] = FenceExport(r, FALSE)
    BY <2>5, FenceOps
  <2>6. CASE fence'[f] = FenceExport(r, TRUE) /\ vk_fence'[f].st = "unsignaled"
    BY <2>6, FenceOps
  <2>7. CASE fence'[f] = FenceEnqueueSignal(r, NoQueue, 0) /\ vk_fence'[f].st = "signaled"
    BY <2>7, FenceEnqueueState
  <2> QED BY <2>2, <2>3, <2>4, <2>5, <2>6, <2>7
<1>2. SameUntold /\ SubIsFirst'
  BY FenceCallIs, HostsUntold DEF FenceTruth
<1> QED BY <1>1, <1>2, FenceCallIs, ToldTruth

LEMMA ThreadRetireFenceIs ==
    ASSUME TypeOK, NEW q \in Queue, ThreadRetireFence(q)
    PROVE  /\ \A f \in Fence : fence[f] \in FenceRecord /\ f # tcur[q].fence => fence'[f] = fence[f]
           /\ tcur[q].fence \in Fence => fence'[tcur[q].fence] = FenceRetire(fence[tcur[q].fence])
           /\ vk_fence' = vk_fence /\ hpc' = hpc /\ call' = call
BY QueueStateAssumption DEF ThreadRetireFence, TypeOK

LEMMA TruthThreadRetireFence ==
    ASSUME TypeOK, FenceTruth, NEW q \in Queue, ThreadRetireFence(q)
    PROVE  FenceTruth'
<1>1. SubIsFirst /\ Unsignaled /\ Once /\ Used /\ Known
  BY TruthIs
<1>2. SameUntold /\ SubIsFirst'
  BY <1>1, ThreadRetireFenceIs, HostsUntold
<1>3. \A f \in Fence : /\ fence'[f].scope = fence[f].scope
                       /\ fence'[f].state = "FENCE_UNSIGNALED" <=> fence[f].state = "FENCE_UNSIGNALED"
  <2> TAKE f \in Fence
  <2>1. PICK r \in FenceRecord : r = fence[f]
    BY DEF TypeOK
  <2>2. fence'[f] = r \/ fence'[f] = FenceRetire(r)
    BY <2>1, ThreadRetireFenceIs
  <2> QED BY <2>1, <2>2, FenceOps
<1>4. vk_fence' = vk_fence
  BY ThreadRetireFenceIs
<1>5. Once' /\ Used' /\ Unsignaled' /\ Known'
  BY <1>1, <1>2, <1>3, <1>4 DEF SameUntold, Once, Used, Unsignaled, Known
<1> QED BY <1>2, <1>5, TruthIsNext

\* The device signals the fence of the batch it has executed.
LEMMA DeviceExecuteFences ==
    ASSUME TypeOK, NEW q \in Queue, DeviceExecute(q)
    PROVE  /\ fence' = fence /\ hpc' = hpc /\ call' = call
           /\ \A f \in Fence : \/ vk_fence'[f] = vk_fence[f]
                               \/ /\ vk_fence[f] = [st |-> "pending", queue |-> q, n |-> executed[q] + 1]
                                  /\ vk_fence'[f] = [vk_fence[f] EXCEPT !.st = "signaled"]
BY DEF DeviceExecute

-----------------------------------------------------------------------------
(* All steps *)

\* A step of a submission that tells its fence nothing.
SubmitStep(h) ==
    \/ \E q \in Queue : \E bs \in Calls[q] : QueueSubmit(h, q, bs)
    \/ SubmitCbs(h) \/ SubmitSeq(h) \/ SubmitWait(h) \/ SubmitSignal(h)

\* A step about semaphores only.
SemaphoreStep(h) ==
    \/ RetireTimelineBegin(h)
    \/ \E s \in Sem, b \in BOOLEAN : ImportSemaphore(h, s, b) \/ ExportSemaphore(h, s, b)

\* A step of a queue thread that tells no fence anything.
ThreadStep(q) ==
    \/ ThreadSleep(q) \/ ThreadPop(q) \/ ThreadExit(q) \/ ThreadEndUse(q) \/ ThreadRetireSemaphore(q)
    \/ ThreadLoopDone(q) \/ ThreadRetireCbs(q) \/ ThreadComplete(q)

LEMMA NextCases ==
    ASSUME Next
    PROVE  \/ \E h \in Host : OtherStep(h) \/ OtherCall(h) \/ SubmitStep(h) \/ SemaphoreStep(h)
           \/ \E h \in Host : DriverAccept(h) \/ SubmitFence(h) \/ SubmitPush(h)
           \/ \E h \in Host, f \in Fence : WaitForFence(h, f) \/ FenceCall(h, f)
           \/ \E a \in Actor : Retire(a)
           \/ \E q \in Queue : ThreadStep(q) \/ ThreadRetireFence(q) \/ DeviceExecute(q)
<1>1. ASSUME NEW h \in Host, HostStep(h)
      PROVE  \/ OtherStep(h) \/ SubmitStep(h) \/ SemaphoreStep(h) \/ DriverAccept(h) \/ SubmitFence(h) \/ SubmitPush(h) \/ Retire(h)
  BY <1>1 DEF HostStep, OtherStep, SubmitStep, SemaphoreStep
<1>2. ASSUME NEW h \in Host, HostCall(h)
      PROVE  \/ OtherCall(h) \/ SubmitStep(h) \/ SemaphoreStep(h)
             \/ \E f \in Fence : WaitForFence(h, f) \/ FenceCall(h, f)
  BY <1>2 DEF HostCall, OtherCall, SubmitStep, SemaphoreStep, FenceCall
<1>3. ASSUME NEW q \in Queue, ThreadFunc(q) PROVE ThreadStep(q) \/ ThreadRetireFence(q) \/ Retire(q)
  BY <1>3 DEF ThreadFunc, ThreadStep
<1>4. Host \subseteq Actor /\ Queue \subseteq Actor
  BY DEF Actor
<1> QED BY <1>1, <1>2, <1>3, <1>4 DEF Next

\* A step that tells no fence anything and is not one of a submission.
Still == Silent /\ hpc' = hpc /\ call' = call

LEMMA StillSteps ==
    /\ \A h \in Host : SemaphoreStep(h) => Still
    /\ \A q \in Queue : ThreadStep(q) => Still
<1>1. ASSUME NEW h \in Host, SemaphoreStep(h) PROVE Still
  BY <1>1 DEF SemaphoreStep, RetireTimelineBegin, ImportSemaphore, ExportSemaphore, Still, Silent
<1>2. ASSUME NEW q \in Queue, ThreadStep(q) PROVE Still
  BY <1>2 DEF ThreadStep, ThreadSleep, ThreadPop, ThreadExit, ThreadEndUse, ThreadRetireSemaphore, ThreadLoopDone,
              ThreadRetireCbs, ThreadComplete, Still, Silent
<1> QED BY <1>1, <1>2

LEMMA StillUntold ==
    ASSUME FenceTruth, Still
    PROVE  FenceTruth'
<1>1. SubIsFirst
  BY DEF FenceTruth
<1>2. SameUntold /\ SubIsFirst'
  BY <1>1, HostsUntold DEF Still
<1> QED BY <1>2, QuietTruth DEF Still, Silent

LEMMA NextTruth ==
    ASSUME IInv, IInv', FenceTruth, [Next]_vars
    PROVE  FenceTruth'
<1>1. TypeOK /\ TypeOK' /\ SubIsFirst
  BY DEF IInv, FenceTruth
<1>2. CASE Next
  <2>1. ASSUME NEW h \in Host, Elsewhere(h), Silent PROVE FenceTruth'
    BY <1>1, <2>1, ElsewhereUntold, QuietTruth DEF Silent
  <2>2. ASSUME NEW h \in Host, OtherStep(h) \/ OtherCall(h) PROVE FenceTruth'
    BY <1>1, <2>1, <2>2, OtherStepElsewhere, OtherCallElsewhere
  <2>3. ASSUME NEW h \in Host, SubmitStep(h) PROVE FenceTruth'
    BY <1>1, <2>3, SubmitUntold, QuietTruth DEF SubmitStep, Silent
  <2>4. ASSUME NEW h \in Host, SemaphoreStep(h) PROVE FenceTruth'
    BY <2>4, StillSteps, StillUntold
  <2>5. ASSUME NEW h \in Host, DriverAccept(h) \/ SubmitFence(h) \/ SubmitPush(h) PROVE FenceTruth'
    BY <1>1, <2>5, TruthDriverAccept, TruthSubmitFence, TruthSubmitPush
  <2>6. ASSUME NEW h \in Host, NEW f \in Fence, WaitForFence(h, f) \/ FenceCall(h, f) PROVE FenceTruth'
    BY <1>1, <2>6, TruthWaitForFence, TruthFenceCall
  <2>7. ASSUME NEW a \in Actor, Retire(a) PROVE FenceTruth'
    <3>1. Still \/ (a \in Host /\ Elsewhere(a) /\ Silent)
      BY <2>7, RetireElsewhere DEF Still
    <3> QED BY <2>1, <3>1, StillUntold
  <2>8. ASSUME NEW q \in Queue, ThreadStep(q) PROVE FenceTruth'
    BY <2>8, StillSteps, StillUntold
  <2>9. ASSUME NEW q \in Queue, ThreadRetireFence(q) PROVE FenceTruth'
    BY <1>1, <2>9, TruthThreadRetireFence
  <2>10. ASSUME NEW q \in Queue, DeviceExecute(q) PROVE FenceTruth'
    <3>1. SameUntold /\ SubIsFirst'
      BY <1>1, <2>10, DeviceExecuteFences, HostsUntold
    <3>2. \A f \in Fence : \/ vk_fence'[f].st = vk_fence[f].st
                           \/ (vk_fence[f].st = "pending" /\ vk_fence'[f].st = "signaled")
      <4> TAKE f \in Fence
      <4>1. PICK r \in VkFenceRecord : r = vk_fence[f]
        BY <1>1 DEF TypeOK
      <4>2. \/ vk_fence'[f] = r
            \/ r = [st |-> "pending", queue |-> q, n |-> executed[q] + 1] /\ vk_fence'[f] = [r EXCEPT !.st = "signaled"]
        BY <1>1, <2>10, <4>1, DeviceExecuteFences
      <4>3. [r EXCEPT !.st = "signaled"].st = "signaled"
        BY DEF VkFenceRecord
      <4> QED BY <4>1, <4>2, <4>3
    <3> QED BY <1>1, <2>10, <3>1, <3>2, DeviceExecuteFences, QuietTruth
  <2> QED BY <1>2, <2>2, <2>3, <2>4, <2>5, <2>6, <2>7, <2>8, <2>9, <2>10, NextCases
<1>3. CASE UNCHANGED vars
  <2>1. Still
    BY <1>3 DEF vars, Still, Silent
  <2> QED BY <2>1, StillUntold
<1> QED BY <1>2, <1>3

LEMMA InitTruth == Init => FenceTruth
<1> SUFFICES ASSUME Init PROVE FenceTruth
  OBVIOUS
<1>1. \A h \in Host : hpc[h] = "idle"
  BY DEF Init
<1>2. \A f \in Fence : fence[f] = NewFence(FALSE) /\ vk_fence[f].st = "unsignaled"
  BY DEF Init
<1>3. NewFence(FALSE).state = "FENCE_UNSIGNALED"
  BY DEF NewFence
<1>4. \A h \in Host : \A i, f : ~Untold(h, i, f)
  BY <1>1, SubmitPcOther DEF Untold
<1>5. SubIsFirst /\ Unsignaled /\ Once /\ Used /\ Known
  BY <1>1, <1>2, <1>3, <1>4 DEF SubIsFirst, Unsignaled, Once, Used, Known
<1> QED BY <1>5, TruthIs

\* Behind FenceVerdictExact: between the driver's acceptance of a batch and the step of
\* QUEUE_STATE::Submit() that tells its fence, the call under way accounts for it.
THEOREM TruthAlways == Spec => []FenceTruth
<1>1. IInv /\ [Next]_vars => IInv'
  BY NextKeeps
<1>2. IInv /\ FenceTruth /\ [Next]_vars => FenceTruth'
  BY <1>1, NextTruth
<1>3. Init => FenceTruth
  BY InitTruth
<1> QED BY <1>2, <1>3, Invariance, PTL DEF Spec

\* What ValidateFenceForSubmit reads of a fence that the layer tracks and no call names is
\* the truth, with any imports, exports and resets and any retirement under way.
THEOREM FenceVerdict == Spec => []FenceVerdictExact
<1>1. FenceTruth => FenceVerdictExact
  BY FreeVerdict DEF FenceVerdictExact
<1> QED BY <1>1, TruthAlways, PTL

-----------------------------------------------------------------------------
(* The promise behind a wait *)

LEMMA PromisedOps ==
    ASSUME NEW r \in FenceRecord, Promised(r)
    PROVE  /\ Promised(FenceRetire(r)) /\ Promised(FenceNotify(r)) /\ Promised(FenceReset(r))
           /\ Promised(FenceExport(r, FALSE)) /\ \A b \in BOOLEAN : Promised(FenceImport(r, b))
<1>1. r.completed \in Nat /\ r.state \in FENCE_STATUS /\ r.scope \in SyncScope
  BY DEF FenceRecord
<1>2. Promised(FenceRetire(r))
  <2>1. CASE r.state = "FENCE_INFLIGHT"
    <3>1. FenceRetire(r).state = "FENCE_RETIRED" /\ FenceRetire(r).completed = 1
      BY <2>1 DEF FenceRetire, FenceRecord, Promised
    <3> QED BY <3>1 DEF Promised
  <2>2. CASE r.state # "FENCE_INFLIGHT"
    BY <2>2 DEF FenceRetire
  <2> QED BY <2>1, <2>2
<1>3. Promised(FenceNotify(r))
  BY <1>2 DEF FenceNotify
<1>4. Promised(FenceReset(r))
  BY DEF FenceReset, Promised
<1>5. Promised(FenceExport(r, FALSE))
  BY <1>1 DEF FenceExport, FenceRecord, Promised
<1>6. ASSUME NEW b \in BOOLEAN PROVE Promised(FenceImport(r, b))
  <2>1. /\ FenceImport(r, b).state = r.state /\ FenceImport(r, b).completed = r.completed
    BY DEF FenceImport, FenceRecord
  <2> QED BY <2>1, FenceImportScope DEF Promised
<1> QED BY <1>2, <1>3, <1>4, <1>5, <1>6

LEMMA PromisedEnqueue ==
    ASSUME NEW r \in FenceRecord, Promised(r), NEW q, NEW n,
           r.scope = "kSyncScopeInternal" => r.state = "FENCE_UNSIGNALED"
    PROVE  Promised(FenceEnqueueSignal(r, q, n))
<1>1. CASE r.scope = "kSyncScopeInternal"
  <2>1. /\ FenceEnqueueSignal(r, q, n).state = "FENCE_INFLIGHT" /\ FenceEnqueueSignal(r, q, n).completed = 0
    BY <1>1 DEF FenceEnqueueSignal, FenceRetiresEarly, FenceRecord, Promised
  <2> QED BY <2>1 DEF Promised
<1>2. CASE r.scope # "kSyncScopeInternal"
  BY <1>2 DEF FenceEnqueueSignal, FenceRetiresEarly
<1> QED BY <1>1, <1>2

\* What a step may tell a fence.
LEMMA SubmitFenceIs ==
    ASSUME TypeOK, FenceTruth, NEW h \in Host, SubmitFence(h)
    PROVE  /\ \A f \in Fence : f # call[h].sub.fence => fence'[f] = fence[f]
           /\ call[h].sub.fence \in Fence =>
                 /\ fence'[call[h].sub.fence] = FenceEnqueueSignal(fence[call[h].sub.fence], call[h].queue, call[h].sub.seq)
                 /\ fence[call[h].sub.fence].scope = "kSyncScopeInternal" => fence[call[h].sub.fence].state = "FENCE_UNSIGNALED"
<1>1. SubIsFirst /\ Used
  BY TruthIs
<1>2. PICK e : e = call[h].sub.fence
  OBVIOUS
<1>3. hpc[h] = "enqueue"
  BY SubmitFenceCall
<1>4. Untold(h, 1, e)
  BY <1>1, <1>2, <1>3, BatchOne, SubmitPcOther DEF Untold, SubIsFirst
<1>5. \A f \in Fence : f # e => fence'[f] = fence[f]
  BY <1>2 DEF SubmitFence, TypeOK
<1>6. e \in Fence => fence'[e] = FenceEnqueueSignal(fence[e], call[h].queue, call[h].sub.seq)
  BY <1>2, QueueStateAssumption DEF SubmitFence, TypeOK
<1>7. e \in Fence /\ fence[e].scope = "kSyncScopeInternal" => fence[e].state = "FENCE_UNSIGNALED"
  BY <1>1, <1>4 DEF Used
<1> QED BY <1>2, <1>5, <1>6, <1>7

LEMMA AcquireFree ==
    ASSUME TypeOK, FenceTruth, NEW f \in Fence, FenceFree(f), vk_fence[f].st = "unsignaled",
           fence[f].scope = "kSyncScopeInternal"
    PROVE  fence[f].state = "FENCE_UNSIGNALED"
BY FreeVerdict

LEMMA SubmitStepSilent ==
    ASSUME IInv, IInv', FenceTruth, NEW h \in Host, SubmitStep(h)
    PROVE  Silent
<1>1. TypeOK /\ TypeOK' /\ SubIsFirst
  BY DEF IInv, FenceTruth
<1> QED BY <1>1, SubmitUntold DEF SubmitStep

LEMMA NextPromises ==
    ASSUME IInv, IInv', FenceTruth, Promises, Next, ~Uses("vkGetFenceFdKHR_SYNC_FD")
    PROVE  Promises'
<1>1. TypeOK
  BY DEF IInv
<1> SUFFICES ASSUME NEW e \in Fence PROVE Promised(fence'[e])
  BY DEF Promises
<1>2. PICK r \in FenceRecord : r = fence[e]
  BY <1>1 DEF TypeOK
<1>3. Promised(r)
  BY <1>2 DEF Promises
<1>4. ASSUME Silent PROVE Promised(fence'[e])
  BY <1>2, <1>3, <1>4 DEF Silent
<1>5. ASSUME NEW h \in Host, OtherStep(h) \/ OtherCall(h) \/ SubmitStep(h) \/ SemaphoreStep(h) PROVE Promised(fence'[e])
  BY <1>1, <1>4, <1>5, SubmitStepSilent, OtherStepElsewhere, OtherCallElsewhere, StillSteps DEF Still
<1>6. ASSUME NEW h \in Host, DriverAccept(h) \/ SubmitPush(h) PROVE Promised(fence'[e])
  <2>1. fence' = fence
    BY <1>6 DEF DriverAccept, SubmitPush
  <2> QED BY <1>2, <1>3, <2>1
<1>7. ASSUME NEW h \in Host, SubmitFence(h) PROVE Promised(fence'[e])
  <2>1. CASE e # call[h].sub.fence
    BY <1>1, <1>2, <1>3, <1>7, <2>1, SubmitFenceIs
  <2>2. CASE e = call[h].sub.fence
    <3>1. /\ fence'[e] = FenceEnqueueSignal(r, call[h].queue, call[h].sub.seq)
          /\ r.scope = "kSyncScopeInternal" => r.state = "FENCE_UNSIGNALED"
      BY <1>1, <1>2, <1>7, <2>2, SubmitFenceIs
    <3>2. PICK q, n : q = call[h].queue /\ n = call[h].sub.seq
      OBVIOUS
    <3> QED BY <1>3, <3>1, <3>2, PromisedEnqueue
  <2> QED BY <2>1, <2>2
<1>8. ASSUME NEW h \in Host, NEW f \in Fence, WaitForFence(h, f) PROVE Promised(fence'[e])
  <2>1. fence'[e] = r \/ fence'[e] = FenceNotify(r)
    BY <1>1, <1>2, <1>8, WaitForFenceIs
  <2> QED BY <1>3, <2>1, PromisedOps
<1>9. ASSUME NEW h \in Host, NEW f \in Fence, FenceCall(h, f) PROVE Promised(fence'[e])
  <2>1. CASE e # f
    BY <1>1, <1>2, <1>3, <1>9, <2>1, FenceCallIs
  <2>2. CASE e = f
    <3>1. \/ fence'[e] = FenceReset(r)
          \/ \E b \in BOOLEAN : fence'[e] = FenceImport(r, b)
          \/ fence'[e] = FenceExport(r, FALSE)
          \/ fence'[e] = FenceEnqueueSignal(r, NoQueue, 0) /\ vk_fence[e].st = "unsignaled"
      BY <1>1, <1>2, <1>9, <2>2, FenceCallIs
    <3>2. ASSUME fence'[e] = FenceEnqueueSignal(r, NoQueue, 0), vk_fence[e].st = "unsignaled" PROVE Promised(fence'[e])
      <4>1. r.scope = "kSyncScopeInternal" => r.state = "FENCE_UNSIGNALED"
        BY <1>1, <1>2, <1>9, <2>2, <3>2, FenceCallIs, AcquireFree
      <4>2. PICK q, n : q = NoQueue /\ n = 0
        OBVIOUS
      <4> QED BY <1>3, <3>2, <4>1, <4>2, PromisedEnqueue
    <3> QED BY <1>3, <3>1, <3>2, PromisedOps
  <2> QED BY <2>1, <2>2
<1>10. ASSUME NEW a \in Actor, Retire(a) PROVE Promised(fence'[e])
  BY <1>4, <1>10, RetireElsewhere
<1>11. ASSUME NEW q \in Queue, ThreadStep(q) \/ DeviceExecute(q) PROVE Promised(fence'[e])
  BY <1>1, <1>2, <1>3, <1>4, <1>11, StillSteps, DeviceExecuteFences DEF Still
<1>12. ASSUME NEW q \in Queue, ThreadRetireFence(q) PROVE Promised(fence'[e])
  <2>1. fence'[e] = r \/ fence'[e] = FenceRetire(r)
    BY <1>1, <1>2, <1>12, ThreadRetireFenceIs
  <2> QED BY <1>3, <2>1, PromisedOps
<1> QED BY <1>5, <1>6, <1>7, <1>8, <1>9, <1>10, <1>11, <1>12, NextCases

LEMMA InitPromises == Init => Promises
<1>1. Promised(NewFence(FALSE))
  BY DEF Promised, NewFence
<1>2. Init => \A f \in Fence : fence[f] = NewFence(FALSE)
  BY DEF Init
<1> QED BY <1>1, <1>2 DEF Promises

LEMMA PromisesAlways ==
    ASSUME ~Uses("vkGetFenceFdKHR_SYNC_FD")
    PROVE  Spec => []Promises
<1>1. IInv /\ FenceTruth /\ Promises /\ [Next]_vars => Promises'
  <2>1. ASSUME UNCHANGED vars, Promises PROVE Promises'
    BY <2>1 DEF vars, Promises
  <2> QED BY <2>1, NextPromises, NextKeeps
<1> QED BY <1>1, InitPromises, Invariance, TruthAlways, PTL DEF Spec

\* completed_.set_value() is called at most once per promise, whatever waits, retirements,
\* resets, imports and exports by reference interleave, as long as no fence is exported
\* as a SYNC_FD: Export() then makes the fence UNSIGNALED without renewing the promise.
THEOREM PromiseKept ==
    ASSUME "vkGetFenceFdKHR_SYNC_FD" \notin ApiUsed
    PROVE  Spec => []PromiseOnce
<1>1. ~Uses("vkGetFenceFdKHR_SYNC_FD")
  BY DEF Uses
<1>2. Promises => PromiseOnce
  BY DEF Promises, Promised, PromiseOnce
<1> QED BY <1>1, <1>2, PromisesAlways, PTL

-----------------------------------------------------------------------------
(* The order in which a fence is retired *)

\* A thread that has no submission in hand.
OutPc == {"none", "next", "asleep", "exited"}

\* The threads keep what they have, and the deques too.
ThreadsStay ==
    /\ submissions_' = submissions_ /\ tcur' = tcur /\ done_' = done_
    /\ \A q \in Queue : tpc'[q] = tpc[q] \/ (tpc[q] \in OutPc /\ tpc'[q] \in OutPc)

\* No host thread comes to hold a submission, and none stops waiting for a fence.
HostsOwe  == \A h \in Host : hpc'[h] = "push" => hpc[h] = "push" /\ call'[h] = call[h]
HostsWait == \A h \in Host : hpc[h] = "fblock" => hpc'[h] = "fblock" /\ call'[h].fence = call[h].fence

LEMMA OutIs ==
    /\ \A q : InThread(q) <=> tpc[q] \in {"enduse", "waits", "cbs", "signals", "fence", "complete"}
    /\ OutPc \cap {"enduse", "waits", "cbs", "signals", "fence", "complete"} = {}
BY DEF InThread, OutPc

LEMMA NotifyStays ==
    ASSUME TypeOK, NEW p \in Queue, NEW n, Notify(p, n)
    PROVE  \A q \in Queue : tpc'[q] = tpc[q] \/ (tpc[q] \in OutPc /\ tpc'[q] \in OutPc)
BY DEF Notify, Woken, TypeOK, OutPc

LEMMA CallQueue ==
    ASSUME TypeOK, NEW h \in Host, hpc[h] \in QueuePc
    PROVE  call[h].queue \in Queue
BY DEF TypeOK

LEMMA QueuePcIs ==
    QueuePc = {"driver", "cbs", "seq", "enqueue", "push", "qnotify", "qwait", "qblock", "qexit", "qjoin"}
BY DEF QueuePc, SubmitPc, IdlePc

LEMMA OtherStepStays ==
    ASSUME TypeOK, NEW h \in Host, OtherStep(h)
    PROVE  ThreadsStay
<1>1. CASE QueueNotify(h)
  <2>1. call[h].queue \in Queue
    BY <1>1, CallQueue, QueuePcIs DEF QueueNotify
  <2>2. submissions_' = submissions_ /\ tcur' = tcur /\ done_' = done_ /\ \E n : Notify(call[h].queue, n)
    BY <1>1 DEF QueueNotify
  <2> QED BY <2>1, <2>2, NotifyStays DEF ThreadsStay
<1>2. CASE QueueWait(h) \/ QueueWaitReady(h) \/ FenceWaitReady(h)
  BY <1>2 DEF QueueWait, QueueWaitReady, FenceWaitReady, ThreadsStay
<1>3. CASE SemaphoreWait(h) \/ SemaphoreReady(h) \/ RetireTimelineEnqueue(h)
  BY <1>3 DEF SemaphoreWait, SemaphoreReady, RetireTimelineEnqueue, ThreadsStay
<1>4. CASE SemaphorePoke(h)
  <2>1. \A q \in Queue : tpc'[q] \in {tpc[q], Woken(tpc[q])}
    BY <1>4 DEF SemaphorePoke
  <2>2. \A q \in Queue : Woken(tpc[q]) = tpc[q] \/ (tpc[q] \in OutPc /\ Woken(tpc[q]) \in OutPc)
    BY DEF Woken, OutPc
  <2> QED BY <1>4, <2>1, <2>2 DEF SemaphorePoke, ThreadsStay
<1>5. CASE DestroyNotify(h)
  <2>1. call[h].queue \in Queue
    BY <1>5, CallQueue, QueuePcIs DEF DestroyNotify
  <2> QED BY <1>5, <2>1 DEF DestroyNotify, ThreadsStay, Woken, OutPc, TypeOK
<1>6. CASE DestroyJoin(h)
  BY <1>6 DEF DestroyJoin, ThreadsStay
<1> QED BY <1>1, <1>2, <1>3, <1>4, <1>5, <1>6 DEF OtherStep

LEMMA OtherCallStays ==
    ASSUME NEW h \in Host, OtherCall(h)
    PROVE  ThreadsStay
<1>1. ASSUME NEW q, QueueWaitIdle(h, q) \/ DeviceWaitIdle(h, q) \/ DestroyDevice(h, q) PROVE ThreadsStay
  BY <1>1 DEF QueueWaitIdle, DeviceWaitIdle, DestroyDevice, ThreadsStay
<1>2. ASSUME NEW s, NEW p, WaitSemaphore(h, s, p) \/ SignalSemaphore(h, s, p) PROVE ThreadsStay
  BY <1>2 DEF WaitSemaphore, SignalSemaphore, ThreadsStay
<1> QED BY <1>1, <1>2 DEF OtherCall

LEMMA RetireStays ==
    ASSUME TypeOK, TypeOK', NEW a \in Actor, Retire(a)
    PROVE  ThreadsStay
<1> DEFINE op == Head(sem[frame[a].semaphore].operations)
<1>1. submissions_' = submissions_ /\ tcur' = tcur /\ done_' = done_
  BY DEF Retire, RetireAtOnce, RetireWaitOther, RetireResume, RetireEnd
<1>2. tpc' = tpc \/ \E n : Notify(op.queue, n)
  BY DEF Retire, RetireAtOnce, RetireWaitOther, RetireResume, RetireEnd
<1>3. CASE op.queue \in Queue
  BY <1>1, <1>2, <1>3, NotifyStays DEF ThreadsStay
<1>4. CASE op.queue \notin Queue
  <2>1. PICK p : p = op.queue
    OBVIOUS
  <2>2. tpc' = [tpc EXCEPT ![p] = Woken(tpc[p])] => \A q \in Queue : tpc'[q] = tpc[q]
    <3>1. \A q \in Queue : p # q
      BY <1>4, <2>1
    <3>2. tpc \in [Queue -> ThreadPc]
      BY DEF TypeOK
    <3> HIDE DEF op
    <3> QED BY <3>1, <3>2
  <2>3. (\E n : Notify(p, n)) => tpc' = [tpc EXCEPT ![p] = Woken(tpc[p])]
    BY DEF Notify
  <2>4. \A q \in Queue : tpc'[q] = tpc[q]
    BY <1>2, <2>1, <2>2, <2>3
  <2> QED BY <1>1, <2>4 DEF ThreadsStay
<1> QED BY <1>3, <1>4

LEMMA SubmitStays ==
    ASSUME NEW h \in Host, SubmitStep(h) \/ SemaphoreStep(h) \/ DriverAccept(h) \/ SubmitFence(h)
    PROVE  ThreadsStay
<1>1. tpc' = tpc /\ submissions_' = submissions_ /\ tcur' = tcur /\ done_' = done_
  <2>1. ASSUME NEW q, NEW bs, QueueSubmit(h, q, bs) PROVE tpc' = tpc /\ submissions_' = submissions_ /\ tcur' = tcur /\ done_' = done_
    BY <2>1 DEF QueueSubmit
  <2>2. CASE SubmitCbs(h)
    BY <2>2 DEF SubmitCbs
  <2>3. CASE SubmitSeq(h)
    BY <2>3 DEF SubmitSeq
  <2>4. CASE SubmitWait(h)
    BY <2>4, Zenon DEF SubmitWait
  <2>5. CASE SubmitSignal(h)
    BY <2>5, Zenon DEF SubmitSignal
  <2>6. CASE DriverAccept(h)
    BY <2>6, Zenon DEF DriverAccept
  <2>7. CASE SubmitFence(h)
    BY <2>7 DEF SubmitFence
  <2>8. CASE SemaphoreStep(h)
    BY <2>8 DEF SemaphoreStep, RetireTimelineBegin, ImportSemaphore, ExportSemaphore
  <2> QED BY <2>1, <2>2, <2>3, <2>4, <2>5, <2>6, <2>7, <2>8 DEF SubmitStep
<1> QED BY <1>1 DEF ThreadsStay

LEMMA FenceCallStays ==
    ASSUME TypeOK, NEW h \in Host, NEW f \in Fence, WaitForFence(h, f) \/ FenceCall(h, f)
    PROVE  ThreadsStay
<1>1. CASE WaitForFence(h, f)
  <2>1. submissions_' = submissions_ /\ tcur' = tcur /\ done_' = done_
    BY <1>1 DEF WaitForFence
  <2>2. CASE FenceNotifiesQueue(fence[f])
    <3>1. fence[f].queue \in Queue
      BY <2>2 DEF FenceNotifiesQueue, FenceRecord, TypeOK
    <3>2. Notify(fence[f].queue, fence[f].seq)
      BY <1>1, <2>2 DEF WaitForFence
    <3> QED BY <2>1, <3>1, <3>2, NotifyStays DEF ThreadsStay
  <2>3. CASE ~FenceNotifiesQueue(fence[f])
    BY <1>1, <2>1, <2>3 DEF WaitForFence, ThreadsStay
  <2> QED BY <2>2, <2>3
<1>2. CASE FenceCall(h, f)
  BY <1>2 DEF FenceCall, ResetFence, ImportFence, ExportFence, AcquireNextImage, ThreadsStay
<1> QED BY <1>1, <1>2

LEMMA ThreadStays ==
    ASSUME TypeOK, NEW q \in Queue,
           ThreadSleep(q) \/ ThreadExit(q) \/ ThreadRetireSemaphore(q) \/ DeviceExecute(q)
    PROVE  ThreadsStay
<1>1. CASE ThreadSleep(q) \/ ThreadExit(q)
  BY <1>1 DEF ThreadSleep, ThreadExit, ThreadsStay, OutPc, TypeOK
<1>2. CASE ThreadRetireSemaphore(q) \/ DeviceExecute(q)
  BY <1>2 DEF ThreadRetireSemaphore, DeviceExecute, ThreadsStay
<1> QED BY <1>1, <1>2

\* Owes, written out.
LEMMA OwesIs ==
    \A q, f, n : n \in Owes(q, f) <=>
        \/ \E i \in DOMAIN submissions_[q] : submissions_[q][i].fence = f /\ submissions_[q][i].seq = n
        \/ InThread(q) /\ tpc[q] # "complete" /\ tcur[q].fence = f /\ tcur[q].seq = n
        \/ \E h \in Host : hpc[h] = "push" /\ call[h].queue = q /\ call[h].sub.fence = f /\ call[h].sub.seq = n
BY DEF Owes, Elements

LEMMA OwesIsNext ==
    \A q, f, n : n \in Owes(q, f)' <=>
        \/ \E i \in DOMAIN submissions_'[q] : submissions_'[q][i].fence = f /\ submissions_'[q][i].seq = n
        \/ InThread(q)' /\ tpc'[q] # "complete" /\ tcur'[q].fence = f /\ tcur'[q].seq = n
        \/ \E h \in Host : hpc'[h] = "push" /\ call'[h].queue = q /\ call'[h].sub.fence = f /\ call'[h].sub.seq = n
BY DEF Owes, Elements

\* The retirement of q has come as far as a fence of submission n needs.
Far(q, n) == CbsRetired(q) >= n /\ done_[q] >= n - 1

OwesLess == \A q \in Queue, f \in Fence : \A n : n \in Owes(q, f)' => n \in Owes(q, f)
FarKept  == \A q \in Queue : \A n \in Nat : Far(q, n) => Far(q, n)'

LEMMA StayOwes ==
    ASSUME ThreadsStay, HostsOwe
    PROVE  OwesLess
<1> SUFFICES ASSUME NEW q \in Queue, NEW f \in Fence, NEW n, n \in Owes(q, f)' PROVE n \in Owes(q, f)
  BY DEF OwesLess
<1>1. InThread(q)' <=> InThread(q)
  BY OutIs DEF ThreadsStay, InThread, OutPc
<1>2. InThread(q) => tpc'[q] = tpc[q]
  BY OutIs DEF ThreadsStay
<1>3. ASSUME NEW h \in Host, hpc'[h] = "push" PROVE hpc[h] = "push" /\ call'[h] = call[h]
  BY <1>3 DEF HostsOwe
<1>4. submissions_' = submissions_ /\ tcur' = tcur
  BY DEF ThreadsStay
<1>5. CASE \E i \in DOMAIN submissions_'[q] : submissions_'[q][i].fence = f /\ submissions_'[q][i].seq = n
  BY <1>4, <1>5, OwesIs
<1>6. CASE InThread(q)' /\ tpc'[q] # "complete" /\ tcur'[q].fence = f /\ tcur'[q].seq = n
  BY <1>1, <1>2, <1>4, <1>6, OwesIs
<1>7. CASE \E h \in Host : hpc'[h] = "push" /\ call'[h].queue = q /\ call'[h].sub.fence = f /\ call'[h].sub.seq = n
  BY <1>3, <1>7, OwesIs
<1> QED BY <1>5, <1>6, <1>7, OwesIsNext

LEMMA StayFar ==
    ASSUME ThreadsStay
    PROVE  FarKept
<1> SUFFICES ASSUME NEW q \in Queue, NEW n \in Nat, Far(q, n) PROVE Far(q, n)'
  BY DEF FarKept
<1>1. done_' = done_ /\ tcur' = tcur
  BY DEF ThreadsStay
<1>2. CbsRetired(q)' = CbsRetired(q)
  BY <1>1 DEF ThreadsStay, CbsRetired, OutPc
<1> QED BY <1>1, <1>2 DEF Far

\* No fence is told anything.
LEMMA QuietOrder ==
    ASSUME TypeOK, FenceOrder, fence' = fence, OwesLess, FarKept, SeenIsAwaited'
    PROVE  FenceOrder'
<1>1. Tracked'
  BY DEF FenceOrder, Tracked
<1>2. Outstanding'
  BY DEF FenceOrder, Outstanding, OwesLess
<1>3. FenceRetiredLast'
  <2> SUFFICES ASSUME NEW f \in Fence, fence[f].state = "FENCE_RETIRED", fence[f].queue # NoQueue
               PROVE  Far(fence[f].queue, fence[f].seq)'
    BY DEF FenceRetiredLast, Far
  <2>1. fence[f].queue \in Queue /\ fence[f].seq \in Nat
    BY DEF TypeOK, FenceRecord
  <2>2. Far(fence[f].queue, fence[f].seq)
    BY DEF FenceOrder, FenceRetiredLast, Far
  <2>3. PICK q \in Queue, n \in Nat : q = fence[f].queue /\ n = fence[f].seq
    BY <2>1
  <2>4. Far(q, n)'
    BY <2>2, <2>3 DEF FarKept
  <2> QED BY <2>3, <2>4
<1> QED BY <1>1, <1>2, <1>3 DEF FenceOrder

\* A fence that no submission owes is told something.
LEMMA ToldOrder ==
    ASSUME TypeOK, FenceOrder, OwesLess, FarKept, SeenIsAwaited', NEW f \in Fence,
           \A e \in Fence : e # f => fence'[e] = fence[e],
           \A q \in Queue : Owes(q, f) = {},
           fence'[f].scope = "kSyncScopeInternal", fence'[f].state = "FENCE_RETIRED" => fence'[f].queue = NoQueue
    PROVE  FenceOrder'
<1>1. Tracked'
  BY DEF FenceOrder, Tracked
<1>2. Outstanding'
  <2> SUFFICES ASSUME NEW q \in Queue, NEW e \in Fence, NEW n, n \in Owes(q, e)' PROVE InFlightFor(fence'[e], q, n)
    BY DEF Outstanding, InFlightFor
  <2>1. n \in Owes(q, e) /\ e # f
    BY DEF OwesLess
  <2> QED BY <2>1 DEF FenceOrder, Outstanding
<1>3. FenceRetiredLast'
  <2> SUFFICES ASSUME NEW e \in Fence, fence'[e].state = "FENCE_RETIRED", fence'[e].queue # NoQueue
               PROVE  Far(fence[e].queue, fence[e].seq)'
    BY DEF FenceRetiredLast, Far
  <2>1. e # f /\ fence'[e] = fence[e]
    OBVIOUS
  <2>2. fence[e].queue \in Queue /\ fence[e].seq \in Nat
    BY <2>1 DEF TypeOK, FenceRecord
  <2>3. Far(fence[e].queue, fence[e].seq)
    BY <2>1 DEF FenceOrder, FenceRetiredLast, Far
  <2>4. PICK q \in Queue, n \in Nat : q = fence[e].queue /\ n = fence[e].seq
    BY <2>2
  <2>5. Far(q, n)'
    BY <2>3, <2>4 DEF FarKept
  <2> QED BY <2>1, <2>4, <2>5
<1> QED BY <1>1, <1>2, <1>3 DEF FenceOrder

\* Nobody stops waiting, and no fence in flight is seen signaled that was not.
LEMMA AwaitKept ==
    ASSUME SeenIsAwaited, HostsWait,
           \A f \in Fence : fence'[f].state = "FENCE_INFLIGHT" /\ vk_fence'[f].st = "observed" =>
               fence[f].state = "FENCE_INFLIGHT" /\ vk_fence[f].st = "observed"
    PROVE  SeenIsAwaited'
BY DEF SeenIsAwaited, HostsWait

LEMMA SilentOrder ==
    ASSUME TypeOK, FenceOrder, ThreadsStay, HostsOwe, HostsWait, Silent
    PROVE  FenceOrder'
<1>1. SeenIsAwaited'
  BY AwaitKept DEF FenceOrder, Silent
<1> QED BY <1>1, StayOwes, StayFar, QuietOrder DEF Silent

LEMMA HostsElsewhere ==
    ASSUME NEW h \in Host, Elsewhere(h)
    PROVE  HostsOwe /\ (hpc[h] # "fblock" => HostsWait)
<1>1. HostsOwe
  BY SubmitPcOther DEF Elsewhere, OnlyHost, HostsOwe
<1>2. hpc[h] # "fblock" => HostsWait
  BY DEF Elsewhere, OnlyHost, HostsWait
<1> QED BY <1>1, <1>2

LEMMA HostsSubmit ==
    ASSUME TypeOK, NEW h \in Host, SubmitStep(h) \/ DriverAccept(h)
    PROVE  HostsOwe /\ HostsWait
<1>1. OnlyHost(h) /\ hpc[h] # "fblock" /\ hpc'[h] # "push"
  <2>1. ASSUME NEW q, NEW bs, QueueSubmit(h, q, bs) PROVE OnlyHost(h) /\ hpc[h] # "fblock" /\ hpc'[h] # "push"
    BY <2>1 DEF QueueSubmit, OnlyHost, TypeOK
  <2>2. CASE SubmitCbs(h)
    BY <2>2 DEF SubmitCbs, OnlyHost, TypeOK
  <2>3. CASE SubmitSeq(h)
    BY <2>3, SubmitSeqCall
  <2>4. CASE SubmitWait(h)
    BY <2>4, SubmitWaitCall
  <2>5. CASE SubmitSignal(h)
    BY <2>5, SubmitSignalCall
  <2>6. CASE DriverAccept(h)
    <3>1. hpc[h] = "driver"
      BY <2>6 DEF DriverAccept
    <3> QED BY <2>6, <3>1, DriverAcceptCall
  <2> QED BY <2>1, <2>2, <2>3, <2>4, <2>5, <2>6 DEF SubmitStep
<1> QED BY <1>1 DEF OnlyHost, HostsOwe, HostsWait

\* A wait for a fence ends: the fence is not in flight any more.
LEMMA OrderFenceReady ==
    ASSUME TypeOK, FenceOrder, Promises, NEW h \in Host, FenceWaitReady(h)
    PROVE  FenceOrder'
<1>1. OtherStep(h) /\ hpc[h] = "fblock" /\ fence[call[h].fence].completed > 0
  BY DEF OtherStep, FenceWaitReady, FenceReady
<1>2. Elsewhere(h) /\ Silent /\ ThreadsStay
  BY <1>1, OtherStepElsewhere, OtherStepStays
<1>3. call[h].fence \in Fence
  BY <1>1 DEF TypeOK
<1>4. fence[call[h].fence].state # "FENCE_INFLIGHT"
  BY <1>1, <1>3 DEF Promises, Promised
<1>5. SeenIsAwaited'
  BY <1>2, <1>4 DEF FenceOrder, SeenIsAwaited, Elsewhere, OnlyHost, Silent
<1> QED BY <1>2, <1>5, HostsElsewhere, StayOwes, StayFar, QuietOrder DEF Silent

\* Every step of a call but the ones above and the submission of a fence.
LEMMA OrderHost ==
    ASSUME IInv, IInv', FenceTruth, Promises, FenceOrder, NEW h \in Host,
           OtherStep(h) \/ OtherCall(h) \/ SubmitStep(h) \/ SemaphoreStep(h)
    PROVE  FenceOrder'
<1>1. TypeOK
  BY DEF IInv
<1>2. CASE FenceWaitReady(h)
  BY <1>1, <1>2, OrderFenceReady
<1>3. CASE OtherStep(h) /\ ~FenceWaitReady(h)
  <2>1. hpc[h] # "fblock"
    BY <1>3 DEF OtherStep, QueueNotify, QueueWait, QueueWaitReady, SemaphoreWait, SemaphorePoke, SemaphoreReady,
                RetireTimelineEnqueue, DestroyNotify, DestroyJoin
  <2> QED BY <1>1, <1>3, <2>1, OtherStepElsewhere, OtherStepStays, HostsElsewhere, SilentOrder
<1>4. CASE OtherCall(h)
  <2>1. hpc[h] = "idle"
    <3>1. ASSUME NEW q \in Queue, QueueWaitIdle(h, q) \/ DeviceWaitIdle(h, q) \/ DestroyDevice(h, q) PROVE hpc[h] = "idle"
      BY <3>1 DEF QueueWaitIdle, DeviceWaitIdle, DestroyDevice
    <3>2. ASSUME NEW s, NEW p, WaitSemaphore(h, s, p) \/ SignalSemaphore(h, s, p) PROVE hpc[h] = "idle"
      BY <3>2 DEF WaitSemaphore, SignalSemaphore
    <3> QED BY <1>4, <3>1, <3>2 DEF OtherCall
  <2> QED BY <1>1, <1>4, <2>1, OtherCallElsewhere, OtherCallStays, HostsElsewhere, SilentOrder
<1>5. CASE SubmitStep(h)
  BY <1>1, <1>5, SubmitStepSilent, SubmitStays, HostsSubmit, SilentOrder
<1>6. CASE SemaphoreStep(h)
  <2>1. Still
    BY <1>6, StillSteps
  <2>2. HostsOwe /\ HostsWait
    BY <2>1 DEF Still, HostsOwe, HostsWait
  <2> QED BY <1>1, <1>6, <2>1, <2>2, SubmitStays, SilentOrder DEF Still
<1> QED BY <1>2, <1>3, <1>4, <1>5, <1>6

LEMMA OrderDriver ==
    ASSUME TypeOK, FenceOrder, NEW h \in Host, DriverAccept(h)
    PROVE  FenceOrder'
<1>1. fence' = fence
  BY DEF DriverAccept
<1>2. PICK e : e = call[h].batches[call[h].idx + 1].fence
  OBVIOUS
<1>3. \A f \in Fence : vk_fence'[f] = vk_fence[f] \/ vk_fence'[f].st = "pending"
  BY <1>2 DEF DriverAccept, TypeOK
<1>4. SeenIsAwaited'
  BY <1>1, <1>3, HostsSubmit, AwaitKept DEF FenceOrder
<1> QED BY <1>1, <1>4, HostsSubmit, SubmitStays, StayOwes, StayFar, QuietOrder

LEMMA OrderDevice ==
    ASSUME TypeOK, FenceOrder, NEW q \in Queue, DeviceExecute(q)
    PROVE  FenceOrder'
<1>1. fence' = fence /\ HostsOwe /\ HostsWait
  BY DeviceExecuteFences DEF HostsOwe, HostsWait
<1>2. \A f \in Fence : vk_fence'[f].st = "observed" => vk_fence[f].st = "observed"
  <2> SUFFICES ASSUME NEW f \in Fence, vk_fence'[f].st = "observed" PROVE vk_fence[f].st = "observed"
    OBVIOUS
  <2>1. PICK r \in VkFenceRecord : r = vk_fence[f]
    BY DEF TypeOK
  <2>2. vk_fence'[f] = r \/ vk_fence'[f] = [r EXCEPT !.st = "signaled"]
    BY <2>1, DeviceExecuteFences
  <2>3. [r EXCEPT !.st = "signaled"].st = "signaled"
    BY DEF VkFenceRecord
  <2> QED BY <2>1, <2>2, <2>3
<1>3. SeenIsAwaited'
  BY <1>1, <1>2, AwaitKept DEF FenceOrder
<1> QED BY <1>1, <1>3, ThreadStays, StayOwes, StayFar, QuietOrder

LEMMA OrderRetire ==
    ASSUME IInv, IInv', FenceOrder, NEW a \in Actor, Retire(a)
    PROVE  FenceOrder'
<1>1. TypeOK /\ TypeOK' /\ HostRetires
  BY DEF IInv, Order
<1>2. HostsOwe /\ HostsWait /\ Silent
  <2>1. CASE hpc' = hpc /\ call' = call
    BY <2>1, RetireElsewhere DEF HostsOwe, HostsWait
  <2>2. CASE a \in Host /\ Elsewhere(a)
    <3>1. rpc[a] # "idle"
      BY DEF Retire, RetireAtOnce, RetireWaitOther, RetireResume, RetireEnd
    <3>2. hpc[a] # "fblock"
      BY <1>1, <2>2, <3>1 DEF HostRetires
    <3> QED BY <2>2, <3>2, HostsElsewhere, RetireElsewhere
  <2> QED BY <2>1, <2>2, RetireElsewhere
<1> QED BY <1>1, <1>2, RetireStays, SilentOrder

\* A fence that is not in flight is owed by no submission.
LEMMA NotOwed ==
    ASSUME FenceOrder, NEW f \in Fence, fence[f].state # "FENCE_INFLIGHT" \/ fence[f].queue = NoQueue
    PROVE  \A q \in Queue : Owes(q, f) = {}
<1> SUFFICES ASSUME NEW q \in Queue, NEW n, n \in Owes(q, f) PROVE FALSE
  BY Zenon
<1>1. InFlightFor(fence[f], q, n)
  BY DEF FenceOrder, Outstanding
<1> QED BY <1>1, NoQueueAssumption DEF InFlightFor

LEMMA OrderSubmitsFence ==
    ASSUME TypeOK, FenceTruth, FenceOrder, NEW h \in Host, SubmitFence(h)
    PROVE  FenceOrder'
<1>1. PICK e, q, n : e = call[h].sub.fence /\ q = call[h].queue /\ n = call[h].sub.seq
  OBVIOUS
<1>2. /\ OnlyHost(h) /\ hpc[h] = "enqueue" /\ hpc'[h] = "push"
      /\ call'[h].sub = call[h].sub /\ call'[h].queue = call[h].queue
  BY SubmitFenceCall
<1>3. /\ \A f \in Fence : f # e => fence'[f] = fence[f]
      /\ e \in Fence => fence'[e] = FenceEnqueueSignal(fence[e], q, n) /\ fence[e].state = "FENCE_UNSIGNALED"
  BY <1>1, SubmitFenceIs DEF FenceOrder, Tracked
<1>4. e \in Fence => fence'[e].scope = "kSyncScopeInternal" /\ InFlightFor(fence'[e], q, n)
  <2> SUFFICES ASSUME e \in Fence PROVE fence'[e].scope = "kSyncScopeInternal" /\ InFlightFor(fence'[e], q, n)
    OBVIOUS
  <2>1. PICK r \in FenceRecord : r = fence[e]
    BY DEF TypeOK
  <2>2. r.scope = "kSyncScopeInternal" /\ fence'[e] = FenceEnqueueSignal(r, q, n)
    BY <1>3, <2>1 DEF FenceOrder, Tracked
  <2> QED BY <2>2 DEF FenceEnqueueSignal, FenceRetiresEarly, FenceRecord, InFlightFor
<1>5. ThreadsStay /\ vk_fence' = vk_fence
  BY SubmitStays DEF SubmitFence
<1>6. \A p \in Queue, f \in Fence : \A m : m \in Owes(p, f)' => m \in Owes(p, f) \/ (p = q /\ f = e /\ m = n)
  <2> SUFFICES ASSUME NEW p \in Queue, NEW f \in Fence, NEW m, m \in Owes(p, f)', m \notin Owes(p, f)
               PROVE  p = q /\ f = e /\ m = n
    OBVIOUS
  <2>1. submissions_' = submissions_ /\ tcur' = tcur /\ (InThread(p)' <=> InThread(p)) /\ (InThread(p) => tpc'[p] = tpc[p])
    BY <1>5, OutIs DEF ThreadsStay, InThread, OutPc
  <2>2. PICK g \in Host : hpc'[g] = "push" /\ call'[g].queue = p /\ call'[g].sub.fence = f /\ call'[g].sub.seq = m
    BY <2>1, OwesIs, OwesIsNext
  <2>3. g = h
    BY <1>2, <2>2, OwesIs DEF OnlyHost
  <2> QED BY <1>1, <1>2, <2>2, <2>3
<1>7. Tracked'
  BY <1>3, <1>4 DEF FenceOrder, Tracked
<1>8. Outstanding'
  <2> SUFFICES ASSUME NEW p \in Queue, NEW f \in Fence, NEW m, m \in Owes(p, f)' PROVE InFlightFor(fence'[f], p, m)
    BY DEF Outstanding, InFlightFor
  <2>1. CASE f = e
    <3>1. Owes(p, f) = {}
      BY <1>3, <2>1, NotOwed
    <3> QED BY <1>4, <1>6, <2>1, <3>1
  <2>2. CASE f # e
    BY <1>3, <1>6, <2>2 DEF FenceOrder, Outstanding
  <2> QED BY <2>1, <2>2
<1>9. SeenIsAwaited'
  <2>1. HostsWait
    BY <1>2 DEF HostsWait, OnlyHost
  <2>2. e \in Fence => vk_fence[e].st # "observed"
    <3>1. SubIsFirst /\ Used
      BY TruthIs
    <3>2. Untold(h, 1, e)
      BY <1>1, <1>2, <3>1, BatchOne, SubmitPcOther DEF Untold, SubIsFirst
    <3> QED BY <3>1, <3>2 DEF Used
  <2> QED BY <1>3, <1>5, <2>1, <2>2, AwaitKept DEF FenceOrder
<1>10. FenceRetiredLast'
  <2> SUFFICES ASSUME NEW f \in Fence, fence'[f].state = "FENCE_RETIRED", fence'[f].queue # NoQueue
               PROVE  Far(fence[f].queue, fence[f].seq)'
    BY DEF FenceRetiredLast, Far
  <2>1. f # e /\ fence'[f] = fence[f]
    BY <1>3, <1>4 DEF InFlightFor
  <2>2. fence[f].queue \in Queue /\ fence[f].seq \in Nat
    BY <2>1 DEF TypeOK, FenceRecord
  <2>3. Far(fence[f].queue, fence[f].seq)
    BY <2>1 DEF FenceOrder, FenceRetiredLast, Far
  <2>4. PICK p \in Queue, m \in Nat : p = fence[f].queue /\ m = fence[f].seq
    BY <2>2
  <2>5. Far(p, m)'
    BY <1>5, <2>3, <2>4, StayFar DEF FarKept
  <2> QED BY <2>1, <2>4, <2>5
<1> QED BY <1>7, <1>8, <1>9, <1>10 DEF FenceOrder

\* The deque takes the submission over from the call.
LEMMA OrderPush ==
    ASSUME TypeOK, FenceOrder, NEW h \in Host, SubmitPush(h)
    PROVE  FenceOrder'
<1>1. OnlyHost(h) /\ hpc[h] = "push" /\ hpc'[h] # "push"
  BY SubmitPushCall
<1>2. PICK q \in Queue, sub \in CB_SUBMISSION : q = call[h].queue /\ sub = call[h].sub
  BY <1>1, CallQueue, QueuePcIs, CallFields
<1>3. Silent /\ tcur' = tcur /\ done_' = done_ /\ submissions_' = [submissions_ EXCEPT ![q] = Append(submissions_[q], sub)]
  BY <1>2 DEF SubmitPush, Silent
<1>4. \A p \in Queue : tpc'[p] = tpc[p] \/ (tpc[p] \in OutPc /\ tpc'[p] \in OutPc)
  BY <1>2 DEF SubmitPush, TypeOK, OutPc
<1>5. HostsWait
  BY <1>1 DEF OnlyHost, HostsWait
<1>6. OwesLess
  <2> SUFFICES ASSUME NEW p \in Queue, NEW f \in Fence, NEW n, n \in Owes(p, f)' PROVE n \in Owes(p, f)
    BY DEF OwesLess
  <2>1. (InThread(p)' <=> InThread(p)) /\ (InThread(p) => tpc'[p] = tpc[p])
    BY <1>4 DEF InThread, OutPc
  <2>2. CASE \E i \in DOMAIN submissions_'[p] : submissions_'[p][i].fence = f /\ submissions_'[p][i].seq = n
    <3>1. PICK i \in DOMAIN submissions_'[p] : submissions_'[p][i].fence = f /\ submissions_'[p][i].seq = n
      BY <2>2
    <3>2. PICK s \in Seq(CB_SUBMISSION) : s = submissions_[p]
      BY DEF TypeOK
    <3>3. CASE p # q
      <4>1. submissions_'[p] = submissions_[p]
        BY <1>3, <3>3 DEF TypeOK
      <4> QED BY <3>1, <4>1, OwesIs
    <3>4. CASE p = q
      <4>1. submissions_'[p] = Append(s, sub)
        BY <1>3, <3>2, <3>4 DEF TypeOK
      <4>2. i \in 1..(Len(s) + 1) /\ Len(s) \in Nat /\ DOMAIN s = 1..Len(s)
        BY <3>1, <4>1, AppendProperties, LenProperties
      <4>3. CASE i = Len(s) + 1
        <5>1. Append(s, sub)[i] = sub
          BY <4>3, AppendProperties
        <5> QED BY <1>1, <1>2, <3>1, <3>4, <4>1, <5>1, OwesIs
      <4>4. CASE i # Len(s) + 1
        <5>1. i \in 1..Len(s)
          BY <4>2, <4>4
        <5>2. Append(s, sub)[i] = s[i]
          BY <5>1, AppendProperties
        <5> QED BY <3>1, <3>2, <4>1, <4>2, <5>1, <5>2, OwesIs
      <4> QED BY <4>3, <4>4
    <3> QED BY <3>3, <3>4
  <2>3. CASE InThread(p)' /\ tpc'[p] # "complete" /\ tcur'[p].fence = f /\ tcur'[p].seq = n
    BY <1>3, <2>1, <2>3, OwesIs
  <2>4. CASE \E g \in Host : hpc'[g] = "push" /\ call'[g].queue = p /\ call'[g].sub.fence = f /\ call'[g].sub.seq = n
    BY <1>1, <2>4, OwesIs DEF OnlyHost
  <2> QED BY <2>2, <2>3, <2>4, OwesIsNext
<1>7. FarKept
  <2>1. \A p \in Queue : CbsRetired(p)' = CbsRetired(p)
    BY <1>3, <1>4 DEF CbsRetired, OutPc
  <2> QED BY <1>3, <2>1 DEF FarKept, Far
<1>8. SeenIsAwaited'
  BY <1>3, <1>5, AwaitKept DEF FenceOrder, Silent
<1> QED BY <1>3, <1>6, <1>7, <1>8, QuietOrder DEF Silent

\* A wait for a fence tells its queue, or retires a fence that no queue signals.
LEMMA OrderWaitsForFence ==
    ASSUME TypeOK, FenceOrder, NEW h \in Host, NEW f \in Fence, WaitForFence(h, f)
    PROVE  FenceOrder'
<1>1. /\ Elsewhere(h) /\ \A e \in Fence : e # f => fence'[e] = fence[e] /\ vk_fence'[e] = vk_fence[e]
      /\ fence'[f] = FenceNotify(fence[f])
      /\ fence[f].state = "FENCE_INFLIGHT" => hpc'[h] = "fblock" /\ call'[h].fence = f
  BY WaitForFenceIs
<1>2. ThreadsStay /\ hpc[h] = "idle"
  BY FenceCallStays DEF WaitForFence
<1>3. HostsOwe /\ HostsWait
  BY <1>1, <1>2, HostsElsewhere
<1>4. PICK r \in FenceRecord : r = fence[f]
  BY DEF TypeOK
<1>5. r.scope = "kSyncScopeInternal"
  BY <1>4 DEF FenceOrder, Tracked
<1>6. \/ fence'[f] = r
      \/ /\ r.queue = NoQueue /\ fence'[f].queue = NoQueue /\ fence'[f].scope = "kSyncScopeInternal"
         /\ fence'[f].state = "FENCE_RETIRED"
  <2>1. fence'[f] = r \/ (r.state = "FENCE_INFLIGHT" /\ r.queue = NoQueue /\ fence'[f] = [r EXCEPT !.state = "FENCE_RETIRED", !.completed = @ + 1])
    BY <1>1, <1>4, <1>5 DEF FenceNotify, FenceNotifiesQueue, FenceRetire
  <2> QED BY <1>5, <2>1 DEF FenceRecord
<1>7. SeenIsAwaited'
  <2>1. \A e \in Fence : fence'[e].state = "FENCE_INFLIGHT" => fence[e].state = "FENCE_INFLIGHT"
    BY <1>1, <1>4, <1>6
  <2>2. ASSUME NEW e \in Fence, fence'[e].state = "FENCE_INFLIGHT", vk_fence'[e].st = "observed"
        PROVE  \E g \in Host : hpc'[g] = "fblock" /\ call'[g].fence = e
    <3>1. CASE e = f
      BY <1>1, <2>1, <2>2, <3>1
    <3>2. CASE e # f
      BY <1>1, <1>3, <2>2, <3>2 DEF FenceOrder, SeenIsAwaited, HostsWait
    <3> QED BY <3>1, <3>2
  <2> QED BY <2>2 DEF SeenIsAwaited
<1>8. CASE fence'[f] = r
  <2>1. fence' = fence
    BY <1>1, <1>4, <1>8 DEF WaitForFence, TypeOK
  <2> QED BY <1>2, <1>3, <1>7, <2>1, StayOwes, StayFar, QuietOrder
<1>9. CASE r.queue = NoQueue /\ fence'[f].queue = NoQueue /\ fence'[f].scope = "kSyncScopeInternal"
  <2>1. \A q \in Queue : Owes(q, f) = {}
    BY <1>4, <1>9, NotOwed
  <2> QED BY <1>1, <1>2, <1>3, <1>7, <1>9, <2>1, StayOwes, StayFar, ToldOrder
<1> QED BY <1>6, <1>8, <1>9

NoSharing == ~Uses("vkImportFenceFdKHR") /\ ~Uses("vkGetFenceFdKHR") /\ ~Uses("vkGetFenceFdKHR_SYNC_FD")

\* A fence is reset, or handed to the presentation engine, when no submission owes it.
LEMMA OrderFenceCall ==
    ASSUME TypeOK, FenceTruth, FenceOrder, NoSharing, NEW h \in Host, NEW f \in Fence, FenceCall(h, f)
    PROVE  FenceOrder'
<1>1. PICK r \in FenceRecord : r = fence[f]
  BY FenceCallIs
<1>2. \/ fence'[f] = FenceReset(r) /\ vk_fence'[f].st = "unsignaled" /\ vk_fence[f].st \in {"unsignaled", "observed"}
      \/ fence'[f] = FenceEnqueueSignal(r, NoQueue, 0) /\ vk_fence'[f].st = "signaled" /\ vk_fence[f].st = "unsignaled"
  BY <1>1, FenceCallIs DEF NoSharing
<1>3. /\ FenceFree(f) /\ hpc' = hpc /\ call' = call
      /\ \A e \in Fence : e # f => fence'[e] = fence[e] /\ vk_fence'[e] = vk_fence[e]
  BY FenceCallIs
<1>4. r.scope = "kSyncScopeInternal"
  BY <1>1 DEF FenceOrder, Tracked
<1>5. fence[f].state # "FENCE_INFLIGHT"
  <2>1. CASE vk_fence[f].st = "unsignaled"
    BY <1>1, <1>3, <1>4, <2>1, FreeVerdict
  <2>2. CASE vk_fence[f].st = "observed"
    BY <1>3, <2>2 DEF FenceOrder, SeenIsAwaited, FenceFree
  <2> QED BY <1>2, <2>1, <2>2
<1>6. fence'[f].scope = "kSyncScopeInternal" /\ fence'[f].state # "FENCE_RETIRED"
  <2>1. FenceReset(r).scope = "kSyncScopeInternal" /\ FenceReset(r).state = "FENCE_UNSIGNALED"
    BY <1>4 DEF FenceReset
  <2>2. PICK q, n : q = NoQueue /\ n = 0
    OBVIOUS
  <2>3. FenceEnqueueSignal(r, q, n).scope = "kSyncScopeInternal" /\ FenceEnqueueSignal(r, q, n).state = "FENCE_INFLIGHT"
    BY <1>4, FenceEnqueueState
  <2> QED BY <1>2, <2>1, <2>2, <2>3
<1>7. ThreadsStay /\ HostsOwe /\ HostsWait
  BY <1>3, FenceCallStays DEF HostsOwe, HostsWait
<1>8. SeenIsAwaited'
  BY <1>2, <1>3, <1>7, AwaitKept DEF FenceOrder
<1> QED BY <1>3, <1>5, <1>6, <1>7, <1>8, NotOwed, StayOwes, StayFar, ToldOrder

-----------------------------------------------------------------------------
(* ... the queue thread *)

\* A thread goes on with the submission it has.
LEMMA OrderThreadGoes ==
    ASSUME IInv, FenceOrder, NEW q \in Queue, ThreadEndUse(q) \/ ThreadLoopDone(q) \/ ThreadRetireCbs(q) \/ ThreadComplete(q)
    PROVE  FenceOrder'
<1>1. TypeOK /\ Numbering
  BY DEF IInv, Order
<1>2. Silent /\ hpc' = hpc /\ call' = call /\ tcur' = tcur /\ submissions_' = submissions_
  BY DEF ThreadEndUse, ThreadLoopDone, ThreadRetireCbs, ThreadComplete, Silent
<1>3. \A p \in Queue : p # q => tpc'[p] = tpc[p] /\ done_'[p] = done_[p]
  BY <1>1 DEF ThreadEndUse, ThreadLoopDone, ThreadRetireCbs, ThreadComplete, TypeOK
<1>4. \/ tpc[q] \in {"enduse", "waits"} /\ tpc'[q] \in {"waits", "cbs"} /\ done_'[q] = done_[q]
      \/ tpc[q] = "cbs" /\ tpc'[q] = "signals" /\ done_'[q] = done_[q]
      \/ tpc[q] = "signals" /\ tpc'[q] = "fence" /\ done_'[q] = done_[q]
      \/ tpc[q] = "complete" /\ tpc'[q] = "next" /\ done_'[q] = tcur[q].seq
  BY <1>1 DEF ThreadEndUse, ThreadLoopDone, ThreadRetireCbs, ThreadComplete, TypeOK
<1>5. OwesLess
  <2> SUFFICES ASSUME NEW p \in Queue, NEW f \in Fence, NEW n, n \in Owes(p, f)' PROVE n \in Owes(p, f)
    BY DEF OwesLess
  <2>1. InThread(p)' /\ tpc'[p] # "complete" => InThread(p) /\ tpc[p] # "complete"
    BY <1>3, <1>4 DEF InThread
  <2> QED BY <1>2, <2>1, OwesIs, OwesIsNext
<1>6. tcur[q].seq = done_[q] + 1 /\ done_[q] \in Nat
  BY <1>1, <1>4 DEF Numbering, InThread, TypeOK
<1>7. FarKept
  <2> SUFFICES ASSUME NEW p \in Queue, NEW n \in Nat, Far(p, n) PROVE Far(p, n)'
    BY DEF FarKept
  <2>1. CASE p # q
    BY <1>2, <1>3, <2>1 DEF Far, CbsRetired
  <2>2. CASE p = q
    BY <1>2, <1>4, <1>6, <2>2 DEF Far, CbsRetired
  <2> QED BY <2>1, <2>2
<1>8. SeenIsAwaited'
  BY <1>2, AwaitKept DEF FenceOrder, HostsWait, Silent
<1> QED BY <1>1, <1>2, <1>5, <1>7, <1>8, QuietOrder DEF Silent

\* The thread takes the submission over from the deque.
LEMMA OrderPop ==
    ASSUME TypeOK, FenceOrder, NEW q \in Queue, ThreadPop(q)
    PROVE  FenceOrder'
<1>1. Silent /\ hpc' = hpc /\ call' = call /\ done_' = done_
  BY DEF ThreadPop, Silent
<1>2. \A p \in Queue : p # q => tpc'[p] = tpc[p] /\ tcur'[p] = tcur[p] /\ submissions_'[p] = submissions_[p]
  BY DEF ThreadPop, TypeOK
<1>3. PICK s \in Seq(CB_SUBMISSION) : s = submissions_[q]
  BY DEF TypeOK
<1>4. s # << >> /\ tpc[q] = "next" /\ tpc'[q] = "enduse" /\ tcur'[q] = Head(s) /\ submissions_'[q] = Tail(s)
  BY <1>3 DEF ThreadPop, NothingToRetire, TypeOK
<1>5. /\ Len(s) \in Nat /\ Len(s) >= 1 /\ DOMAIN s = 1..Len(s)
      /\ Head(s) = s[1] /\ 1 \in DOMAIN s
      /\ DOMAIN Tail(s) = 1..(Len(s) - 1)
      /\ \A i \in 1..(Len(s) - 1) : Tail(s)[i] = s[i + 1] /\ i + 1 \in DOMAIN s
  <2>1. Len(s) \in Nat /\ Len(s) >= 1 /\ DOMAIN s = 1..Len(s)
    BY <1>4, EmptySeq, LenProperties
  <2>2. Head(s) = s[1] /\ DOMAIN Tail(s) = 1..(Len(s) - 1) /\ \A i \in 1..(Len(s) - 1) : Tail(s)[i] = s[i + 1]
    BY <1>4, <2>1, HeadTailProperties, LenProperties
  <2> QED BY <2>1, <2>2
<1>6. OwesLess
  <2> SUFFICES ASSUME NEW p \in Queue, NEW f \in Fence, NEW n, n \in Owes(p, f)' PROVE n \in Owes(p, f)
    BY DEF OwesLess
  <2>1. CASE p # q
    BY <1>1, <1>2, <2>1, OwesIs, OwesIsNext DEF InThread
  <2>2. CASE p = q
    <3>1. CASE \E i \in DOMAIN submissions_'[p] : submissions_'[p][i].fence = f /\ submissions_'[p][i].seq = n
      <4>1. PICK i \in 1..(Len(s) - 1) : Tail(s)[i].fence = f /\ Tail(s)[i].seq = n
        BY <1>4, <1>5, <2>2, <3>1
      <4>2. s[i + 1].fence = f /\ s[i + 1].seq = n /\ i + 1 \in DOMAIN submissions_[p]
        BY <1>3, <1>5, <2>2, <4>1
      <4> QED BY <1>3, <2>2, <4>2, OwesIs
    <3>2. CASE tcur'[p].fence = f /\ tcur'[p].seq = n
      BY <1>3, <1>4, <1>5, <2>2, <3>2, OwesIs
    <3>3. CASE \E g \in Host : hpc'[g] = "push" /\ call'[g].queue = p /\ call'[g].sub.fence = f /\ call'[g].sub.seq = n
      BY <1>1, <3>3, OwesIs
    <3> QED BY <3>1, <3>2, <3>3, OwesIsNext
  <2> QED BY <2>1, <2>2
<1>7. FarKept
  <2>1. \A p \in Queue : CbsRetired(p)' = CbsRetired(p)
    BY <1>1, <1>2, <1>4 DEF CbsRetired
  <2> QED BY <1>1, <2>1 DEF FarKept, Far
<1>8. SeenIsAwaited'
  BY <1>1, AwaitKept DEF FenceOrder, HostsWait, Silent
<1> QED BY <1>1, <1>6, <1>7, <1>8, QuietOrder DEF Silent

\* Among the submissions of a queue that are not retired, one number occurs once.
LEMMA Later ==
    ASSUME IInv, NEW q \in Queue, InThread(q)
    PROVE  /\ \A i \in DOMAIN submissions_[q] : submissions_[q][i].seq # tcur[q].seq
           /\ \A h \in Host : hpc[h] = "push" /\ call[h].queue = q => call[h].sub.seq # tcur[q].seq
<1>1. TypeOK /\ Numbering
  BY DEF IInv, Order
<1>2. PICK n \in Nat : n = tcur[q].seq /\ Popped(q) = n
  BY <1>1 DEF TypeOK, CB_SUBMISSION, Popped
<1>3. PICK k \in Nat : k = Len(submissions_[q]) /\ DOMAIN submissions_[q] = 1..k
  BY <1>1, LenProperties DEF TypeOK
<1>4. ASSUME NEW i \in DOMAIN submissions_[q] PROVE submissions_[q][i].seq # n
  <2>1. submissions_[q][i].seq = n + i /\ i \in 1..k
    BY <1>1, <1>2, <1>3 DEF Numbering
  <2>2. \A m \in Nat, j \in 1..k : m + j # m
    OBVIOUS
  <2> QED BY <1>2, <2>1, <2>2
<1>5. ASSUME NEW h \in Host, hpc[h] = "push", call[h].queue = q PROVE call[h].sub.seq # n
  <2>1. Pushing(q) /\ call[h].sub.seq = seq_[q]
    BY <1>1, <1>5 DEF Pushing, PushPc, Numbering
  <2>2. n + k + 1 = seq_[q]
    BY <1>1, <1>2, <1>3, <2>1 DEF Numbering
  <2>3. n + k + 1 # n
    OBVIOUS
  <2> QED BY <1>2, <2>1, <2>2, <2>3
<1> QED BY <1>2, <1>4, <1>5

\* FENCE_STATE::Retire(), by the submission the fence is in flight for.
LEMMA OrderRetiresFence ==
    ASSUME IInv, FenceOrder, NEW q \in Queue, ThreadRetireFence(q)
    PROVE  FenceOrder'
<1>1. TypeOK /\ Numbering
  BY DEF IInv, Order
<1>2. PICK e, n : e = tcur[q].fence /\ n = tcur[q].seq
  OBVIOUS
<1>3. /\ tpc[q] = "fence" /\ tpc'[q] = "complete" /\ \A p \in Queue : p # q => tpc'[p] = tpc[p]
      /\ tcur' = tcur /\ submissions_' = submissions_ /\ done_' = done_
      /\ hpc' = hpc /\ call' = call /\ vk_fence' = vk_fence
  BY <1>1 DEF ThreadRetireFence, TypeOK
<1>4. /\ \A f \in Fence : f # e => fence'[f] = fence[f]
      /\ e \in Fence => fence'[e] = FenceRetire(fence[e])
  BY <1>1, <1>2, ThreadRetireFenceIs DEF TypeOK
<1>5. InThread(q) /\ n = done_[q] + 1 /\ done_[q] \in Nat
  BY <1>1, <1>2, <1>3 DEF InThread, Numbering, TypeOK
<1>6. OwesLess
  <2> SUFFICES ASSUME NEW p \in Queue, NEW f \in Fence, NEW m, m \in Owes(p, f)' PROVE m \in Owes(p, f)
    BY DEF OwesLess
  <2>1. InThread(p)' /\ tpc'[p] # "complete" => InThread(p) /\ tpc[p] # "complete"
    BY <1>3 DEF InThread
  <2> QED BY <1>3, <2>1, OwesIs, OwesIsNext
<1>7. n \notin Owes(q, e)'
  <2>1. \A i \in DOMAIN submissions_[q] : submissions_[q][i].seq # n
    BY <1>2, <1>5, Later
  <2>2. \A h \in Host : hpc[h] = "push" /\ call[h].queue = q => call[h].sub.seq # n
    BY <1>2, <1>5, Later
  <2> QED BY <1>3, <2>1, <2>2, OwesIsNext
<1>8. \A p \in Queue : CbsRetired(p)' = CbsRetired(p)
  BY <1>3 DEF CbsRetired
<1>9. e \in Fence => InFlightFor(fence[e], q, n)
  <2>1. n \in Owes(q, e)
    BY <1>2, <1>3, <1>5, OwesIs
  <2> QED BY <2>1 DEF FenceOrder, Outstanding
<1>10. e \in Fence => /\ fence'[e].state = "FENCE_RETIRED" /\ fence'[e].queue = q /\ fence'[e].seq = n
                      /\ fence'[e].scope = "kSyncScopeInternal"
  <2> SUFFICES ASSUME e \in Fence PROVE /\ fence'[e].state = "FENCE_RETIRED" /\ fence'[e].queue = q /\ fence'[e].seq = n
                                         /\ fence'[e].scope = "kSyncScopeInternal"
    OBVIOUS
  <2>1. PICK r \in FenceRecord : r = fence[e]
    BY <1>1 DEF TypeOK
  <2>2. r.scope = "kSyncScopeInternal" /\ fence'[e] = FenceRetire(r) /\ InFlightFor(r, q, n)
    BY <1>4, <1>9, <2>1 DEF FenceOrder, Tracked
  <2> QED BY <2>2 DEF FenceRetire, FenceRecord, InFlightFor
<1>11. Tracked'
  BY <1>4, <1>10 DEF FenceOrder, Tracked
<1>12. Outstanding'
  <2> SUFFICES ASSUME NEW p \in Queue, NEW f \in Fence, NEW m, m \in Owes(p, f)' PROVE InFlightFor(fence'[f], p, m)
    BY DEF Outstanding, InFlightFor
  <2>1. InFlightFor(fence[f], p, m)
    BY <1>6 DEF OwesLess, FenceOrder, Outstanding
  <2>2. f # e
    BY <1>7, <1>9, <2>1 DEF InFlightFor
  <2> QED BY <1>4, <2>1, <2>2
<1>13. SeenIsAwaited'
  BY <1>3, <1>4, <1>10, AwaitKept DEF FenceOrder, HostsWait
<1>14. FenceRetiredLast'
  <2> SUFFICES ASSUME NEW f \in Fence, fence'[f].state = "FENCE_RETIRED", fence'[f].queue # NoQueue
               PROVE  Far(fence[f].queue, fence[f].seq)'
    BY DEF FenceRetiredLast, Far
  <2>1. CASE f # e
    <3>1. fence'[f] = fence[f]
      BY <1>4, <2>1
    <3>2. fence[f].queue \in Queue /\ fence[f].seq \in Nat
      BY <1>1, <3>1 DEF TypeOK, FenceRecord
    <3>3. PICK p \in Queue, m \in Nat : p = fence[f].queue /\ m = fence[f].seq
      BY <3>2
    <3>4. Far(p, m)
      BY <3>1, <3>3 DEF FenceOrder, FenceRetiredLast, Far
    <3>5. Far(p, m)'
      BY <1>3, <1>8, <3>4 DEF Far
    <3> QED BY <3>1, <3>3, <3>5
  <2>2. CASE f = e
    <3>1. CbsRetired(q)' = n
      BY <1>2, <1>3 DEF CbsRetired
    <3>2. Far(q, n)'
      BY <1>3, <1>5, <3>1 DEF Far
    <3> QED BY <1>10, <2>2, <3>2
  <2> QED BY <2>1, <2>2
<1> QED BY <1>11, <1>12, <1>13, <1>14 DEF FenceOrder

LEMMA NextOrder ==
    ASSUME IInv, IInv', FenceTruth, Promises, FenceOrder, NoSharing, Next
    PROVE  FenceOrder'
<1>1. TypeOK
  BY DEF IInv
<1>2. ASSUME NEW h \in Host, OtherStep(h) \/ OtherCall(h) \/ SubmitStep(h) \/ SemaphoreStep(h) PROVE FenceOrder'
  BY <1>2, OrderHost
<1>3. ASSUME NEW h \in Host, DriverAccept(h) \/ SubmitFence(h) \/ SubmitPush(h) PROVE FenceOrder'
  BY <1>1, <1>3, OrderDriver, OrderSubmitsFence, OrderPush
<1>4. ASSUME NEW h \in Host, NEW f \in Fence, WaitForFence(h, f) \/ FenceCall(h, f) PROVE FenceOrder'
  BY <1>1, <1>4, OrderWaitsForFence, OrderFenceCall
<1>5. ASSUME NEW a \in Actor, Retire(a) PROVE FenceOrder'
  BY <1>5, OrderRetire
<1>6. ASSUME NEW q \in Queue, ThreadStep(q) PROVE FenceOrder'
  <2>1. ASSUME ThreadSleep(q) \/ ThreadExit(q) \/ ThreadRetireSemaphore(q) PROVE FenceOrder'
    <3>1. Silent /\ HostsOwe /\ HostsWait
      BY <1>6, StillSteps DEF Still, HostsOwe, HostsWait
    <3> QED BY <1>1, <2>1, <3>1, ThreadStays, SilentOrder
  <2>2. ASSUME ThreadEndUse(q) \/ ThreadLoopDone(q) \/ ThreadRetireCbs(q) \/ ThreadComplete(q) PROVE FenceOrder'
    BY <2>2, OrderThreadGoes
  <2>3. ASSUME ThreadPop(q) PROVE FenceOrder'
    BY <1>1, <2>3, OrderPop
  <2> QED BY <1>6, <2>1, <2>2, <2>3 DEF ThreadStep
<1>7. ASSUME NEW q \in Queue, ThreadRetireFence(q) \/ DeviceExecute(q) PROVE FenceOrder'
  BY <1>1, <1>7, OrderRetiresFence, OrderDevice
<1> QED BY <1>2, <1>3, <1>4, <1>5, <1>6, <1>7, NextCases

LEMMA InitOrder == Init => FenceOrder
<1> SUFFICES ASSUME Init PROVE FenceOrder
  OBVIOUS
<1>1. \A f \in Fence : fence[f].scope = "kSyncScopeInternal" /\ fence[f].state = "FENCE_UNSIGNALED"
  BY DEF Init, NewFence
<1>2. ASSUME NEW q \in Queue, NEW i PROVE ~InThread(q) /\ i \notin DOMAIN submissions_[q]
  <2>1. ~InThread(q)
    BY DEF Init, InThread
  <2>2. \A p \in Queue : Len(submissions_[p]) = 0
    BY DEF Init
  <2>3. DOMAIN submissions_[q] = 1..Len(submissions_[q])
    BY InitIInv, LenProperties DEF IInv, TypeOK
  <2> QED BY <2>1, <2>2, <2>3
<1>3. \A h \in Host : hpc[h] = "idle"
  BY DEF Init
<1>4. \A q \in Queue : \A f, n : n \notin Owes(q, f)
  BY <1>2, <1>3, OwesIs
<1>5. Outstanding
  BY <1>4 DEF Outstanding
<1> QED BY <1>1, <1>5 DEF FenceOrder, Tracked, SeenIsAwaited, FenceRetiredLast

\* Behind FenceRetiredLast: a fence in flight is in flight for the one submission that has
\* still to retire it - for an application that shares no fence with another process or
\* API: a shared one is retired by the first wait, and its submission early.
THEOREM OrderAlways ==
    ASSUME {"vkImportFenceFdKHR", "vkGetFenceFdKHR", "vkGetFenceFdKHR_SYNC_FD"} \cap ApiUsed = {}
    PROVE  Spec => []FenceOrder
<1>1. NoSharing
  BY Zenon DEF NoSharing, Uses
<1>2. Spec => []Promises
  BY <1>1, PromisesAlways DEF NoSharing
<1>3. IInv /\ FenceTruth /\ Promises /\ FenceOrder /\ [Next]_vars => FenceOrder'
  <2>1. ASSUME IInv, FenceOrder, UNCHANGED vars PROVE FenceOrder'
    <3>1. ThreadsStay /\ HostsOwe /\ HostsWait /\ Silent
      BY <2>1 DEF vars, ThreadsStay, HostsOwe, HostsWait, Silent
    <3> QED BY <2>1, <3>1, SilentOrder DEF IInv
  <2> QED BY <1>1, <2>1, NextOrder, NextKeeps
<1> QED BY <1>2, <1>3, InitOrder, Invariance, TruthAlways, PTL DEF Spec

\* A fence that is RETIRED by a submission found its command buffers, and every earlier
\* submission of the queue, retired, if no fence is shared.
THEOREM FencesLast ==
    ASSUME {"vkImportFenceFdKHR", "vkGetFenceFdKHR", "vkGetFenceFdKHR_SYNC_FD"} \cap ApiUsed = {}
    PROVE  Spec => []FenceRetiredLast
<1>1. FenceOrder => FenceRetiredLast
  BY DEF FenceOrder
<1> QED BY <1>1, OrderAlways, PTL
=============================================================================
