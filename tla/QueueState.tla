----------------------------- MODULE QueueState -----------------------------
(***************************************************************************)
(* QUEUE_STATE and its queue thread, driven by the state tracker's entry    *)
(* points (layers/queue_state.cpp, layers/state_tracker.cpp).               *)
(*                                                                          *)
(* The layer learns only indirectly that the device has finished work: a    *)
(* host call that returns VK_SUCCESS proves it.  vkQueueSubmit records a    *)
(* submission in submissions_; a later successful wait on a fence, a        *)
(* timeline semaphore or a whole queue raises request_seq_, and the queue's *)
(* own thread then retires submissions in order up to that number.  A       *)
(* semaphore shared by two queues makes their threads wait for each other.  *)
(*                                                                          *)
(* Actors are the application's host threads and one layer thread per       *)
(* queue.  One action is one critical section of one lock (nested queue     *)
(* locks included, they are leaf locks); the semaphore lock, which Retire() *)
(* holds over several iterations, is explicit in sem_lock.                  *)
(*                                                                          *)
(* The device and the driver are external: issued, executed, vk_sem,        *)
(* vk_fence and app_sem hold the truth the layer tries to follow.  The      *)
(* application is a valid one: it respects the external-synchronisation     *)
(* rules of queues and fences, and the valid usage of fences and semaphores.*)
(***************************************************************************)
EXTENDS SemaphoreState, Integers, FiniteSets

CONSTANTS Host,         \* application threads
          Fence,
          NoFence,
          BinarySem,
          TimelineSem,
          Cb,           \* command buffers
          ApiUsed,      \* the entry points this application uses
          Calls,        \* per queue, the batches it may pass to one submit, bind or present call
          Payloads,     \* timeline values an application may name
          MaxSeq,       \* bound: batches submitted to one queue
          MaxOps        \* bound: operations on one binary semaphore

Sem    == BinarySem \cup TimelineSem
Object == Sem \cup Fence \cup Cb
Actor  == Host \cup Queue

SemInfo == [semaphore : Sem, payload : Nat]

\* A CB_SUBMISSION, before (seq = 0) and after it was numbered.
CB_SUBMISSION == [wait_semaphores   : Seq(SemInfo),
                  signal_semaphores : Seq(SemInfo),
                  cbs               : SUBSET Cb,
                  fence             : Fence \cup {NoFence},
                  seq               : Nat]

EmptySubmission == [wait_semaphores |-> << >>, signal_semaphores |-> << >>, cbs |-> {},
                    fence |-> NoFence, seq |-> 0]

ASSUME QueueStateAssumption ==
    /\ NoFence \notin Fence
    /\ NoQueue \notin Host
    /\ Host \cap Queue = {}
    /\ BinarySem \cap TimelineSem = {}
    /\ Sem \cap Fence = {} /\ Sem \cap Cb = {} /\ Fence \cap Cb = {}
    /\ Calls \in [Queue -> SUBSET (Seq(CB_SUBMISSION) \ {<< >>})]  \* a call without batches submits an empty one
    /\ Payloads \subseteq Nat
    /\ MaxSeq \in Nat
    /\ MaxOps \in Nat

\* UINT64_MAX as an argument of Notify: "all submissions".
AllSeq == MaxSeq + 1

VARIABLES
    seq_,           \* QUEUE_STATE::seq_
    request_seq_,   \* QUEUE_STATE::request_seq_
    submissions_,   \* QUEUE_STATE::submissions_
    exit_thread_,   \* QUEUE_STATE::exit_thread_
    tpc,            \* where the queue's thread is in ThreadFunc()
    tcur,           \* the submission the thread has popped
    tidx,           \* semaphores of it that were retired in this loop
    done_,          \* last submission whose completed promise was satisfied
    sem,            \* the SEMAPHORE_STATE objects
    sem_lock,       \* who holds SEMAPHORE_STATE::lock_ over several steps
    rpc,            \* where an actor is in SEMAPHORE_STATE::Retire()
    frame,          \* the arguments of that call and the entry it waits for
    fence,          \* the FENCE_STATE objects
    in_use,         \* REFCOUNTED_NODE / CMD_BUFFER_STATE in_use_ counters
    cb_pending,     \* submissions of a command buffer not yet retired by it
    hpc,            \* where a host thread is in its call
    call,           \* the arguments and locals of that call
    issued,         \* external: batches the driver accepted, per queue
    executed,       \* external: how many of them the device has completed
    vk_sem,         \* external: semaphore operations executed / timeline value
    vk_fence,       \* external: the real fence
    app_sem,        \* external: operations enqueued / highest value promised
    app_seen        \* external: the timeline value a returned host call has shown

queueVars  == <<seq_, request_seq_, submissions_, exit_thread_>>
threadVars == <<tpc, tcur, tidx, done_>>
retireVars == <<sem_lock, rpc, frame>>
hostVars   == <<hpc, call>>
deviceVars == <<issued, executed, vk_sem, vk_fence, app_sem, app_seen>>
vars == <<queueVars, threadVars, retireVars, hostVars, deviceVars, sem, fence, in_use, cb_pending>>

-----------------------------------------------------------------------------
(* Types *)

ThreadPc == {"none", "next", "asleep", "enduse", "waits", "cbs", "signals", "fence", "complete", "exited"}
RetirePc == {"idle", "loop", "blocked"}

SemaphorePc == {"swait", "spoke", "sblock", "senqueue", "sretire"}
SubmitPc    == {"driver", "cbs", "seq", "enqueue", "push"}
IdlePc      == {"qnotify", "qwait", "qblock"}
QueuePc     == SubmitPc \cup IdlePc \cup {"qexit", "qjoin"}
HostPc      == {"idle", "fblock"} \cup SemaphorePc \cup QueuePc

Frame == [semaphore : Sem, payload : Nat, entry : SemOp]

NoEntry == NewOp("kNone", NoQueue, 0, 0)
NoFrame == [semaphore |-> NoQueue]

\* queue: the queue the call is about; todo: queues DeviceWaitIdle / DestroyDevice
\* still has to visit; batches: what is left to submit, idx: enqueue position;
\* early: early_retire_seq; until: the sequence number waited for.
Call == [queue   : Queue \cup {NoQueue},
         todo    : SUBSET Queue,
         batches : Seq(CB_SUBMISSION),
         sub     : CB_SUBMISSION,
         idx     : Nat,
         early   : Nat,
         until   : Nat,
         fence   : Fence \cup {NoFence}]

NoCall == [queue |-> NoQueue, todo |-> {}, batches |-> << >>, sub |-> EmptySubmission,
           idx |-> 0, early |-> 0, until |-> 0, fence |-> NoFence]

VkFenceRecord == [st : {"unsignaled", "pending", "signaled", "observed"}, queue : Queue \cup {NoQueue}, n : Nat]

NoActor == NoQueue

\* The type invariant.
TypeOK ==
    /\ seq_         \in [Queue -> Nat]
    /\ request_seq_ \in [Queue -> Nat]
    /\ submissions_ \in [Queue -> Seq(CB_SUBMISSION)]
    /\ exit_thread_ \in [Queue -> BOOLEAN]
    /\ tpc          \in [Queue -> ThreadPc]
    /\ tcur         \in [Queue -> CB_SUBMISSION]
    /\ tidx         \in [Queue -> Nat]
    /\ done_        \in [Queue -> Nat]
    /\ sem          \in [Sem -> SemRecord]
    /\ sem_lock     \in [Sem -> Actor \cup {NoActor}]
    /\ rpc          \in [Actor -> RetirePc]
    /\ frame        \in [Actor -> Frame \cup {NoFrame}]
    /\ fence        \in [Fence -> FenceRecord]
    /\ in_use       \in [Object -> Int]
    /\ cb_pending   \in [Cb -> Int]
    /\ hpc          \in [Host -> HostPc]
    /\ call         \in [Host -> Call]
    /\ issued       \in [Queue -> Seq(CB_SUBMISSION)]
    /\ executed     \in [Queue -> Nat]
    /\ vk_sem       \in [Sem -> Nat]
    /\ vk_fence     \in [Fence -> VkFenceRecord]
    /\ app_sem      \in [Sem -> Nat]
    /\ app_seen     \in [Sem -> Nat]
    \* the arguments a call needs are there while it needs them
    /\ \A a \in Actor : rpc[a] # "idle" => frame[a] \in Frame
    /\ \A h \in Host : hpc[h] \in SemaphorePc => frame[h] \in Frame
    /\ \A h \in Host : hpc[h] \in QueuePc => call[h].queue \in Queue
    /\ \A h \in Host : hpc[h] \in SubmitPc => call[h].batches # << >>
    /\ \A h \in Host : hpc[h] = "fblock" => call[h].fence \in Fence

Init ==
    /\ seq_         = [q \in Queue |-> 0]
    /\ request_seq_ = [q \in Queue |-> 0]
    /\ submissions_ = [q \in Queue |-> << >>]
    /\ exit_thread_ = [q \in Queue |-> FALSE]
    /\ tpc          = [q \in Queue |-> "none"]
    /\ tcur         = [q \in Queue |-> EmptySubmission]
    /\ tidx         = [q \in Queue |-> 0]
    /\ done_        = [q \in Queue |-> 0]
    /\ sem          = [s \in Sem |-> NewSemaphore(0)]
    /\ sem_lock     = [s \in Sem |-> NoActor]
    /\ rpc          = [a \in Actor |-> "idle"]
    /\ frame        = [a \in Actor |-> NoFrame]
    /\ fence        = [f \in Fence |-> NewFence(FALSE)]
    /\ in_use       = [o \in Object |-> 0]
    /\ cb_pending   = [c \in Cb |-> 0]
    /\ hpc          = [h \in Host |-> "idle"]
    /\ call         = [h \in Host |-> NoCall]
    /\ issued       = [q \in Queue |-> << >>]
    /\ executed     = [q \in Queue |-> 0]
    /\ vk_sem       = [s \in Sem |-> 0]
    /\ vk_fence     = [f \in Fence |-> [st |-> "unsignaled", queue |-> NoQueue, n |-> 0]]
    /\ app_sem      = [s \in Sem |-> 0]
    /\ app_seen     = [s \in Sem |-> 0]

-----------------------------------------------------------------------------
(* Shared steps *)

Max2(a, b) == IF a < b THEN b ELSE a

\* Mutant: cond_ is not notified.
NotWoken(pc) == pc

\* cond_.notify_one() / notify_all(): the queue's only waiter is its thread.
Woken(pc) == IF pc = "asleep" THEN "next" ELSE pc

\* QUEUE_STATE::Notify(until_seq) on one queue.
Notify(q, until) ==
    /\ request_seq_' = [request_seq_ EXCEPT ![q] = Max2(@, until)]
    /\ tpc' = [tpc EXCEPT ![q] = Woken(@)]

\* How often a submission references an object: the loops of BeginUse() and EndUse().
References(sub, o) ==
      Cardinality({i \in DOMAIN sub.wait_semaphores : sub.wait_semaphores[i].semaphore = o})
    + Cardinality({i \in DOMAIN sub.signal_semaphores : sub.signal_semaphores[i].semaphore = o})
    + (IF o \in sub.cbs THEN 1 ELSE 0)
    + (IF o = sub.fence THEN 1 ELSE 0)

\* Mutant: the fence is forgotten by EndUse().
EndUseNoFence(sub) == in_use' = [o \in Object |-> in_use[o] - References([sub EXCEPT !.fence = NoFence], o)]

BeginUse(sub) == in_use' = [o \in Object |-> in_use[o] + References(sub, o)]
EndUse(sub)   == in_use' = [o \in Object |-> in_use[o] - References(sub, o)]

SemUnlocked(s) == sem_lock[s] = NoActor

\* External synchronisation: a queue is used by one host thread at a time, and
\* so is a fence that is submitted or reset.
QueueFree(q) == \A h \in Host : call[h].queue # q /\ q \notin call[h].todo
FenceFree(f) == \A h \in Host : /\ call[h].fence # f
                                /\ \A i \in DOMAIN call[h].batches : call[h].batches[i].fence # f

\* The application orders the operations on a binary semaphore: the call with the
\* next one starts when the call with the last has returned.
Elements(s) == {s[i] : i \in DOMAIN s}
SemsOf(bs) == UNION {{w.semaphore : w \in Elements(bs[i].wait_semaphores) \cup Elements(bs[i].signal_semaphores)}
                     : i \in DOMAIN bs}
BinaryFree(s) == \A h \in Host : s \in BinarySem => s \notin SemsOf(call[h].batches)

\* A host wait or signal on a timeline semaphore returns: the application knows the value.
Seen(h) == app_seen' = [app_seen EXCEPT ![frame[h].semaphore] = Max2(@, frame[h].payload)]

\* The call returns to the application.
Return(h) == hpc' = [hpc EXCEPT ![h] = "idle"] /\ call' = [call EXCEPT ![h] = NoCall]

-----------------------------------------------------------------------------
(* vkQueueSubmit, vkQueueSubmit2, vkQueueBindSparse and vkQueuePresentKHR:  *)
(* the driver accepts the batches, then PostCallRecord... calls             *)
(* QUEUE_STATE::Submit() for each of them.                                  *)

QueueSubmit(h, q, bs) ==
    /\ hpc[h] = "idle" /\ QueueFree(q)
    /\ Len(issued[q]) + Len(bs) <= MaxSeq
    /\ \A i \in DOMAIN bs : bs[i].fence # NoFence => FenceFree(bs[i].fence)
    /\ \A s \in SemsOf(bs) : BinaryFree(s)
    /\ hpc' = [hpc EXCEPT ![h] = "driver"]
    /\ call' = [call EXCEPT ![h] = [NoCall EXCEPT !.queue = q, !.batches = bs]]
    /\ UNCHANGED <<queueVars, threadVars, retireVars, deviceVars, sem, fence, in_use, cb_pending>>

\* Valid usage of one batch, given what was enqueued before it: a binary
\* semaphore alternates between signal and wait, timeline signals increase, the
\* fence is unsignaled and not in flight.
ValidWait(w)   == w.semaphore \in BinarySem => app_sem[w.semaphore] % 2 = 1
ValidSignal(w) == IF w.semaphore \in BinarySem THEN app_sem[w.semaphore] % 2 = 0
                                               ELSE app_sem[w.semaphore] < w.payload
ValidBatch(b) ==
    /\ \A w \in Elements(b.wait_semaphores) : ValidWait(w)
    /\ \A w \in Elements(b.signal_semaphores) : ValidSignal(w)
    /\ b.fence # NoFence => vk_fence[b.fence].st = "unsignaled"
    /\ \A w \in Elements(b.wait_semaphores) \cup Elements(b.signal_semaphores) :
          w.semaphore \in BinarySem => app_sem[w.semaphore] < MaxOps

\* What the application knows the operation to be: for a binary semaphore, its
\* position among the operations on that semaphore.
Numbered(w) == IF w.semaphore \in BinarySem THEN [w EXCEPT !.payload = app_sem[w.semaphore] + 1] ELSE w
NumberedSeq(s) == [i \in DOMAIN s |-> Numbered(s[i])]

AppEnqueue(b) ==
    [s \in Sem |->
        IF s \in BinarySem
        THEN app_sem[s] + (IF \E w \in Elements(b.wait_semaphores) \cup Elements(b.signal_semaphores) : w.semaphore = s
                           THEN 1 ELSE 0)
        ELSE IF \E w \in Elements(b.signal_semaphores) : w.semaphore = s
             THEN (CHOOSE w \in Elements(b.signal_semaphores) : w.semaphore = s).payload
             ELSE app_sem[s]]

\* The driver accepts the next batch of the call, before anything is recorded.
DriverAccept(h) ==
    LET q == call[h].queue
        b == call[h].batches[call[h].idx + 1]
    IN  /\ hpc[h] = "driver" /\ call[h].idx < Len(call[h].batches)
        /\ ValidBatch(b)
        /\ issued' = [issued EXCEPT ![q] = Append(@,
              [b EXCEPT !.wait_semaphores = NumberedSeq(@), !.signal_semaphores = NumberedSeq(@), !.seq = Len(issued[q]) + 1])]
        /\ app_sem' = AppEnqueue(b)
        /\ vk_fence' = IF b.fence = NoFence THEN vk_fence
                       ELSE [vk_fence EXCEPT ![b.fence] = [st |-> "pending", queue |-> q, n |-> Len(issued[q]) + 1]]
        /\ IF call[h].idx + 1 = Len(call[h].batches)
           THEN hpc' = [hpc EXCEPT ![h] = "cbs"] /\ call' = [call EXCEPT ![h].idx = 0]
           ELSE hpc' = hpc /\ call' = [call EXCEPT ![h].idx = @ + 1]
        /\ UNCHANGED <<queueVars, threadVars, retireVars, executed, vk_sem, app_seen, sem, fence, in_use, cb_pending>>

\* Submit(): every command buffer's IncrementResources() and Submit(), under its own lock.
SubmitCbs(h) ==
    /\ hpc[h] = "cbs"
    /\ cb_pending' = [c \in Cb |-> cb_pending[c] + (IF c \in call[h].batches[1].cbs THEN 1 ELSE 0)]
    /\ hpc' = [hpc EXCEPT ![h] = "seq"]
    /\ call' = [call EXCEPT ![h].sub = call[h].batches[1]]
    /\ UNCHANGED <<queueVars, threadVars, retireVars, deviceVars, sem, fence, in_use>>

\* Mutant: seq_++ for ++seq_.
SubmitSeqPostIncrement(h) ==
    LET q == call[h].queue
    IN  /\ hpc[h] = "seq"
        /\ seq_' = [seq_ EXCEPT ![q] = @ + 1]
        /\ BeginUse(call[h].sub)
        /\ hpc' = [hpc EXCEPT ![h] = "enqueue"]
        /\ call' = [call EXCEPT ![h].sub.seq = seq_[q], ![h].idx = 1]
        /\ UNCHANGED <<request_seq_, submissions_, exit_thread_, threadVars, retireVars, deviceVars, sem, fence, cb_pending>>

\* submission.seq = ++seq_; submission.BeginUse();
SubmitSeq(h) ==
    LET q == call[h].queue
    IN  /\ hpc[h] = "seq"
        /\ seq_' = [seq_ EXCEPT ![q] = @ + 1]
        /\ BeginUse(call[h].sub)
        /\ hpc' = [hpc EXCEPT ![h] = "enqueue"]
        /\ call' = [call EXCEPT ![h].sub.seq = seq_[q] + 1, ![h].idx = 1]
        /\ UNCHANGED <<request_seq_, submissions_, exit_thread_, threadVars, retireVars, deviceVars, sem, fence, cb_pending>>

\* semaphore->EnqueueWait(), for the waits in order.
SubmitWait(h) ==
    LET c == call[h]
        w == c.sub.wait_semaphores[c.idx]
        s == w.semaphore
    IN  /\ hpc[h] = "enqueue" /\ c.idx \in 1..Len(c.sub.wait_semaphores) /\ SemUnlocked(s)
        /\ sem' = [sem EXCEPT ![s] = SemEnqueueWait(@, s \in BinarySem, c.queue, c.sub.seq, w.payload)]
        /\ call' = [call EXCEPT ![h].idx = @ + 1,
                                ![h].sub.wait_semaphores[c.idx].payload = OpPayload(sem[s], s \in BinarySem, w.payload)]
        /\ UNCHANGED <<queueVars, threadVars, retireVars, deviceVars, hpc, fence, in_use, cb_pending>>

\* semaphore->EnqueueSignal(), for the signals in order.
SubmitSignal(h) ==
    LET c == call[h]
        i == c.idx - Len(c.sub.wait_semaphores)
        w == c.sub.signal_semaphores[i]
        s == w.semaphore
    IN  /\ hpc[h] = "enqueue" /\ i \in 1..Len(c.sub.signal_semaphores) /\ SemUnlocked(s)
        /\ sem' = [sem EXCEPT ![s] = SemEnqueueSignal(@, s \in BinarySem, c.queue, c.sub.seq, w.payload)]
        /\ call' = [call EXCEPT ![h].idx = @ + 1,
                                ![h].sub.signal_semaphores[i].payload = OpPayload(sem[s], s \in BinarySem, w.payload)]
        /\ UNCHANGED <<queueVars, threadVars, retireVars, deviceVars, hpc, fence, in_use, cb_pending>>

\* Mutant: the early retirement asks for the number after the last.
SubmitFenceNextSeq(h) ==
    LET c == call[h]
        f == c.sub.fence
    IN  /\ hpc[h] = "enqueue" /\ c.idx = Len(c.sub.wait_semaphores) + Len(c.sub.signal_semaphores) + 1
        /\ hpc' = [hpc EXCEPT ![h] = "push"]
        /\ IF f = NoFence
           THEN UNCHANGED <<fence, call>>
           ELSE /\ fence' = [fence EXCEPT ![f] = FenceEnqueueSignal(@, c.queue, c.sub.seq)]
                /\ call' = [call EXCEPT ![h].early = IF FenceRetiresEarly(fence[f]) THEN c.sub.seq + 1 ELSE @]
        /\ UNCHANGED <<queueVars, threadVars, retireVars, deviceVars, sem, in_use, cb_pending>>

\* fence->EnqueueSignal(), after all semaphores; TRUE asks for an early retirement.
SubmitFence(h) ==
    LET c == call[h]
        f == c.sub.fence
    IN  /\ hpc[h] = "enqueue" /\ c.idx = Len(c.sub.wait_semaphores) + Len(c.sub.signal_semaphores) + 1
        /\ hpc' = [hpc EXCEPT ![h] = "push"]
        /\ IF f = NoFence
           THEN UNCHANGED <<fence, call>>
           ELSE /\ fence' = [fence EXCEPT ![f] = FenceEnqueueSignal(@, c.queue, c.sub.seq)]
                /\ call' = [call EXCEPT ![h].early = IF FenceRetiresEarly(fence[f]) THEN c.sub.seq ELSE @]
        /\ UNCHANGED <<queueVars, threadVars, retireVars, deviceVars, sem, in_use, cb_pending>>

\* Mutant: the loop over the batches runs once too often.
SubmitPushOneMore(h) ==
    LET c == call[h]
    IN  /\ hpc[h] = "push"
        /\ submissions_' = [submissions_ EXCEPT ![c.queue] = Append(@, c.sub)]
        /\ tpc' = [tpc EXCEPT ![c.queue] = IF @ = "none" THEN "next" ELSE @]
        /\ IF Len(c.batches) > 0
           THEN hpc' = [hpc EXCEPT ![h] = "cbs"] /\ call' = [call EXCEPT ![h].batches = Tail(@)]
           ELSE Return(h)
        /\ UNCHANGED <<seq_, request_seq_, exit_thread_, tcur, tidx, done_, retireVars, deviceVars, sem, fence, in_use, cb_pending>>

\* submissions_.emplace_back(), which starts the thread but does not wake it; then
\* the next batch, the early retirement, or the end of the call.
SubmitPush(h) ==
    LET c == call[h]
        q == c.queue
    IN  /\ hpc[h] = "push"
        /\ submissions_' = [submissions_ EXCEPT ![q] = Append(@, c.sub)]
        /\ tpc' = [tpc EXCEPT ![q] = IF @ = "none" THEN "next" ELSE @]
        /\ IF Len(c.batches) > 1
           THEN hpc' = [hpc EXCEPT ![h] = "cbs"] /\ call' = [call EXCEPT ![h].batches = Tail(@)]
           ELSE IF c.early > 0
           THEN hpc' = [hpc EXCEPT ![h] = "qnotify"] /\ call' = [call EXCEPT ![h] = [NoCall EXCEPT !.queue = q, !.until = c.early]]
           ELSE Return(h)
        /\ UNCHANGED <<seq_, request_seq_, exit_thread_, tcur, tidx, done_, retireVars, deviceVars, sem, fence, in_use, cb_pending>>

-----------------------------------------------------------------------------
(* QUEUE_STATE::NotifyAndWait(), from vkQueueWaitIdle, vkDeviceWaitIdle and *)
(* early retirement.                                                        *)

DeviceIdle(q) == executed[q] = Len(issued[q])

QueueWaitIdle(h, q) ==
    /\ hpc[h] = "idle" /\ QueueFree(q) /\ DeviceIdle(q)
    /\ hpc' = [hpc EXCEPT ![h] = "qnotify"]
    /\ call' = [call EXCEPT ![h] = [NoCall EXCEPT !.queue = q, !.until = AllSeq]]
    /\ UNCHANGED <<queueVars, threadVars, retireVars, deviceVars, sem, fence, in_use, cb_pending>>

DeviceWaitIdle(h, first) ==
    /\ hpc[h] = "idle"
    /\ \A q \in Queue : QueueFree(q) /\ DeviceIdle(q)
    /\ hpc' = [hpc EXCEPT ![h] = "qnotify"]
    /\ call' = [call EXCEPT ![h] = [NoCall EXCEPT !.queue = first, !.todo = Queue \ {first}, !.until = AllSeq]]
    /\ UNCHANGED <<queueVars, threadVars, retireVars, deviceVars, sem, fence, in_use, cb_pending>>

\* Mutant: "all submissions" includes the next one.
QueueNotifyBeyond(h) ==
    LET q == call[h].queue
        until == IF call[h].until = AllSeq THEN seq_[q] + 1 ELSE call[h].until
    IN  /\ hpc[h] = "qnotify"
        /\ Notify(q, until)
        /\ hpc' = [hpc EXCEPT ![h] = "qwait"]
        /\ call' = [call EXCEPT ![h].until = until]
        /\ UNCHANGED <<seq_, submissions_, exit_thread_, tcur, tidx, done_, retireVars, deviceVars, sem, fence, in_use, cb_pending>>

\* Notify(): its first critical section.
QueueNotify(h) ==
    LET q == call[h].queue
        until == IF call[h].until = AllSeq THEN seq_[q] ELSE call[h].until
    IN  /\ hpc[h] = "qnotify"
        /\ Notify(q, until)
        /\ hpc' = [hpc EXCEPT ![h] = "qwait"]
        /\ call' = [call EXCEPT ![h].until = until]
        /\ UNCHANGED <<seq_, submissions_, exit_thread_, tcur, tidx, done_, retireVars, deviceVars, sem, fence, in_use, cb_pending>>

\* Wait() finds nothing to wait for.
AlreadyDone(q, until) == submissions_[q] # << >> => until < Head(submissions_[q]).seq

\* The wait on this queue is over: on to the next queue, or back to the application.
QueueWaitDone(h) ==
    IF call[h].todo = {} THEN Return(h)
    ELSE \E q \in call[h].todo :
            /\ hpc' = [hpc EXCEPT ![h] = "qnotify"]
            /\ call' = [call EXCEPT ![h] = [NoCall EXCEPT !.queue = q, !.todo = call[h].todo \ {q}, !.until = AllSeq]]

\* Wait(): its second critical section, which picks the waiter.
QueueWait(h) ==
    /\ hpc[h] = "qwait"
    /\ IF AlreadyDone(call[h].queue, call[h].until)
       THEN QueueWaitDone(h)
       ELSE hpc' = [hpc EXCEPT ![h] = "qblock"] /\ call' = call
    /\ UNCHANGED <<queueVars, threadVars, retireVars, deviceVars, sem, fence, in_use, cb_pending>>

\* waiter.wait_until() returns: the thread has satisfied the submission's promise.
QueueWaitReady(h) ==
    /\ hpc[h] = "qblock" /\ done_[call[h].queue] >= call[h].until
    /\ QueueWaitDone(h)
    /\ UNCHANGED <<queueVars, threadVars, retireVars, deviceVars, sem, fence, in_use, cb_pending>>

-----------------------------------------------------------------------------
(* Fences *)

\* vkWaitForFences (all, or one) and vkGetFenceStatus returned VK_SUCCESS:
\* FENCE_STATE::NotifyAndWait(), up to the wait outside the lock.
WaitForFence(h, f) ==
    /\ hpc[h] = "idle" /\ FenceFree(f) /\ vk_fence[f].st \in {"signaled", "observed"}
    /\ vk_fence' = [vk_fence EXCEPT ![f].st = "observed"]
    /\ IF FenceNotifiesQueue(fence[f])
       THEN Notify(fence[f].queue, fence[f].seq)
       ELSE UNCHANGED <<request_seq_, tpc>>
    /\ fence' = [fence EXCEPT ![f] = FenceNotify(@)]
    /\ IF fence[f].state = "FENCE_INFLIGHT"
       THEN hpc' = [hpc EXCEPT ![h] = "fblock"] /\ call' = [call EXCEPT ![h].fence = f]
       ELSE UNCHANGED hostVars
    /\ UNCHANGED <<seq_, submissions_, exit_thread_, tcur, tidx, done_, retireVars, issued, executed, vk_sem, app_sem, app_seen,
                   sem, in_use, cb_pending>>

FenceWaitReady(h) ==
    /\ hpc[h] = "fblock" /\ FenceReady(fence[call[h].fence])
    /\ Return(h)
    /\ UNCHANGED <<queueVars, threadVars, retireVars, deviceVars, sem, fence, in_use, cb_pending>>

\* vkResetFences: the application has seen the fence signaled, or never used it.
ResetFence(h, f) ==
    /\ hpc[h] = "idle" /\ FenceFree(f) /\ vk_fence[f].st \in {"unsignaled", "observed"}
    /\ fence' = [fence EXCEPT ![f] = FenceReset(@)]
    /\ vk_fence' = [vk_fence EXCEPT ![f].st = "unsignaled"]
    /\ UNCHANGED <<queueVars, threadVars, retireVars, hostVars, issued, executed, app_seen, vk_sem, app_sem, sem, in_use, cb_pending>>

\* vkImportFence...: the fence must not be in flight; its new payload may be signaled.
ImportFence(h, f, temporary, st) ==
    /\ hpc[h] = "idle" /\ FenceFree(f) /\ vk_fence[f].st \in {"unsignaled", "observed"}
    /\ fence' = [fence EXCEPT ![f] = FenceImport(@, temporary)]
    /\ vk_fence' = [vk_fence EXCEPT ![f].st = st]
    /\ UNCHANGED <<queueVars, threadVars, retireVars, hostVars, issued, executed, app_seen, vk_sem, app_sem, sem, in_use, cb_pending>>

\* vkGetFence...: a SYNC_FD export needs a signaled or pending fence and resets it.
ExportFence(h, f, syncFd) ==
    /\ hpc[h] = "idle" /\ FenceFree(f)
    /\ syncFd => vk_fence[f].st # "unsignaled"
    /\ fence' = [fence EXCEPT ![f] = FenceExport(@, syncFd)]
    /\ vk_fence' = IF syncFd THEN [vk_fence EXCEPT ![f].st = "unsignaled"] ELSE vk_fence
    /\ UNCHANGED <<queueVars, threadVars, retireVars, hostVars, issued, executed, app_seen, vk_sem, app_sem, sem, in_use, cb_pending>>

-----------------------------------------------------------------------------
(* Semaphores *)

\* vkAcquireNextImageKHR: the presentation engine signals f and s, no queue does.
AcquireNextImage(h, s, f) ==
    /\ hpc[h] = "idle" /\ FenceFree(f) /\ BinaryFree(s) /\ SemUnlocked(s)
    /\ vk_fence[f].st = "unsignaled" /\ app_sem[s] % 2 = 0 /\ vk_sem[s] = app_sem[s] /\ app_sem[s] < MaxOps
    /\ fence' = [fence EXCEPT ![f] = FenceEnqueueSignal(@, NoQueue, 0)]
    /\ sem' = [sem EXCEPT ![s] = SemEnqueueAcquire(@)]
    /\ vk_fence' = [vk_fence EXCEPT ![f].st = "signaled"]
    /\ app_sem' = [app_sem EXCEPT ![s] = @ + 1]
    /\ vk_sem' = [vk_sem EXCEPT ![s] = @ + 1]
    /\ UNCHANGED <<queueVars, threadVars, retireVars, hostVars, issued, executed, app_seen, in_use, cb_pending>>

StartSemaphoreCall(h, pc, s, p) ==
    /\ hpc' = [hpc EXCEPT ![h] = pc]
    /\ frame' = [frame EXCEPT ![h] = [semaphore |-> s, payload |-> p, entry |-> NoEntry]]

\* vkWaitSemaphores or vkGetSemaphoreCounterValue returned VK_SUCCESS: NotifyAndWait()
\* reads scope_; an external semaphore takes the driver's word for the value.
WaitSemaphore(h, s, p) ==
    /\ hpc[h] = "idle" /\ p <= vk_sem[s]
    /\ StartSemaphoreCall(h, IF sem[s].scope = "kSyncScopeInternal" THEN "swait" ELSE "senqueue", s, p)
    /\ UNCHANGED <<queueVars, threadVars, sem_lock, rpc, call, deviceVars, sem, fence, in_use, cb_pending>>

\* vkSignalSemaphore: the host signals a value above the current one, which it has
\* seen, and below every pending one; then RetireTimeline().
SignalSemaphore(h, s, p) ==
    /\ hpc[h] = "idle" /\ app_seen[s] = vk_sem[s] /\ p > vk_sem[s]
    /\ \A q \in Queue : \A n \in (executed[q] + 1)..Len(issued[q]) :
          \A w \in Elements(issued[q][n].signal_semaphores) : w.semaphore = s => p < w.payload
    /\ vk_sem' = [vk_sem EXCEPT ![s] = p]
    /\ app_sem' = [app_sem EXCEPT ![s] = Max2(@, p)]
    /\ StartSemaphoreCall(h, "senqueue", s, p)
    /\ UNCHANGED <<queueVars, threadVars, sem_lock, rpc, call, issued, executed, app_seen, vk_fence, sem, fence, in_use, cb_pending>>

\* Wait(): find or add the entry to wait for.
SemaphoreWait(h) ==
    LET s == frame[h].semaphore
        p == frame[h].payload
    IN  /\ hpc[h] = "swait" /\ SemUnlocked(s)
        /\ IF p <= sem[s].completed.payload
           THEN UNCHANGED <<sem, frame>>
           ELSE /\ sem' = [sem EXCEPT ![s] = SemWait(@, p)]
                /\ frame' = [frame EXCEPT ![h].entry = EntryFor(sem[s], p)]
        /\ hpc' = [hpc EXCEPT ![h] = "spoke"]
        /\ UNCHANGED <<queueVars, threadVars, sem_lock, rpc, call, deviceVars, fence, in_use, cb_pending>>

\* Mutant: every payload is notified.
NotifiedAllSeqs(s, p, q) == {op.seq : op \in {o \in Pending(s) : o.queue = q}}

\* The sequence numbers SEMAPHORE_STATE::Notify(payload) passes to queue q.
NotifiedSeqs(s, p, q) == {op.seq : op \in {o \in Pending(s) : o.payload <= p /\ o.queue = q}}
MaxOf(S) == CHOOSE n \in S : \A m \in S : m <= n

\* do { Notify(payload); wait 10 ms } while (not ready)
SemaphorePoke(h) ==
    LET f == frame[h]
        Seqs(q) == NotifiedSeqs(sem[f.semaphore], f.payload, q)
    IN  /\ \/ hpc[h] = "spoke"
           \/ hpc[h] = "sblock" /\ f.entry \in Pending(sem[f.semaphore])
        /\ SemUnlocked(f.semaphore)
        /\ request_seq_' = [q \in Queue |-> MaxOf({request_seq_[q]} \cup Seqs(q))]
        /\ tpc' = [q \in Queue |-> IF Seqs(q) # {} THEN Woken(tpc[q]) ELSE tpc[q]]
        /\ hpc' = [hpc EXCEPT ![h] = "sblock"]
        /\ UNCHANGED <<seq_, submissions_, exit_thread_, tcur, tidx, done_, retireVars, call, deviceVars, sem, fence, in_use, cb_pending>>

SemaphoreReady(h) ==
    /\ hpc[h] = "sblock" /\ frame[h].entry \notin Pending(sem[frame[h].semaphore])
    /\ Return(h) /\ Seen(h)
    /\ UNCHANGED <<queueVars, threadVars, retireVars, issued, executed, vk_sem, vk_fence, app_sem,
                   sem, fence, in_use, cb_pending>>

\* RetireTimeline(): EnqueueSignal(nullptr, 0, payload), then Retire(nullptr, payload).
RetireTimelineEnqueue(h) ==
    LET s == frame[h].semaphore
    IN  /\ hpc[h] = "senqueue" /\ SemUnlocked(s)
        /\ sem' = [sem EXCEPT ![s] = SemEnqueueSignal(@, FALSE, NoQueue, 0, frame[h].payload)]
        /\ hpc' = [hpc EXCEPT ![h] = "sretire"]
        /\ UNCHANGED <<queueVars, threadVars, retireVars, call, deviceVars, fence, in_use, cb_pending>>

RetireTimelineBegin(h) ==
    LET s == frame[h].semaphore
    IN  /\ hpc[h] = "sretire" /\ rpc[h] = "idle" /\ SemUnlocked(s)
        /\ sem_lock' = [sem_lock EXCEPT ![s] = h]
        /\ rpc' = [rpc EXCEPT ![h] = "loop"]
        /\ UNCHANGED <<queueVars, threadVars, frame, hostVars, deviceVars, sem, fence, in_use, cb_pending>>

\* vkImportSemaphore... and vkGetSemaphore..., when nothing is pending on the semaphore.
ImportSemaphore(h, s, temporary) ==
    /\ hpc[h] = "idle" /\ SemUnlocked(s) /\ app_sem[s] = vk_sem[s]
    /\ sem' = [sem EXCEPT ![s] = SemImport(@, temporary)]
    /\ UNCHANGED <<queueVars, threadVars, retireVars, hostVars, deviceVars, fence, in_use, cb_pending>>

ExportSemaphore(h, s, syncFd) ==
    /\ hpc[h] = "idle" /\ SemUnlocked(s)
    /\ sem' = [sem EXCEPT ![s] = SemExport(@, syncFd)]
    /\ UNCHANGED <<queueVars, threadVars, retireVars, hostVars, deviceVars, fence, in_use, cb_pending>>

-----------------------------------------------------------------------------
(* SEMAPHORE_STATE::Retire(current_queue, payload): its loop, for a queue   *)
(* thread (current_queue is its queue) or a host thread (nullptr).          *)

CurrentQueue(a) == IF a \in Queue THEN a ELSE NoQueue

\* An entry of this queue or of none: complete it, erase it, satisfy its promise.
RetireAtOnce(a) ==
    LET s  == frame[a].semaphore
        op == Head(sem[s].operations)
    IN  /\ rpc[a] = "loop" /\ RetireCovers(sem[s], frame[a].payload) /\ RetiresAtOnce(sem[s], CurrentQueue(a))
        /\ IF op.queue # NoQueue THEN Notify(op.queue, op.seq) ELSE UNCHANGED <<request_seq_, tpc>>
        /\ sem' = [sem EXCEPT ![s] = RetireHead(@)]
        /\ UNCHANGED <<seq_, submissions_, exit_thread_, tcur, tidx, done_, retireVars, hostVars, deviceVars, fence, in_use, cb_pending>>

\* An entry of another queue: notify that queue, unlock, and wait for it.
RetireWaitOther(a) ==
    LET s  == frame[a].semaphore
        op == Head(sem[s].operations)
    IN  /\ rpc[a] = "loop" /\ RetireCovers(sem[s], frame[a].payload) /\ ~RetiresAtOnce(sem[s], CurrentQueue(a))
        /\ Notify(op.queue, op.seq)
        /\ sem_lock' = [sem_lock EXCEPT ![s] = NoActor]
        /\ rpc' = [rpc EXCEPT ![a] = "blocked"]
        /\ frame' = [frame EXCEPT ![a].entry = op]
        /\ UNCHANGED <<seq_, submissions_, exit_thread_, tcur, tidx, done_, hostVars, deviceVars, sem, fence, in_use, cb_pending>>

\* The other queue has retired the entry: lock again and look at the next one.
RetireResume(a) ==
    LET s == frame[a].semaphore
    IN  /\ rpc[a] = "blocked" /\ frame[a].entry \notin Pending(sem[s]) /\ SemUnlocked(s)
        /\ sem_lock' = [sem_lock EXCEPT ![s] = a]
        /\ rpc' = [rpc EXCEPT ![a] = "loop"]
        /\ UNCHANGED <<queueVars, threadVars, frame, hostVars, deviceVars, sem, fence, in_use, cb_pending>>

\* Nothing covered is left: unlock and return.
RetireEnd(a) ==
    LET s == frame[a].semaphore
    IN  /\ rpc[a] = "loop" /\ ~RetireCovers(sem[s], frame[a].payload)
        /\ sem_lock' = [sem_lock EXCEPT ![s] = NoActor]
        /\ rpc' = [rpc EXCEPT ![a] = "idle"]
        /\ IF a \in Queue
           THEN tidx' = [tidx EXCEPT ![a] = @ + 1] /\ UNCHANGED <<hostVars, app_seen>>
           ELSE Return(a) /\ Seen(a) /\ UNCHANGED tidx
        /\ UNCHANGED <<queueVars, tpc, tcur, done_, frame, issued, executed, vk_sem, vk_fence, app_sem,
                       sem, fence, in_use, cb_pending>>

Retire(a) == RetireAtOnce(a) \/ RetireWaitOther(a) \/ RetireResume(a) \/ RetireEnd(a)

-----------------------------------------------------------------------------
(* QUEUE_STATE::ThreadFunc() *)

\* NextSubmission() waits until it has a submission the device is known to have
\* finished.
NothingToRetire(q) == submissions_[q] # << >> => request_seq_[q] < Head(submissions_[q]).seq

ThreadSleep(q) ==
    /\ tpc[q] = "next" /\ ~exit_thread_[q] /\ NothingToRetire(q)
    /\ tpc' = [tpc EXCEPT ![q] = "asleep"]
    /\ UNCHANGED <<queueVars, tcur, tidx, done_, retireVars, hostVars, deviceVars, sem, fence, in_use, cb_pending>>

\* Mutant: the newest submission is taken.
ThreadPopBack(q) ==
    /\ tpc[q] = "next" /\ ~exit_thread_[q] /\ ~NothingToRetire(q)
    /\ tcur' = [tcur EXCEPT ![q] = submissions_[q][Len(submissions_[q])]]
    /\ submissions_' = [submissions_ EXCEPT ![q] = SubSeq(@, 1, Len(@) - 1)]
    /\ tpc' = [tpc EXCEPT ![q] = "enduse"]
    /\ UNCHANGED <<seq_, request_seq_, exit_thread_, tidx, done_, retireVars, hostVars, deviceVars, sem, fence, in_use, cb_pending>>

ThreadPop(q) ==
    /\ tpc[q] = "next" /\ ~exit_thread_[q] /\ ~NothingToRetire(q)
    /\ tcur' = [tcur EXCEPT ![q] = Head(submissions_[q])]
    /\ submissions_' = [submissions_ EXCEPT ![q] = Tail(@)]
    /\ tpc' = [tpc EXCEPT ![q] = "enduse"]
    /\ UNCHANGED <<seq_, request_seq_, exit_thread_, tidx, done_, retireVars, hostVars, deviceVars, sem, fence, in_use, cb_pending>>

ThreadExit(q) ==
    /\ tpc[q] = "next" /\ exit_thread_[q]
    /\ tpc' = [tpc EXCEPT ![q] = "exited"]
    /\ UNCHANGED <<queueVars, tcur, tidx, done_, retireVars, hostVars, deviceVars, sem, fence, in_use, cb_pending>>

ThreadEndUse(q) ==
    /\ tpc[q] = "enduse"
    /\ EndUse(tcur[q])
    /\ tpc' = [tpc EXCEPT ![q] = "waits"]
    /\ tidx' = [tidx EXCEPT ![q] = 0]
    /\ UNCHANGED <<queueVars, tcur, done_, retireVars, hostVars, deviceVars, sem, fence, cb_pending>>

\* The semaphores of the loop the thread is in.
LoopSemaphores(q) ==
    IF tpc[q] = "waits" THEN tcur[q].wait_semaphores ELSE tcur[q].signal_semaphores

\* semaphore->Retire(this, payload) for the next semaphore of the loop.
ThreadRetireSemaphore(q) ==
    LET w == LoopSemaphores(q)[tidx[q] + 1]
    IN  /\ tpc[q] \in {"waits", "signals"} /\ rpc[q] = "idle" /\ tidx[q] < Len(LoopSemaphores(q))
        /\ SemUnlocked(w.semaphore)
        /\ sem_lock' = [sem_lock EXCEPT ![w.semaphore] = q]
        /\ rpc' = [rpc EXCEPT ![q] = "loop"]
        /\ frame' = [frame EXCEPT ![q] = [semaphore |-> w.semaphore, payload |-> w.payload, entry |-> NoEntry]]
        /\ UNCHANGED <<queueVars, threadVars, hostVars, deviceVars, sem, fence, in_use, cb_pending>>

ThreadLoopDone(q) ==
    /\ tpc[q] \in {"waits", "signals"} /\ rpc[q] = "idle" /\ tidx[q] = Len(LoopSemaphores(q))
    /\ tpc' = [tpc EXCEPT ![q] = IF @ = "waits" THEN "cbs" ELSE "fence"]
    /\ tidx' = [tidx EXCEPT ![q] = 0]
    /\ UNCHANGED <<queueVars, tcur, done_, retireVars, hostVars, deviceVars, sem, fence, in_use, cb_pending>>

\* cb_node->Retire(), for every command buffer under its own lock.
ThreadRetireCbs(q) ==
    /\ tpc[q] = "cbs"
    /\ cb_pending' = [c \in Cb |-> cb_pending[c] - (IF c \in tcur[q].cbs THEN 1 ELSE 0)]
    /\ tpc' = [tpc EXCEPT ![q] = "signals"]
    /\ UNCHANGED <<queueVars, tcur, tidx, done_, retireVars, hostVars, deviceVars, sem, fence, in_use>>

ThreadRetireFence(q) ==
    /\ tpc[q] = "fence"
    /\ fence' = IF tcur[q].fence = NoFence THEN fence ELSE [fence EXCEPT ![tcur[q].fence] = FenceRetire(@)]
    /\ tpc' = [tpc EXCEPT ![q] = "complete"]
    /\ UNCHANGED <<queueVars, tcur, tidx, done_, retireVars, hostVars, deviceVars, sem, in_use, cb_pending>>

\* submission->completed.set_value()
ThreadComplete(q) ==
    /\ tpc[q] = "complete"
    /\ done_' = [done_ EXCEPT ![q] = tcur[q].seq]
    /\ tpc' = [tpc EXCEPT ![q] = "next"]
    /\ UNCHANGED <<queueVars, tcur, tidx, retireVars, hostVars, deviceVars, sem, fence, in_use, cb_pending>>

ThreadFunc(q) ==
    \/ ThreadSleep(q) \/ ThreadPop(q) \/ ThreadExit(q) \/ ThreadEndUse(q)
    \/ ThreadRetireSemaphore(q) \/ ThreadLoopDone(q) \/ ThreadRetireCbs(q)
    \/ ThreadRetireFence(q) \/ ThreadComplete(q)
    \/ Retire(q)

-----------------------------------------------------------------------------
(* vkDestroyDevice: QUEUE_STATE::Destroy() for every queue, one at a time.  *)

DestroyDevice(h, first) ==
    /\ \A g \in Host : hpc[g] = "idle"
    /\ \A q \in Queue : DeviceIdle(q)
    /\ hpc' = [hpc EXCEPT ![h] = "qexit"]
    /\ call' = [call EXCEPT ![h] = [NoCall EXCEPT !.queue = first, !.todo = Queue \ {first}]]
    /\ UNCHANGED <<queueVars, threadVars, retireVars, deviceVars, sem, fence, in_use, cb_pending>>

\* Mutant: exit_thread_ without cond_.notify_all().
DestroySilently(h) ==
    /\ hpc[h] = "qexit"
    /\ exit_thread_' = [exit_thread_ EXCEPT ![call[h].queue] = TRUE]
    /\ hpc' = [hpc EXCEPT ![h] = "qjoin"]
    /\ UNCHANGED <<seq_, request_seq_, submissions_, threadVars, retireVars, call, deviceVars, sem, fence, in_use, cb_pending>>

\* exit_thread_ = true; cond_.notify_all();
DestroyNotify(h) ==
    LET q == call[h].queue
    IN  /\ hpc[h] = "qexit"
        /\ exit_thread_' = [exit_thread_ EXCEPT ![q] = TRUE]
        /\ tpc' = [tpc EXCEPT ![q] = Woken(@)]
        /\ hpc' = [hpc EXCEPT ![h] = "qjoin"]
        /\ UNCHANGED <<seq_, request_seq_, submissions_, tcur, tidx, done_, retireVars, call, deviceVars, sem, fence, in_use, cb_pending>>

\* dead_thread->join(), then the next queue.
DestroyJoin(h) ==
    /\ hpc[h] = "qjoin" /\ tpc[call[h].queue] \in {"none", "exited"}
    /\ IF call[h].todo = {} THEN Return(h)
       ELSE \E q \in call[h].todo :
               /\ hpc' = [hpc EXCEPT ![h] = "qexit"]
               /\ call' = [call EXCEPT ![h].queue = q, ![h].todo = @ \ {q}]
    /\ UNCHANGED <<queueVars, threadVars, retireVars, deviceVars, sem, fence, in_use, cb_pending>>

-----------------------------------------------------------------------------
(* The device executes the next batch of a queue when its waits are         *)
(* satisfied.  A binary operation executes after the one before it.         *)

Satisfied(w) == IF w.semaphore \in BinarySem THEN vk_sem[w.semaphore] = w.payload - 1
                                             ELSE vk_sem[w.semaphore] >= w.payload

DeviceExecute(q) ==
    LET b == issued[q][executed[q] + 1]
        On(ws, s) == {w \in Elements(ws) : w.semaphore = s}
    IN  /\ executed[q] < Len(issued[q])
        /\ \A w \in Elements(b.wait_semaphores) : Satisfied(w)
        /\ \A w \in Elements(b.signal_semaphores) : w.semaphore \in BinarySem => Satisfied(w)
        /\ executed' = [executed EXCEPT ![q] = @ + 1]
        /\ vk_sem' = [s \in Sem |->
              IF On(b.signal_semaphores, s) # {} THEN (CHOOSE w \in On(b.signal_semaphores, s) : TRUE).payload
              ELSE IF s \in BinarySem /\ On(b.wait_semaphores, s) # {} THEN vk_sem[s] + 1
              ELSE vk_sem[s]]
        /\ vk_fence' = [f \in Fence |->
              IF vk_fence[f] = [st |-> "pending", queue |-> q, n |-> executed[q] + 1]
              THEN [vk_fence[f] EXCEPT !.st = "signaled"] ELSE vk_fence[f]]
        /\ UNCHANGED <<queueVars, threadVars, retireVars, hostVars, issued, app_sem, app_seen, sem, fence, in_use, cb_pending>>

-----------------------------------------------------------------------------
(* Steps of a call under way, calls an application may start, and the whole *)

HostStep(h) ==
    \/ DriverAccept(h) \/ SubmitCbs(h) \/ SubmitSeq(h) \/ SubmitWait(h) \/ SubmitSignal(h)
    \/ SubmitFence(h) \/ SubmitPush(h)
    \/ QueueNotify(h) \/ QueueWait(h) \/ QueueWaitReady(h)
    \/ FenceWaitReady(h)
    \/ SemaphoreWait(h) \/ SemaphorePoke(h) \/ SemaphoreReady(h)
    \/ RetireTimelineEnqueue(h) \/ RetireTimelineBegin(h) \/ Retire(h)
    \/ DestroyNotify(h) \/ DestroyJoin(h)

Uses(api) == api \in ApiUsed

\* vkDestroyDevice has not been called.
DeviceAlive == /\ \A q \in Queue : ~exit_thread_[q]
               /\ \A g \in Host : hpc[g] \notin {"qexit", "qjoin"}

HostCall(h) ==
  /\ DeviceAlive
  /\ \/ \E q \in Queue : \/ \E bs \in Calls[q] : QueueSubmit(h, q, bs)
                         \/ Uses("vkQueueWaitIdle")  /\ QueueWaitIdle(h, q)
                         \/ Uses("vkDeviceWaitIdle") /\ DeviceWaitIdle(h, q)
                         \/ Uses("vkDestroyDevice")  /\ DestroyDevice(h, q)
     \/ \E f \in Fence : \/ Uses("vkWaitForFences") /\ WaitForFence(h, f)
                         \/ Uses("vkResetFences")   /\ ResetFence(h, f)
                         \/ \E b \in BOOLEAN, st \in {"unsignaled", "signaled"} :
                               Uses("vkImportFenceFdKHR") /\ ImportFence(h, f, b, st)
                         \/ Uses("vkGetFenceFdKHR")         /\ ExportFence(h, f, FALSE)
                         \/ Uses("vkGetFenceFdKHR_SYNC_FD") /\ ExportFence(h, f, TRUE)
                         \/ \E s \in BinarySem : Uses("vkAcquireNextImageKHR") /\ AcquireNextImage(h, s, f)
     \/ \E s \in TimelineSem, p \in Payloads :
           \/ Uses("vkWaitSemaphores")  /\ WaitSemaphore(h, s, p)
           \/ Uses("vkSignalSemaphore") /\ SignalSemaphore(h, s, p)
     \/ \E s \in Sem, b \in BOOLEAN :
           \/ Uses("vkImportSemaphoreFdKHR") /\ ImportSemaphore(h, s, b)
           \/ Uses("vkGetSemaphoreFdKHR")    /\ ExportSemaphore(h, s, b)

Next ==
    \/ \E h \in Host : HostStep(h) \/ HostCall(h)
    \/ \E q \in Queue : ThreadFunc(q) \/ DeviceExecute(q)

Spec == Init /\ [][Next]_vars

\* The operating system runs every thread that can run: queue threads and host
\* threads inside a call.  No fairness for the device or for new calls.
Fairness == /\ \A q \in Queue : WF_vars(ThreadFunc(q))
            /\ \A h \in Host : WF_vars(HostStep(h))

FairSpec == Spec /\ Fairness
=============================================================================
