----------------------------- MODULE FenceState -----------------------------
(***************************************************************************)
(* FENCE_STATE (layers/queue_state.h, queue_state.cpp): the layer's record  *)
(* of one VkFence.  Every operator below is the body of one method, which   *)
(* the code runs under the fence's write lock; the state machine that calls *)
(* them is QueueState.                                                      *)
(*                                                                          *)
(* completed_/waiter_ is a std::promise and its shared_future.  The record  *)
(* keeps the number of times set_value() was called on the current promise: *)
(* 0 is "not ready", 1 is "ready", and a second call throws                 *)
(* std::future_error.                                                       *)
(***************************************************************************)
EXTENDS Naturals

CONSTANTS Queue,    \* the QUEUE_STATE objects
          NoQueue   \* nullptr

ASSUME NoQueueAssumption == NoQueue \notin Queue

SyncScope == {"kSyncScopeInternal", "kSyncScopeExternalTemporary", "kSyncScopeExternalPermanent"}

FENCE_STATUS == {"FENCE_UNSIGNALED", "FENCE_INFLIGHT", "FENCE_RETIRED"}

FenceRecord == [state     : FENCE_STATUS,
                scope     : SyncScope,
                queue     : Queue \cup {NoQueue},
                seq       : Nat,
                completed : Nat]

\* The constructor, without and with VK_FENCE_CREATE_SIGNALED_BIT.
NewFence(signaled) ==
    [state |-> IF signaled THEN "FENCE_RETIRED" ELSE "FENCE_UNSIGNALED",
     scope |-> "kSyncScopeInternal", queue |-> NoQueue, seq |-> 0, completed |-> 0]

\* A fence whose payload lives outside the layer is not tracked: the caller is
\* told (by the result TRUE) to retire the submission early.
FenceRetiresEarly(f) == f.scope # "kSyncScopeInternal"

FenceEnqueueSignal(f, q, seq) ==
    IF FenceRetiresEarly(f)
    THEN f
    ELSE [f EXCEPT !.state = "FENCE_INFLIGHT", !.queue = q, !.seq = seq]

\* NotifyAndWait() tells a queue only if the signal is a tracked queue operation.
FenceNotifiesQueue(f) ==
    f.state = "FENCE_INFLIGHT" /\ f.scope = "kSyncScopeInternal" /\ f.queue # NoQueue

\* Mutants of Retire(): the promise is satisfied whatever the state, or never.
FenceRetireUnguarded(f) == [f EXCEPT !.state = "FENCE_RETIRED", !.completed = @ + 1]
FenceRetireSilent(f) == IF f.state = "FENCE_INFLIGHT" THEN [f EXCEPT !.state = "FENCE_RETIRED"] ELSE f

\* state_ = FENCE_RETIRED and completed_.set_value(), if the fence is in flight.
FenceRetire(f) ==
    IF f.state = "FENCE_INFLIGHT"
    THEN [f EXCEPT !.state = "FENCE_RETIRED", !.completed = @ + 1]
    ELSE f

\* Mutant: the waiting thread retires the fence itself.
FenceNotifyEager(f) == FenceRetire(f)

\* The locked part of NotifyAndWait() that changes the fence itself.
FenceNotify(f) == IF FenceNotifiesQueue(f) THEN f ELSE FenceRetire(f)

\* Mutant: the state is not reset.
FenceResetKeepsState(f) == [f EXCEPT !.queue = NoQueue, !.seq = 0, !.completed = 0]

\* vkResetFences(): a temporary import is undone first; the promise is renewed.
FenceReset(f) ==
    LET scope == IF f.scope = "kSyncScopeExternalTemporary" THEN "kSyncScopeInternal" ELSE f.scope
    IN  [state |-> IF scope = "kSyncScopeInternal" THEN "FENCE_UNSIGNALED" ELSE f.state,
         scope |-> scope, queue |-> NoQueue, seq |-> 0, completed |-> 0]

\* Scope after an import of a SYNC_FD or TEMPORARY payload (temporary), or of another one.
ImportScope(scope, temporary) ==
    IF scope # "kSyncScopeInternal" \/ ~temporary
    THEN "kSyncScopeExternalPermanent"
    ELSE "kSyncScopeExternalTemporary"

FenceImport(f, temporary) == [f EXCEPT !.scope = ImportScope(@, temporary)]

\* Export by reference (every handle type but SYNC_FD) makes the fence external;
\* export by copy (SYNC_FD) resets an internal fence, but neither renews the
\* promise nor forgets the queue position.
FenceExport(f, syncFd) ==
    IF ~syncFd
    THEN [f EXCEPT !.scope = "kSyncScopeExternalPermanent"]
    ELSE IF f.scope = "kSyncScopeInternal"
         THEN [f EXCEPT !.state = "FENCE_UNSIGNALED"]
         ELSE f

\* waiter_.wait_until() returns ready.
FenceReady(f) == f.completed > 0
=============================================================================
