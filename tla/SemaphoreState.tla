--------------------------- MODULE SemaphoreState ---------------------------
(***************************************************************************)
(* SEMAPHORE_STATE (layers/queue_state.h, queue_state.cpp): the layer's     *)
(* record of one binary or timeline VkSemaphore.                            *)
(*                                                                          *)
(* operations_ is a std::multimap keyed by the payload: a sequence sorted   *)
(* by payload in which an equal key is inserted after its equals.  Each     *)
(* entry's promise is satisfied in the critical section that erases the     *)
(* entry, so a waiter of an entry is ready exactly when the entry is gone.  *)
(***************************************************************************)
EXTENDS Naturals, Sequences, FenceState

OpType == {"kNone", "kWait", "kSignal", "kBinaryAcquire"}

SemOp == [op_type : OpType, queue : Queue \cup {NoQueue}, seq : Nat, payload : Nat]

NewOp(type, q, seq, payload) == [op_type |-> type, queue |-> q, seq |-> seq, payload |-> payload]

SemRecord == [scope        : SyncScope,
              completed    : SemOp,
              next_payload : Nat,
              operations   : Seq(SemOp)]

NewSemaphore(initialValue) ==
    [scope        |-> "kSyncScopeInternal",
     completed    |-> NewOp("kNone", NoQueue, 0, initialValue),
     next_payload |-> initialValue + 1,
     operations   |-> << >>]

\* Mutant: operations_ is not sorted.
EmplaceFront(ops, op) == <<op>> \o ops

\* std::multimap::emplace on a sorted sequence.
Emplace(ops, op) ==
    [i \in 1..(Len(ops) + 1) |->
        IF i <= Len(ops) /\ ops[i].payload <= op.payload THEN ops[i]
        ELSE IF i = 1 \/ ops[i - 1].payload <= op.payload THEN op
        ELSE ops[i - 1]]

\* The entries that are pending, as a set.
Pending(s) == {s.operations[i] : i \in DOMAIN s.operations}

\* The payload an operation gets: generated for a binary semaphore, the
\* application's for a timeline semaphore.
OpPayload(s, binary, payload) == IF binary THEN s.next_payload ELSE payload

SemEnqueue(s, binary, op) ==
    [s EXCEPT !.next_payload = IF binary THEN @ + 1 ELSE @,
              !.operations   = Emplace(@, op)]

SemEnqueueSignal(s, binary, q, seq, payload) ==
    SemEnqueue(s, binary, NewOp("kSignal", q, seq, OpPayload(s, binary, payload)))

\* A wait undoes a temporary import.  A timeline wait on a value that is
\* already completed leaves no entry.
SemEnqueueWait(s, binary, q, seq, payload) ==
    LET r == [s EXCEPT !.scope = IF @ = "kSyncScopeExternalTemporary" THEN "kSyncScopeInternal" ELSE @]
    IN  IF ~binary /\ payload <= s.completed.payload
        THEN r
        ELSE SemEnqueue(r, binary, NewOp("kWait", q, seq, OpPayload(r, binary, payload)))

SemEnqueueAcquire(s) ==
    SemEnqueue(s, TRUE, NewOp("kBinaryAcquire", NoQueue, 0, s.next_payload))

\* The verdicts validation takes for a binary semaphore: the kind of the last
\* pending operation, or of the completed one if none is pending.
LastSemOp(s) == IF s.operations = << >> THEN s.completed ELSE s.operations[Len(s.operations)]

CanBeSignaled(s) == LastSemOp(s).op_type \in {"kNone", "kWait"}

\* Mutant: the acquire operation is forgotten.
CanBeWaitedNoAcquire(s) == LastSemOp(s).op_type = "kSignal"

CanBeWaited(s) == LastSemOp(s).op_type \in {"kSignal", "kBinaryAcquire"}

\* Mutant: off by one.
RetireCoversBelow(s, payload) == s.operations # << >> /\ Head(s.operations).payload < payload

\* Retire(): the loop goes on while the first entry's payload is covered ...
RetireCovers(s, payload) == s.operations # << >> /\ Head(s.operations).payload <= payload

\* Mutant: other queues are not waited for.
RetiresAlways(s, current) == TRUE

\* ... and an entry of the retiring queue, or of no queue, is retired at once.
RetiresAtOnce(s, current) == Head(s.operations).queue \in {NoQueue, current}

RetireHead(s) == [s EXCEPT !.completed = Head(s.operations), !.operations = Tail(@)]

\* Wait(): the entry a host thread waits for - the first one with that payload,
\* or a new host wait if there is none.
EntryFor(s, payload) ==
    LET at == {i \in DOMAIN s.operations : s.operations[i].payload = payload}
    IN  IF at = {} THEN NewOp("kWait", NoQueue, 0, payload)
                   ELSE s.operations[CHOOSE i \in at : \A j \in at : i <= j]

\* Mutant: the new host wait is not entered.
SemWaitNoEntry(s, payload) == s

SemWait(s, payload) ==
    IF EntryFor(s, payload) \in Pending(s)
    THEN s
    ELSE [s EXCEPT !.operations = Emplace(@, EntryFor(s, payload))]

SemImport(s, temporary) == [s EXCEPT !.scope = ImportScope(@, temporary)]

SemExport(s, syncFd) ==
    IF syncFd THEN s ELSE [s EXCEPT !.scope = "kSyncScopeExternalPermanent"]
=============================================================================
