---------------------------- MODULE QueueProofs -----------------------------
(* Theorems about QueueState, for any number of queues, host threads,         *)
(* fences, semaphores and command buffers and any submissions.                *)
EXTENDS QueueProps, SequenceTheorems, FiniteSetTheorems, WellFoundedInduction, TLAPS

-----------------------------------------------------------------------------
(* Types *)

\* FENCE_STATE: every method maps a fence record to a fence record.
LEMMA FenceTypes ==
    ASSUME NEW f \in FenceRecord, NEW q \in Queue \cup {NoQueue}, NEW n \in Nat, NEW b \in BOOLEAN
    PROVE  /\ FenceEnqueueSignal(f, q, n) \in FenceRecord
           /\ FenceRetire(f) \in FenceRecord
           /\ FenceNotify(f) \in FenceRecord
           /\ FenceReset(f) \in FenceRecord
           /\ FenceImport(f, b) \in FenceRecord
           /\ FenceExport(f, b) \in FenceRecord
<1>1. FenceRetire(f) \in FenceRecord
  <2>1. f.completed + 1 \in Nat
    BY DEF FenceRecord
  <2>2. \A k \in Nat : [f EXCEPT !.state = "FENCE_RETIRED", !.completed = k] \in FenceRecord
    BY DEF FenceRecord, FENCE_STATUS
  <2> QED BY <2>1, <2>2 DEF FenceRetire
<1>2. FenceEnqueueSignal(f, q, n) \in FenceRecord
  BY DEF FenceEnqueueSignal, FenceRecord, FENCE_STATUS
<1>3. FenceReset(f) \in FenceRecord
  BY DEF FenceReset, FenceRecord, FENCE_STATUS, SyncScope
<1>4. FenceImport(f, b) \in FenceRecord
  BY DEF FenceImport, ImportScope, FenceRecord, SyncScope
<1>5. FenceExport(f, b) \in FenceRecord
  BY DEF FenceExport, FenceRecord, FENCE_STATUS, SyncScope
<1> QED
  BY <1>1, <1>2, <1>3, <1>4, <1>5 DEF FenceNotify

\* std::multimap::emplace keeps the entries and adds the new one.
LEMMA EmplaceType ==
    ASSUME NEW ops \in Seq(SemOp), NEW op \in SemOp
    PROVE  /\ Emplace(ops, op) \in Seq(SemOp)
           /\ Len(Emplace(ops, op)) = Len(ops) + 1
           /\ \A i \in 1..(Len(ops) + 1) :
                 \/ Emplace(ops, op)[i] = op
                 \/ \E j \in 1..Len(ops) : Emplace(ops, op)[i] = ops[j]
<1> DEFINE E == Emplace(ops, op)
<1>1. Len(ops) \in Nat /\ \A i \in 1..Len(ops) : ops[i] \in SemOp
  BY LenProperties, ElementOfSeq
<1>2. \A i \in 1..(Len(ops) + 1) : E[i] = op \/ \E j \in 1..Len(ops) : E[i] = ops[j]
  <2> TAKE i \in 1..(Len(ops) + 1)
  <2>1. CASE i <= Len(ops) /\ ops[i].payload <= op.payload
    BY <1>1, <2>1 DEF Emplace
  <2>2. CASE ~(i <= Len(ops) /\ ops[i].payload <= op.payload)
    <3>1. CASE i = 1 \/ ops[i - 1].payload <= op.payload
      BY <1>1, <2>2, <3>1 DEF Emplace
    <3>2. CASE ~(i = 1 \/ ops[i - 1].payload <= op.payload)
      <4>1. E[i] = ops[i - 1] /\ i - 1 \in 1..Len(ops)
        BY <1>1, <2>2, <3>2 DEF Emplace
      <4> QED BY <4>1
    <3> QED BY <3>1, <3>2
  <2> QED BY <2>1, <2>2
<1>3. \A i \in 1..(Len(ops) + 1) : E[i] \in SemOp
  BY <1>1, <1>2
<1>4. DOMAIN E = 1..(Len(ops) + 1) /\ E = [i \in DOMAIN E |-> E[i]]
  BY DEF Emplace
<1>5. E \in [1..(Len(ops) + 1) -> SemOp] /\ Len(ops) + 1 \in Nat
  BY <1>1, <1>3, <1>4
<1>6. E \in Seq(SemOp)
  BY <1>5, SeqDef
<1>7. Len(E) = Len(ops) + 1
  BY <1>4, <1>5, <1>6, LenProperties
<1> QED BY <1>2, <1>6, <1>7

\* The smallest element of a set of positions exists.
LEMMA NatMin ==
    ASSUME NEW S \in SUBSET Nat, S # {}
    PROVE  \E m \in S : \A n \in S : m <= n
<1>1. \E x \in S : \A y \in S : ~(<<y, x>> \in OpToRel(<, Nat))
  BY NatLessThanWellFounded, WFMin
<1>2. PICK x \in S : \A y \in S : ~(<<y, x>> \in OpToRel(<, Nat))
  BY <1>1
<1>3. \A y \in S : ~(y < x)
  BY <1>2 DEF OpToRel
<1> QED BY <1>3

\* Wait() waits for an operation: one that is pending, or a new host wait.
LEMMA EntryForType ==
    ASSUME NEW s \in SemRecord, NEW p \in Nat
    PROVE  /\ EntryFor(s, p) \in SemOp
           /\ EntryFor(s, p) \in Pending(s) \/ EntryFor(s, p) = NewOp("kWait", NoQueue, 0, p)
<1> DEFINE at == {i \in DOMAIN s.operations : s.operations[i].payload = p}
           m  == CHOOSE i \in at : \A j \in at : i <= j
<1>1. s.operations \in Seq(SemOp)
  BY DEF SemRecord
<1>2. DOMAIN s.operations = 1..Len(s.operations) /\ Len(s.operations) \in Nat
  BY <1>1, LenProperties
<1>3. CASE at = {}
  <2>1. EntryFor(s, p) = NewOp("kWait", NoQueue, 0, p)
    BY <1>3 DEF EntryFor
  <2>2. NewOp("kWait", NoQueue, 0, p) \in SemOp
    BY DEF NewOp, SemOp, OpType
  <2> QED BY <2>1, <2>2
<1>4. CASE at # {}
  <2>1. at \in SUBSET Nat
    BY <1>2
  <2>2. \E i \in at : \A j \in at : i <= j
    BY <1>4, <2>1, NatMin
  <2>3. m \in at
    BY <2>2
  <2>4. EntryFor(s, p) = s.operations[m]
    BY <1>4 DEF EntryFor
  <2>5. m \in 1..Len(s.operations) /\ m \in DOMAIN s.operations
    BY <1>2, <2>3
  <2>6. s.operations[m] \in SemOp
    BY <1>1, <2>5, ElementOfSeq
  <2> QED BY <2>4, <2>5, <2>6 DEF Pending
<1> QED BY <1>3, <1>4

\* SEMAPHORE_STATE: every method maps a semaphore record to a semaphore record.
LEMMA SemTypes ==
    ASSUME NEW s \in SemRecord, NEW bin \in BOOLEAN, NEW q \in Queue \cup {NoQueue},
           NEW n \in Nat, NEW p \in Nat, NEW b \in BOOLEAN
    PROVE  /\ OpPayload(s, bin, p) \in Nat
           /\ SemEnqueueSignal(s, bin, q, n, p) \in SemRecord
           /\ SemEnqueueWait(s, bin, q, n, p) \in SemRecord
           /\ SemEnqueueAcquire(s) \in SemRecord
           /\ SemWait(s, p) \in SemRecord
           /\ SemImport(s, b) \in SemRecord
           /\ SemExport(s, b) \in SemRecord
           /\ s.operations # << >> => /\ Head(s.operations) \in SemOp
                                      /\ RetireHead(s) \in SemRecord
<1>1. \A r \in SemRecord, op \in SemOp, x \in BOOLEAN : SemEnqueue(r, x, op) \in SemRecord
  <2> TAKE r \in SemRecord, op \in SemOp, x \in BOOLEAN
  <2>1. r.operations \in Seq(SemOp) /\ (IF x THEN r.next_payload + 1 ELSE r.next_payload) \in Nat
    BY DEF SemRecord
  <2>2. Emplace(r.operations, op) \in Seq(SemOp)
    BY <2>1, EmplaceType
  <2>3. \A k \in Nat, e \in Seq(SemOp) : [r EXCEPT !.next_payload = k, !.operations = e] \in SemRecord
    BY DEF SemRecord
  <2> QED BY <2>1, <2>2, <2>3 DEF SemEnqueue
<1>2. \A r \in SemRecord : OpPayload(r, bin, p) \in Nat
  BY DEF OpPayload, SemRecord
<1>3. \A t \in OpType, x \in Queue \cup {NoQueue}, k \in Nat, v \in Nat : NewOp(t, x, k, v) \in SemOp
  BY DEF NewOp, SemOp
<1>4. SemEnqueueSignal(s, bin, q, n, p) \in SemRecord
  BY <1>1, <1>2, <1>3 DEF SemEnqueueSignal, OpType
<1>5. SemEnqueueWait(s, bin, q, n, p) \in SemRecord
  <2> DEFINE r == [s EXCEPT !.scope = IF @ = "kSyncScopeExternalTemporary" THEN "kSyncScopeInternal" ELSE @]
  <2>1. r \in SemRecord
    BY DEF SemRecord, SyncScope
  <2>2. SemEnqueue(r, bin, NewOp("kWait", q, n, OpPayload(r, bin, p))) \in SemRecord
    BY <1>1, <1>2, <1>3, <2>1 DEF OpType
  <2> QED BY <2>1, <2>2 DEF SemEnqueueWait
<1>6. SemEnqueueAcquire(s) \in SemRecord
  <2>1. s.next_payload \in Nat
    BY DEF SemRecord
  <2> QED BY <1>1, <1>3, <2>1 DEF SemEnqueueAcquire, OpType
<1>7. SemWait(s, p) \in SemRecord
  BY EmplaceType, EntryForType DEF SemWait, SemRecord
<1>8. SemImport(s, b) \in SemRecord /\ SemExport(s, b) \in SemRecord
  BY DEF SemImport, SemExport, ImportScope, SemRecord, SyncScope
<1>9. ASSUME s.operations # << >> PROVE Head(s.operations) \in SemOp /\ RetireHead(s) \in SemRecord
  <2>1. Head(s.operations) \in SemOp /\ Tail(s.operations) \in Seq(SemOp)
    BY <1>9, HeadTailProperties DEF SemRecord
  <2> QED BY <2>1 DEF RetireHead, SemRecord
<1> QED BY <1>2, <1>4, <1>5, <1>6, <1>7, <1>8, <1>9

-----------------------------------------------------------------------------
(* Which operations are pending *)

\* Emplacing an operation adds at most that one.
LEMMA PendingEmplace ==
    ASSUME NEW s \in SemRecord, NEW t, NEW op \in SemOp, t.operations = Emplace(s.operations, op)
    PROVE  Pending(t) \subseteq Pending(s) \cup {op}
<1>1. s.operations \in Seq(SemOp)
  BY DEF SemRecord
<1>2. DOMAIN s.operations = 1..Len(s.operations) /\ Len(s.operations) \in Nat
  BY <1>1, LenProperties
<1>3. DOMAIN t.operations = 1..(Len(s.operations) + 1)
  <2>1. t.operations \in Seq(SemOp) /\ Len(t.operations) = Len(s.operations) + 1
    BY <1>1, EmplaceType
  <2> QED BY <2>1, LenProperties
<1>4. SUFFICES ASSUME NEW i \in DOMAIN t.operations
               PROVE  t.operations[i] = op \/ t.operations[i] \in Pending(s)
  BY DEF Pending
<1>5. t.operations[i] = op \/ \E j \in 1..Len(s.operations) : t.operations[i] = s.operations[j]
  <2>1. \A k \in 1..(Len(s.operations) + 1) :
           \/ Emplace(s.operations, op)[k] = op
           \/ \E j \in 1..Len(s.operations) : Emplace(s.operations, op)[k] = s.operations[j]
    BY <1>1, EmplaceType
  <2>2. i \in 1..(Len(s.operations) + 1)
    BY <1>3
  <2> QED BY <2>1, <2>2
<1> QED BY <1>2, <1>5 DEF Pending

\* No method leaves an operation pending that was not, but the one it enqueues.
LEMMA PendingTypes ==
    ASSUME NEW s \in SemRecord, NEW bin \in BOOLEAN, NEW q \in Queue \cup {NoQueue},
           NEW n \in Nat, NEW p \in Nat, NEW b \in BOOLEAN
    PROVE  /\ \E v \in Nat : Pending(SemEnqueueSignal(s, bin, q, n, p)) \subseteq Pending(s) \cup {NewOp("kSignal", q, n, v)}
           /\ \E v \in Nat : Pending(SemEnqueueWait(s, bin, q, n, p)) \subseteq Pending(s) \cup {NewOp("kWait", q, n, v)}
           /\ \E v \in Nat : Pending(SemEnqueueAcquire(s)) \subseteq Pending(s) \cup {NewOp("kBinaryAcquire", NoQueue, 0, v)}
           /\ Pending(SemWait(s, p)) \subseteq Pending(s) \cup {NewOp("kWait", NoQueue, 0, p)}
           /\ Pending(SemImport(s, b)) = Pending(s) /\ Pending(SemExport(s, b)) = Pending(s)
           /\ s.operations # << >> => Pending(RetireHead(s)) \subseteq Pending(s)
<1>1. ASSUME NEW r \in SemRecord, NEW op \in SemOp, NEW x \in BOOLEAN
      PROVE  Pending(SemEnqueue(r, x, op)) \subseteq Pending(r) \cup {op}
  <2>1. SemEnqueue(r, x, op).operations = Emplace(r.operations, op)
    BY DEF SemEnqueue, SemRecord
  <2> QED BY <2>1, PendingEmplace
<1>2. \A r \in SemRecord : OpPayload(r, bin, p) \in Nat
  BY DEF OpPayload, SemRecord
<1>3. \A t \in OpType, x \in Queue \cup {NoQueue}, k \in Nat, v \in Nat : NewOp(t, x, k, v) \in SemOp
  BY DEF NewOp, SemOp
<1>4. Pending(SemEnqueueSignal(s, bin, q, n, p)) \subseteq Pending(s) \cup {NewOp("kSignal", q, n, OpPayload(s, bin, p))}
  <2>1. NewOp("kSignal", q, n, OpPayload(s, bin, p)) \in SemOp
    BY <1>2, <1>3 DEF OpType
  <2> QED BY <1>1, <2>1 DEF SemEnqueueSignal
<1>5. \E v \in Nat : Pending(SemEnqueueWait(s, bin, q, n, p)) \subseteq Pending(s) \cup {NewOp("kWait", q, n, v)}
  <2> DEFINE r == [s EXCEPT !.scope = IF @ = "kSyncScopeExternalTemporary" THEN "kSyncScopeInternal" ELSE @]
             v == OpPayload(r, bin, p)
  <2>1. r \in SemRecord
    BY DEF SemRecord, SyncScope
  <2>2. Pending(r) = Pending(s)
    BY DEF Pending, SemRecord
  <2>3. v \in Nat /\ NewOp("kWait", q, n, v) \in SemOp
    BY <1>2, <1>3, <2>1 DEF OpType
  <2>4. Pending(SemEnqueue(r, bin, NewOp("kWait", q, n, v))) \subseteq Pending(s) \cup {NewOp("kWait", q, n, v)}
    BY <1>1, <2>1, <2>2, <2>3
  <2>5. SemEnqueueWait(s, bin, q, n, p) \in {r, SemEnqueue(r, bin, NewOp("kWait", q, n, v))}
    BY DEF SemEnqueueWait
  <2>6. Pending(SemEnqueueWait(s, bin, q, n, p)) \subseteq Pending(s) \cup {NewOp("kWait", q, n, v)}
    BY <2>2, <2>4, <2>5
  <2> QED BY <2>3, <2>6
<1>6. Pending(SemEnqueueAcquire(s)) \subseteq Pending(s) \cup {NewOp("kBinaryAcquire", NoQueue, 0, s.next_payload)} /\ s.next_payload \in Nat
  <2>1. s.next_payload \in Nat
    BY DEF SemRecord
  <2>2. PICK op \in SemOp : op = NewOp("kBinaryAcquire", NoQueue, 0, s.next_payload)
    BY <1>3, <2>1 DEF OpType
  <2>3. Pending(SemEnqueue(s, TRUE, op)) \subseteq Pending(s) \cup {op}
    BY <1>1
  <2>4. SemEnqueueAcquire(s) = SemEnqueue(s, TRUE, op)
    BY <2>2 DEF SemEnqueueAcquire
  <2> QED BY <2>1, <2>2, <2>3, <2>4
<1>7. Pending(SemWait(s, p)) \subseteq Pending(s) \cup {NewOp("kWait", NoQueue, 0, p)}
  <2>1. CASE EntryFor(s, p) \in Pending(s)
    BY <2>1 DEF SemWait
  <2>2. CASE EntryFor(s, p) \notin Pending(s)
    <3>1. SemWait(s, p).operations = Emplace(s.operations, EntryFor(s, p))
      BY <2>2 DEF SemWait, SemRecord
    <3>2. EntryFor(s, p) \in SemOp /\ EntryFor(s, p) = NewOp("kWait", NoQueue, 0, p)
      BY <2>2, EntryForType
    <3> QED BY <3>1, <3>2, PendingEmplace
  <2> QED BY <2>1, <2>2
<1>8. Pending(SemImport(s, b)) = Pending(s) /\ Pending(SemExport(s, b)) = Pending(s)
  BY DEF Pending, SemImport, SemExport, SemRecord
<1>9. ASSUME s.operations # << >> PROVE Pending(RetireHead(s)) \subseteq Pending(s)
  <2>1. s.operations \in Seq(SemOp) /\ RetireHead(s).operations = Tail(s.operations)
    BY DEF SemRecord, RetireHead
  <2>2. /\ Tail(s.operations) \in Seq(SemOp)
        /\ Len(Tail(s.operations)) = Len(s.operations) - 1
        /\ \A i \in 1..Len(Tail(s.operations)) : Tail(s.operations)[i] = s.operations[i + 1]
    BY <1>9, <2>1, HeadTailProperties
  <2>3. /\ DOMAIN Tail(s.operations) = 1..(Len(s.operations) - 1)
        /\ DOMAIN s.operations = 1..Len(s.operations) /\ Len(s.operations) \in Nat
    BY <2>1, <2>2, LenProperties
  <2>4. ASSUME NEW i \in 1..(Len(s.operations) - 1)
        PROVE  Tail(s.operations)[i] \in Pending(s)
    <3>1. i + 1 \in DOMAIN s.operations /\ Tail(s.operations)[i] = s.operations[i + 1]
      BY <2>2, <2>3
    <3> QED BY <3>1 DEF Pending
  <2> QED BY <2>1, <2>3, <2>4 DEF Pending
<1>10. OpPayload(s, bin, p) \in Nat
  BY <1>2
<1> QED BY <1>4, <1>5, <1>6, <1>7, <1>8, <1>9, <1>10

\* The signal of RetireTimeline() is an operation of no queue.
LEMMA PendingHostSignal ==
    ASSUME NEW s \in SemRecord, NEW p \in Nat
    PROVE  \E v \in Nat : Pending(SemEnqueueSignal(s, FALSE, NoQueue, 0, p))
                             \subseteq Pending(s) \cup {NewOp("kSignal", NoQueue, 0, v)}
<1>1. /\ NewOp("kSignal", NoQueue, 0, p) \in SemOp
      /\ SemEnqueueSignal(s, FALSE, NoQueue, 0, p).operations = Emplace(s.operations, NewOp("kSignal", NoQueue, 0, p))
  BY DEF SemEnqueueSignal, SemEnqueue, OpPayload, NewOp, SemOp, OpType, SemRecord
<1>2. PICK op \in SemOp : op = NewOp("kSignal", NoQueue, 0, p)
  BY <1>1
<1>3. PICK r : r = SemEnqueueSignal(s, FALSE, NoQueue, 0, p) /\ r.operations = Emplace(s.operations, op)
  BY <1>1, <1>2
<1>4. Pending(r) \subseteq Pending(s) \cup {op}
  BY <1>3, PendingEmplace
<1> QED BY <1>2, <1>3, <1>4

-----------------------------------------------------------------------------

USE DEF queueVars, threadVars, retireVars, hostVars, deviceVars

-----------------------------------------------------------------------------
(* Facts about the helpers of QueueState *)

\* The loops of BeginUse() and EndUse() count references with a natural number.
LEMMA ReferencesType ==
    ASSUME NEW sub \in CB_SUBMISSION, NEW o
    PROVE  References(sub, o) \in Nat
<1> DEFINE At(ws) == {i \in DOMAIN ws : ws[i].semaphore = o}
<1>1. \A ws \in Seq(SemInfo) : Cardinality(At(ws)) \in Nat
  <2> TAKE ws \in Seq(SemInfo)
  <2>1. DOMAIN ws = 1..Len(ws) /\ Len(ws) \in Nat
    BY LenProperties
  <2>2. IsFiniteSet(1..Len(ws)) /\ At(ws) \in SUBSET (1..Len(ws))
    BY <2>1, FS_Interval
  <2> QED BY <2>2, FS_Subset, FS_CardinalityType
<1>2. sub.wait_semaphores \in Seq(SemInfo) /\ sub.signal_semaphores \in Seq(SemInfo)
  BY DEF CB_SUBMISSION
<1>3. Cardinality(At(sub.wait_semaphores)) \in Nat /\ Cardinality(At(sub.signal_semaphores)) \in Nat
  BY <1>1, <1>2
<1> QED BY <1>3 DEF References

\* The largest of a bounded, nonempty set of sequence numbers exists.
LEMMA MaxOfBounded ==
    ASSUME NEW S \in SUBSET Nat, S # {}, NEW b \in Nat, \A n \in S : n <= b
    PROVE  MaxOf(S) \in S /\ \A m \in S : m <= MaxOf(S)
<1> DEFINE U == {u \in Nat : \A n \in S : n <= u}
<1>1. b \in U
  OBVIOUS
<1>2. PICK u \in U : \A v \in U : u <= v
  BY <1>1, NatMin
<1>3. u \in S
  <2> SUFFICES ASSUME u \notin S PROVE FALSE
    OBVIOUS
  <2>1. \A n \in S : n < u
    BY <1>2
  <2>2. u > 0 /\ u - 1 \in Nat
    <3>1. PICK n \in S : n \in Nat /\ n < u
      BY <2>1
    <3> QED BY <1>2, <3>1
  <2>3. u - 1 \in U
    BY <2>1, <2>2
  <2> QED BY <1>2, <2>2, <2>3
<1> QED BY <1>2, <1>3 DEF MaxOf

\* Notify() writes a sequence number and wakes the thread.
LEMMA NotifyType ==
    ASSUME TypeOK, NEW q \in Queue, NEW n \in Nat, Notify(q, n)
    PROVE  request_seq_' \in [Queue -> Nat] /\ tpc' \in [Queue -> ThreadPc]
<1>1. request_seq_' \in [Queue -> Nat]
  BY DEF TypeOK, Notify, Max2
<1>2. tpc' \in [Queue -> ThreadPc]
  BY DEF TypeOK, Notify, Woken, ThreadPc
<1> QED BY <1>1, <1>2

\* More batches are left to submit.
LEMMA TailNonempty ==
    ASSUME NEW S, NEW s \in Seq(S), Len(s) > 1
    PROVE  Tail(s) # << >>
<1>1. Len(s) \in Nat /\ s # << >>
  BY EmptySeq, LenProperties
<1>2. Len(Tail(s)) = Len(s) - 1
  BY <1>1, HeadTailProperties
<1>3. Len(Tail(s)) # 0
  BY <1>1, <1>2
<1>4. Len(<< >>) = 0
  BY EmptySeq
<1> QED BY <1>3, <1>4

\* "All submissions" is a sequence number of the model.
LEMMA AllSeqType == AllSeq \in Nat
BY QueueStateAssumption DEF AllSeq

\* A call starts and ends with empty arguments.
LEMMA NoCallType == NoCall \in Call
BY EmptySeq DEF NoCall, Call, EmptySubmission, CB_SUBMISSION

\* The numbering of the operations of a batch keeps their types.
LEMMA NumberedSeqType ==
    ASSUME NEW ws \in Seq(SemInfo), app_sem \in [Sem -> Nat]
    PROVE  NumberedSeq(ws) \in Seq(SemInfo)
<1>1. DOMAIN ws = 1..Len(ws) /\ Len(ws) \in Nat /\ \A i \in 1..Len(ws) : ws[i] \in SemInfo
  BY LenProperties, ElementOfSeq
<1>2. \A w \in SemInfo : Numbered(w) \in SemInfo
  BY DEF Numbered, SemInfo, Sem
<1>3. NumberedSeq(ws) \in [1..Len(ws) -> SemInfo]
  BY <1>1, <1>2 DEF NumberedSeq
<1> QED BY <1>1, <1>3, SeqDef

(* Every action preserves the types: the queue thread *)

LEMMA TypeThreadSleep ==
    ASSUME TypeOK, NEW q \in Queue, ThreadSleep(q)
    PROVE  TypeOK'
BY DEF TypeOK, ThreadSleep, ThreadPc

LEMMA TypeThreadPop ==
    ASSUME TypeOK, NEW q \in Queue, ThreadPop(q)
    PROVE  TypeOK'
<1>1. submissions_[q] \in Seq(CB_SUBMISSION) /\ submissions_[q] # << >>
  BY DEF TypeOK, ThreadPop, NothingToRetire
<1>2. Head(submissions_[q]) \in CB_SUBMISSION /\ Tail(submissions_[q]) \in Seq(CB_SUBMISSION)
  BY <1>1, HeadTailProperties
<1> QED
  BY <1>2 DEF TypeOK, ThreadPop, ThreadPc

LEMMA TypeThreadExit ==
    ASSUME TypeOK, NEW q \in Queue, ThreadExit(q)
    PROVE  TypeOK'
BY DEF TypeOK, ThreadExit, ThreadPc

LEMMA TypeThreadEndUse ==
    ASSUME TypeOK, NEW q \in Queue, ThreadEndUse(q)
    PROVE  TypeOK'
<1>1. \A o \in Object : in_use[o] - References(tcur[q], o) \in Int
  BY ReferencesType DEF TypeOK
<1> QED
  BY <1>1 DEF TypeOK, ThreadEndUse, ThreadPc, EndUse

LEMMA TypeThreadRetireSemaphore ==
    ASSUME TypeOK, NEW q \in Queue, ThreadRetireSemaphore(q)
    PROVE  TypeOK'
<1> DEFINE w == LoopSemaphores(q)[tidx[q] + 1]
<1>1. LoopSemaphores(q) \in Seq(SemInfo) /\ tidx[q] + 1 \in 1..Len(LoopSemaphores(q))
  <2>1. LoopSemaphores(q) \in Seq(SemInfo)
    BY DEF TypeOK, LoopSemaphores, CB_SUBMISSION
  <2> QED BY <2>1, LenProperties DEF TypeOK, ThreadRetireSemaphore
<1>2. w \in SemInfo
  BY <1>1, ElementOfSeq
<1>3. [semaphore |-> w.semaphore, payload |-> w.payload, entry |-> NoEntry] \in Frame
  BY <1>2 DEF SemInfo, Frame, NoEntry, NewOp, SemOp, OpType
<1> QED
  BY <1>3, QueueStateAssumption DEF TypeOK, ThreadRetireSemaphore, RetirePc, Actor

LEMMA TypeThreadLoopDone ==
    ASSUME TypeOK, NEW q \in Queue, ThreadLoopDone(q)
    PROVE  TypeOK'
BY DEF TypeOK, ThreadLoopDone, ThreadPc

LEMMA TypeThreadRetireCbs ==
    ASSUME TypeOK, NEW q \in Queue, ThreadRetireCbs(q)
    PROVE  TypeOK'
<1>1. cb_pending' \in [Cb -> Int]
  BY DEF TypeOK, ThreadRetireCbs
<1> QED
  BY <1>1 DEF TypeOK, ThreadRetireCbs, ThreadPc

LEMMA TypeThreadRetireFence ==
    ASSUME TypeOK, NEW q \in Queue, ThreadRetireFence(q)
    PROVE  TypeOK'
BY FenceTypes DEF TypeOK, ThreadRetireFence, ThreadPc, CB_SUBMISSION

LEMMA TypeThreadComplete ==
    ASSUME TypeOK, NEW q \in Queue, ThreadComplete(q)
    PROVE  TypeOK'
BY DEF TypeOK, ThreadComplete, ThreadPc, CB_SUBMISSION

(* ... SEMAPHORE_STATE::Retire(), by a queue thread or a host thread *)

LEMMA TypeRetireAtOnce ==
    ASSUME TypeOK, NEW a \in Actor, RetireAtOnce(a)
    PROVE  TypeOK'
<1> DEFINE s == frame[a].semaphore
           op == Head(sem[s].operations)
<1>1. frame[a] \in Frame /\ s \in Sem
  BY DEF TypeOK, RetireAtOnce, Frame
<1>2. sem[s] \in SemRecord /\ sem[s].operations # << >>
  BY <1>1 DEF TypeOK, RetireAtOnce, RetireCovers
<1>3. op \in SemOp /\ RetireHead(sem[s]) \in SemRecord
  BY <1>2, SemTypes
<1>4. op.queue \in Queue \cup {NoQueue} /\ op.seq \in Nat
  BY <1>3 DEF SemOp
<1>5. request_seq_' \in [Queue -> Nat] /\ tpc' \in [Queue -> ThreadPc]
  <2>1. CASE op.queue = NoQueue
    BY <2>1 DEF TypeOK, RetireAtOnce
  <2>2. CASE op.queue # NoQueue
    BY <1>4, <2>2, NotifyType DEF RetireAtOnce
  <2> QED BY <2>1, <2>2
<1>6. sem' \in [Sem -> SemRecord]
  BY <1>1, <1>3 DEF TypeOK, RetireAtOnce
<1> QED
  BY <1>5, <1>6 DEF TypeOK, RetireAtOnce

LEMMA TypeRetireWaitOther ==
    ASSUME TypeOK, NEW a \in Actor, RetireWaitOther(a)
    PROVE  TypeOK'
<1> DEFINE s == frame[a].semaphore
           op == Head(sem[s].operations)
<1>1. frame[a] \in Frame /\ s \in Sem
  BY DEF TypeOK, RetireWaitOther, Frame
<1>2. sem[s] \in SemRecord /\ sem[s].operations # << >>
  BY <1>1 DEF TypeOK, RetireWaitOther, RetireCovers
<1>3. op \in SemOp
  BY <1>2, SemTypes
<1>4. op.queue \in Queue /\ op.seq \in Nat
  BY <1>3 DEF SemOp, RetireWaitOther, RetiresAtOnce
<1>5. [frame[a] EXCEPT !.entry = op] \in Frame
  BY <1>1, <1>3 DEF Frame
<1>6. request_seq_' \in [Queue -> Nat] /\ tpc' \in [Queue -> ThreadPc]
  BY <1>4, NotifyType DEF RetireWaitOther
<1>7. frame' = [frame EXCEPT ![a] = [frame[a] EXCEPT !.entry = op]]
  BY DEF RetireWaitOther
<1>8. frame' \in [Actor -> Frame \cup {NoFrame}] /\ \A x \in Actor : x # a => frame'[x] = frame[x]
  BY <1>5, <1>7 DEF TypeOK
<1>9. frame'[a] \in Frame
  BY <1>5, <1>7 DEF TypeOK
<1>10. rpc' \in [Actor -> RetirePc] /\ \A x \in Actor : x # a => rpc'[x] = rpc[x]
  BY DEF TypeOK, RetireWaitOther, RetirePc
<1>11. sem_lock' \in [Sem -> Actor \cup {NoActor}]
  BY <1>1 DEF TypeOK, RetireWaitOther
<1>12. \A h \in Host : hpc[h] \in SemaphorePc => frame'[h] \in Frame
  BY <1>8, <1>9 DEF TypeOK, Actor
<1> QED
  BY <1>6, <1>8, <1>9, <1>10, <1>11, <1>12 DEF TypeOK, RetireWaitOther

LEMMA TypeRetireResume ==
    ASSUME TypeOK, NEW a \in Actor, RetireResume(a)
    PROVE  TypeOK'
<1>1. rpc' \in [Actor -> RetirePc]
  BY DEF TypeOK, RetireResume, RetirePc
<1>2. sem_lock' \in [Sem -> Actor \cup {NoActor}]
  BY DEF TypeOK, RetireResume
<1>3. \A x \in Actor : rpc'[x] # "idle" => frame'[x] \in Frame
  BY DEF TypeOK, RetireResume
<1> QED BY <1>1, <1>2, <1>3 DEF TypeOK, RetireResume

LEMMA TypeRetireEnd ==
    ASSUME TypeOK, NEW a \in Actor, RetireEnd(a)
    PROVE  TypeOK'
<1>1. frame[a] \in Frame /\ frame[a].semaphore \in Sem /\ frame[a].payload \in Nat
  BY DEF TypeOK, RetireEnd, Frame
<1>2. a \notin Queue => a \in Host
  BY DEF Actor
<1>3. tidx' \in [Queue -> Nat] /\ app_seen' \in [Sem -> Nat]
  <2>1. CASE a \in Queue
    <3>1. tidx' = [tidx EXCEPT ![a] = @ + 1] /\ app_seen' = app_seen
      BY <2>1 DEF RetireEnd
    <3> QED BY <2>1, <3>1 DEF TypeOK
  <2>2. CASE a \notin Queue
    <3>1. tidx' = tidx /\ app_seen' = [app_seen EXCEPT ![frame[a].semaphore] = Max2(@, frame[a].payload)]
      BY <2>2 DEF RetireEnd, Seen
    <3> QED BY <1>1, <3>1 DEF TypeOK, Max2
  <2> QED BY <2>1, <2>2
<1>4. hpc' \in [Host -> HostPc] /\ call' \in [Host -> Call]
  BY <1>2, NoCallType DEF TypeOK, RetireEnd, Return, HostPc
<1>5. \A h \in Host : hpc'[h] = "idle" \/ (hpc'[h] = hpc[h] /\ call'[h] = call[h])
  BY <1>2 DEF TypeOK, RetireEnd, Return
<1>6. rpc' \in [Actor -> RetirePc] /\ sem_lock' \in [Sem -> Actor \cup {NoActor}]
  BY <1>1 DEF TypeOK, RetireEnd, RetirePc
<1>7. \A x \in Actor : rpc'[x] # "idle" => frame'[x] \in Frame
  BY DEF TypeOK, RetireEnd
<1> QED
  BY <1>3, <1>4, <1>5, <1>6, <1>7 DEF TypeOK, RetireEnd, SemaphorePc, SubmitPc, QueuePc, IdlePc

(* ... the host threads *)

\* The conjuncts of TypeOK about hpc and call.
HostTypeOK ==
    /\ hpc  \in [Host -> HostPc]
    /\ call \in [Host -> Call]
    /\ \A h \in Host : hpc[h] \in SemaphorePc => frame[h] \in Frame
    /\ \A h \in Host : hpc[h] \in QueuePc => call[h].queue \in Queue
    /\ \A h \in Host : hpc[h] \in SubmitPc => call[h].batches # << >>
    /\ \A h \in Host : hpc[h] = "fblock" => call[h].fence \in Fence

\* A host thread moves to pc with arguments c.
LEMMA HostMoves ==
    ASSUME TypeOK, NEW h \in Host, NEW pc \in HostPc, NEW c \in Call,
           hpc' = [hpc EXCEPT ![h] = pc], call' = [call EXCEPT ![h] = c], frame' = frame,
           pc \notin SemaphorePc,
           pc \in QueuePc => c.queue \in Queue,
           pc \in SubmitPc => c.batches # << >>,
           pc = "fblock" => c.fence \in Fence
    PROVE  HostTypeOK'
<1>1. \A g \in Host : g # h => hpc'[g] = hpc[g] /\ call'[g] = call[g]
  BY DEF TypeOK
<1>2. hpc'[h] = pc /\ call'[h] = c
  BY DEF TypeOK
<1>3. hpc' \in [Host -> HostPc] /\ call' \in [Host -> Call]
  BY DEF TypeOK
<1> QED BY <1>1, <1>2, <1>3 DEF TypeOK, HostTypeOK

\* The call returns.
LEMMA HostReturns ==
    ASSUME TypeOK, NEW h \in Host, Return(h), frame' = frame
    PROVE  HostTypeOK'
BY HostMoves, NoCallType DEF Return, HostPc, SemaphorePc, QueuePc, SubmitPc, IdlePc

LEMMA TypeQueueSubmit ==
    ASSUME TypeOK, NEW h \in Host, NEW q \in Queue, NEW bs \in Calls[q], QueueSubmit(h, q, bs)
    PROVE  TypeOK'
<1> DEFINE c == [NoCall EXCEPT !.queue = q, !.batches = bs]
<1>1. bs \in Seq(CB_SUBMISSION) /\ bs # << >>
  BY QueueStateAssumption
<1>2. c \in Call /\ c.queue = q /\ c.batches = bs
  BY <1>1, NoCallType DEF Call, NoCall
<1>3. HostTypeOK'
  BY <1>1, <1>2, HostMoves DEF QueueSubmit, HostPc, SemaphorePc, QueuePc, SubmitPc, IdlePc
<1> QED
  BY <1>3 DEF TypeOK, QueueSubmit, HostTypeOK

LEMMA TypeQueueWaitIdle ==
    ASSUME TypeOK, NEW h \in Host, NEW q \in Queue, QueueWaitIdle(h, q)
    PROVE  TypeOK'
<1> DEFINE c == [NoCall EXCEPT !.queue = q, !.until = AllSeq]
<1>1. c \in Call /\ c.queue = q
  BY NoCallType, AllSeqType DEF Call, NoCall
<1>2. HostTypeOK'
  BY <1>1, HostMoves DEF QueueWaitIdle, HostPc, SemaphorePc, QueuePc, SubmitPc, IdlePc
<1> QED
  BY <1>2 DEF TypeOK, QueueWaitIdle, HostTypeOK

LEMMA TypeDeviceWaitIdle ==
    ASSUME TypeOK, NEW h \in Host, NEW first \in Queue, DeviceWaitIdle(h, first)
    PROVE  TypeOK'
<1> DEFINE c == [NoCall EXCEPT !.queue = first, !.todo = Queue \ {first}, !.until = AllSeq]
<1>1. c \in Call /\ c.queue = first
  BY NoCallType, AllSeqType DEF Call, NoCall
<1>2. HostTypeOK'
  BY <1>1, HostMoves DEF DeviceWaitIdle, HostPc, SemaphorePc, QueuePc, SubmitPc, IdlePc
<1> QED
  BY <1>2 DEF TypeOK, DeviceWaitIdle, HostTypeOK

LEMMA TypeDestroyDevice ==
    ASSUME TypeOK, NEW h \in Host, NEW first \in Queue, DestroyDevice(h, first)
    PROVE  TypeOK'
<1> DEFINE c == [NoCall EXCEPT !.queue = first, !.todo = Queue \ {first}]
<1>1. c \in Call /\ c.queue = first
  BY NoCallType, AllSeqType DEF Call, NoCall
<1>2. HostTypeOK'
  BY <1>1, HostMoves DEF DestroyDevice, HostPc, SemaphorePc, QueuePc, SubmitPc, IdlePc
<1> QED
  BY <1>2 DEF TypeOK, DestroyDevice, HostTypeOK

LEMMA TypeSubmitCbs ==
    ASSUME TypeOK, NEW h \in Host, SubmitCbs(h)
    PROVE  TypeOK'
<1> DEFINE b == call[h].batches[1]
           c == [call[h] EXCEPT !.sub = b]
<1>1. call[h] \in Call /\ call[h].batches \in Seq(CB_SUBMISSION) /\ call[h].batches # << >>
  BY DEF TypeOK, SubmitCbs, SubmitPc, Call
<1>2. b \in CB_SUBMISSION
  BY <1>1, EmptySeq, LenProperties
<1>3. c \in Call /\ c.queue = call[h].queue /\ c.batches = call[h].batches
  BY <1>1, <1>2 DEF Call
<1>4. call' = [call EXCEPT ![h] = c] /\ call[h].queue \in Queue
  BY DEF SubmitCbs, TypeOK, QueuePc, SubmitPc
<1>5. HostTypeOK'
  BY <1>1, <1>3, <1>4, HostMoves DEF SubmitCbs, HostPc, SemaphorePc, QueuePc, SubmitPc, IdlePc
<1>6. cb_pending' \in [Cb -> Int]
  BY DEF TypeOK, SubmitCbs
<1> QED
  BY <1>5, <1>6 DEF TypeOK, SubmitCbs, HostTypeOK

LEMMA TypeSubmitSeq ==
    ASSUME TypeOK, NEW h \in Host, SubmitSeq(h)
    PROVE  TypeOK'
<1> DEFINE q == call[h].queue
           c == [call[h] EXCEPT !.sub.seq = seq_[q] + 1, !.idx = 1]
<1>1. call[h] \in Call /\ q \in Queue /\ call[h].batches # << >>
  BY DEF TypeOK, SubmitSeq, SubmitPc, QueuePc
<1>2. seq_[q] + 1 \in Nat /\ call[h].sub \in CB_SUBMISSION
  BY <1>1 DEF TypeOK, Call
<1>3. [call[h].sub EXCEPT !.seq = seq_[q] + 1] \in CB_SUBMISSION
  BY <1>2 DEF CB_SUBMISSION
<1>4. c = [call[h] EXCEPT !.sub = [call[h].sub EXCEPT !.seq = seq_[q] + 1], !.idx = 1]
  BY <1>1 DEF Call
<1>5. c \in Call /\ c.queue = q /\ c.batches = call[h].batches
  BY <1>1, <1>3, <1>4 DEF Call
<1>6. call' = [call EXCEPT ![h] = c]
  BY DEF SubmitSeq, TypeOK
<1>7. HostTypeOK'
  BY <1>1, <1>5, <1>6, HostMoves DEF SubmitSeq, HostPc, SemaphorePc, QueuePc, SubmitPc, IdlePc
<1>8. in_use' \in [Object -> Int]
  BY <1>2, ReferencesType DEF TypeOK, SubmitSeq, BeginUse
<1>9. seq_' \in [Queue -> Nat]
  BY <1>1, <1>2 DEF TypeOK, SubmitSeq
<1> QED
  BY <1>7, <1>8, <1>9 DEF TypeOK, SubmitSeq, HostTypeOK

\* EnqueueWait() and EnqueueSignal() of queue submission write the payload into the operation the call is at.
WaitAt(h) == call[h].idx
WaitPays(h) ==
    LET w == call[h].sub.wait_semaphores[WaitAt(h)]
    IN  OpPayload(sem[w.semaphore], w.semaphore \in BinarySem, w.payload)
WaitAssigned(f, h, i, p) == [f EXCEPT ![h].idx = @ + 1, ![h].sub.wait_semaphores[i].payload = p]
WaitWritten(f, h, i, p) ==
    [f EXCEPT ![h] =
        [f[h] EXCEPT !.idx = f[h].idx + 1,
                     !.sub = [f[h].sub EXCEPT !.wait_semaphores =
                         [f[h].sub.wait_semaphores EXCEPT ![i] = [f[h].sub.wait_semaphores[i] EXCEPT !.payload = p]]]]]

LEMMA WaitExpands ==
    ASSUME NEW f \in [Host -> Call], NEW h \in Host, NEW i, NEW p
    PROVE  WaitAssigned(f, h, i, p) = WaitWritten(f, h, i, p)
BY DEF WaitAssigned, WaitWritten

LEMMA SubmitWaitWrites ==
    ASSUME TypeOK, NEW h \in Host, SubmitWait(h)
    PROVE  call' = WaitWritten(call, h, WaitAt(h), WaitPays(h))
<1>1. call \in [Host -> Call]
  BY DEF TypeOK
<1>2. call' = WaitAssigned(call, h, WaitAt(h), WaitPays(h))
  BY DEF SubmitWait, WaitAssigned, WaitAt, WaitPays
<1>3. WaitAssigned(call, h, WaitAt(h), WaitPays(h)) = WaitWritten(call, h, WaitAt(h), WaitPays(h))
  BY <1>1, WaitExpands
<1> QED BY <1>2, <1>3

SignalAt(h) == call[h].idx - Len(call[h].sub.wait_semaphores)
SignalPays(h) ==
    LET w == call[h].sub.signal_semaphores[SignalAt(h)]
    IN  OpPayload(sem[w.semaphore], w.semaphore \in BinarySem, w.payload)
SignalAssigned(f, h, i, p) == [f EXCEPT ![h].idx = @ + 1, ![h].sub.signal_semaphores[i].payload = p]
SignalWritten(f, h, i, p) ==
    [f EXCEPT ![h] =
        [f[h] EXCEPT !.idx = f[h].idx + 1,
                     !.sub = [f[h].sub EXCEPT !.signal_semaphores =
                         [f[h].sub.signal_semaphores EXCEPT ![i] = [f[h].sub.signal_semaphores[i] EXCEPT !.payload = p]]]]]

LEMMA SignalExpands ==
    ASSUME NEW f \in [Host -> Call], NEW h \in Host, NEW i, NEW p
    PROVE  SignalAssigned(f, h, i, p) = SignalWritten(f, h, i, p)
BY DEF SignalAssigned, SignalWritten

LEMMA SubmitSignalWrites ==
    ASSUME TypeOK, NEW h \in Host, SubmitSignal(h)
    PROVE  call' = SignalWritten(call, h, SignalAt(h), SignalPays(h))
<1>1. call \in [Host -> Call]
  BY DEF TypeOK
<1>2. call' = SignalAssigned(call, h, SignalAt(h), SignalPays(h))
  BY DEF SubmitSignal, SignalAssigned, SignalAt, SignalPays
<1>3. SignalAssigned(call, h, SignalAt(h), SignalPays(h)) = SignalWritten(call, h, SignalAt(h), SignalPays(h))
  BY <1>1, SignalExpands
<1> QED BY <1>2, <1>3

LEMMA TypeSubmitWait ==
    ASSUME TypeOK, NEW h \in Host, SubmitWait(h)
    PROVE  TypeOK'
<1> DEFINE i == call[h].idx
           sub == call[h].sub
           w == sub.wait_semaphores[i]
           s == w.semaphore
           pay == OpPayload(sem[s], s \in BinarySem, w.payload)
           w2 == [w EXCEPT !.payload = pay]
           sub2 == [sub EXCEPT !.wait_semaphores = [sub.wait_semaphores EXCEPT ![i] = w2]]
           c == [call[h] EXCEPT !.idx = call[h].idx + 1, !.sub = sub2]
<1>1. call[h] \in Call /\ call[h].queue \in Queue /\ call[h].batches # << >>
  BY DEF TypeOK, SubmitWait, SubmitPc, QueuePc
<1>2. sub \in CB_SUBMISSION /\ sub.seq \in Nat /\ call[h].idx + 1 \in Nat
  <2>1. sub \in CB_SUBMISSION /\ call[h].idx \in Nat
    BY <1>1 DEF Call
  <2> QED BY <2>1 DEF CB_SUBMISSION
<1>3. sub.wait_semaphores \in Seq(SemInfo) /\ i \in 1..Len(sub.wait_semaphores)
  BY <1>1, <1>2, LenProperties DEF Call, CB_SUBMISSION, SubmitWait
<1>4. w \in SemInfo
  BY <1>3, ElementOfSeq
<1>5. s \in Sem /\ w.payload \in Nat /\ sem[s] \in SemRecord
  BY <1>4 DEF SemInfo, TypeOK
<1>6. pay \in Nat /\ SemEnqueueWait(sem[s], s \in BinarySem, call[h].queue, sub.seq, w.payload) \in SemRecord
  <2>1. \A bin \in BOOLEAN : /\ OpPayload(sem[s], bin, w.payload) \in Nat
                            /\ SemEnqueueWait(sem[s], bin, call[h].queue, sub.seq, w.payload) \in SemRecord
    BY <1>1, <1>2, <1>5, SemTypes
  <2>2. (s \in BinarySem) \in BOOLEAN
    OBVIOUS
  <2> QED BY <2>1, <2>2, Zenon
<1>7. [sub.wait_semaphores EXCEPT ![i] = w2] \in Seq(SemInfo)
  <2>1. w2 \in SemInfo
    BY <1>4, <1>6 DEF SemInfo
  <2> QED BY <1>3, <2>1, ExceptSeq
<1>8. sub2 \in CB_SUBMISSION
  BY <1>2, <1>7 DEF CB_SUBMISSION
<1>9. c \in Call /\ c.queue = call[h].queue /\ c.batches = call[h].batches
  BY <1>1, <1>2, <1>8 DEF Call
<1>10. call' = [call EXCEPT ![h] = c]
  <2>1. call' = WaitWritten(call, h, WaitAt(h), WaitPays(h))
    BY SubmitWaitWrites
  <2> QED BY <2>1 DEF WaitWritten, WaitAt, WaitPays
<1>11. HostTypeOK'
  <2>1. hpc' = [hpc EXCEPT ![h] = "enqueue"]
    BY DEF SubmitWait, TypeOK
  <2>2. "enqueue" \in HostPc /\ "enqueue" \notin SemaphorePc /\ "enqueue" # "fblock"
    BY DEF HostPc, SemaphorePc, QueuePc, SubmitPc, IdlePc
  <2>3. frame' = frame
    BY DEF SubmitWait
  <2>4. PICK d \in Call : d = c /\ d.queue \in Queue /\ d.batches # << >>
    BY <1>1, <1>9
  <2>5. call' = [call EXCEPT ![h] = d]
    BY <1>10, <2>4
  <2> QED BY <2>1, <2>2, <2>3, <2>4, <2>5, HostMoves
<1>12. sem' \in [Sem -> SemRecord]
  BY <1>5, <1>6 DEF TypeOK, SubmitWait
<1> QED
  BY <1>11, <1>12 DEF TypeOK, SubmitWait, HostTypeOK

LEMMA TypeSubmitSignal ==
    ASSUME TypeOK, NEW h \in Host, SubmitSignal(h)
    PROVE  TypeOK'
<1> DEFINE i == call[h].idx - Len(call[h].sub.wait_semaphores)
           sub == call[h].sub
           w == sub.signal_semaphores[i]
           s == w.semaphore
           pay == OpPayload(sem[s], s \in BinarySem, w.payload)
           w2 == [w EXCEPT !.payload = pay]
           sub2 == [sub EXCEPT !.signal_semaphores = [sub.signal_semaphores EXCEPT ![i] = w2]]
           c == [call[h] EXCEPT !.idx = call[h].idx + 1, !.sub = sub2]
<1>1. call[h] \in Call /\ call[h].queue \in Queue /\ call[h].batches # << >>
  BY DEF TypeOK, SubmitSignal, SubmitPc, QueuePc
<1>2. sub \in CB_SUBMISSION /\ sub.seq \in Nat /\ call[h].idx + 1 \in Nat
  <2>1. sub \in CB_SUBMISSION /\ call[h].idx \in Nat
    BY <1>1 DEF Call
  <2> QED BY <2>1 DEF CB_SUBMISSION
<1>3. sub.signal_semaphores \in Seq(SemInfo) /\ i \in 1..Len(sub.signal_semaphores)
  BY <1>1, <1>2, LenProperties DEF Call, CB_SUBMISSION, SubmitSignal
<1>4. w \in SemInfo
  BY <1>3, ElementOfSeq
<1>5. s \in Sem /\ w.payload \in Nat /\ sem[s] \in SemRecord
  BY <1>4 DEF SemInfo, TypeOK
<1>6. pay \in Nat /\ SemEnqueueSignal(sem[s], s \in BinarySem, call[h].queue, sub.seq, w.payload) \in SemRecord
  <2>1. \A bin \in BOOLEAN : /\ OpPayload(sem[s], bin, w.payload) \in Nat
                            /\ SemEnqueueSignal(sem[s], bin, call[h].queue, sub.seq, w.payload) \in SemRecord
    BY <1>1, <1>2, <1>5, SemTypes
  <2>2. (s \in BinarySem) \in BOOLEAN
    OBVIOUS
  <2> QED BY <2>1, <2>2, Zenon
<1>7. [sub.signal_semaphores EXCEPT ![i] = w2] \in Seq(SemInfo)
  <2>1. w2 \in SemInfo
    BY <1>4, <1>6 DEF SemInfo
  <2> HIDE DEF w2, i, sub
  <2> QED BY <1>3, <2>1, ExceptSeq
<1>8. sub2 \in CB_SUBMISSION
  BY <1>2, <1>7 DEF CB_SUBMISSION
<1>9. c \in Call /\ c.queue = call[h].queue /\ c.batches = call[h].batches
  BY <1>1, <1>2, <1>8 DEF Call
<1>10. call' = [call EXCEPT ![h] = c]
  <2>1. call' = SignalWritten(call, h, SignalAt(h), SignalPays(h))
    BY SubmitSignalWrites
  <2> QED BY <2>1 DEF SignalWritten, SignalAt, SignalPays
<1>11. HostTypeOK'
  <2>1. hpc' = [hpc EXCEPT ![h] = "enqueue"]
    BY DEF SubmitSignal, TypeOK
  <2>2. "enqueue" \in HostPc /\ "enqueue" \notin SemaphorePc /\ "enqueue" # "fblock"
    BY DEF HostPc, SemaphorePc, QueuePc, SubmitPc, IdlePc
  <2>3. frame' = frame
    BY DEF SubmitSignal
  <2>4. PICK d \in Call : d = c /\ d.queue \in Queue /\ d.batches # << >>
    BY <1>1, <1>9
  <2>5. call' = [call EXCEPT ![h] = d]
    BY <1>10, <2>4
  <2> QED BY <2>1, <2>2, <2>3, <2>4, <2>5, HostMoves
<1>12. sem' \in [Sem -> SemRecord]
  BY <1>5, <1>6 DEF TypeOK, SubmitSignal
<1> QED
  BY <1>11, <1>12 DEF TypeOK, SubmitSignal, HostTypeOK

LEMMA TypeSubmitFence ==
    ASSUME TypeOK, NEW h \in Host, SubmitFence(h)
    PROVE  TypeOK'
<1> DEFINE f == call[h].sub.fence
           c == [call[h] EXCEPT !.early = IF FenceRetiresEarly(fence[f]) THEN call[h].sub.seq ELSE call[h].early]
<1>1. call[h] \in Call /\ call[h].queue \in Queue /\ call[h].batches # << >>
  BY DEF TypeOK, SubmitFence, SubmitPc, QueuePc
<1>2. call[h].sub \in CB_SUBMISSION /\ call[h].early \in Nat
  BY <1>1 DEF Call
<1>3. f \in Fence \cup {NoFence} /\ call[h].sub.seq \in Nat
  BY <1>2 DEF CB_SUBMISSION
<1>4. c \in Call /\ c.queue = call[h].queue /\ c.batches = call[h].batches
  BY <1>1, <1>2, <1>3 DEF Call
<1>5. call' = [call EXCEPT ![h] = call[h]] \/ call' = [call EXCEPT ![h] = c]
  BY DEF SubmitFence, TypeOK
<1>6. HostTypeOK'
  BY <1>1, <1>4, <1>5, HostMoves DEF SubmitFence, HostPc, SemaphorePc, QueuePc, SubmitPc, IdlePc
<1>7. fence' \in [Fence -> FenceRecord]
  <2>1. CASE f = NoFence
    BY <2>1 DEF SubmitFence, TypeOK
  <2>2. CASE f # NoFence
    <3>1. f \in Fence /\ fence[f] \in FenceRecord
      BY <1>3, <2>2 DEF TypeOK
    <3>2. FenceEnqueueSignal(fence[f], call[h].queue, call[h].sub.seq) \in FenceRecord
      BY <1>1, <1>3, <3>1, FenceTypes
    <3> QED BY <2>2, <3>1, <3>2 DEF SubmitFence, TypeOK
  <2> QED BY <2>1, <2>2
<1> QED
  BY <1>6, <1>7 DEF TypeOK, SubmitFence, HostTypeOK

LEMMA TypeSubmitPush ==
    ASSUME TypeOK, NEW h \in Host, SubmitPush(h)
    PROVE  TypeOK'
<1> DEFINE q == call[h].queue
           c1 == [call[h] EXCEPT !.batches = Tail(call[h].batches)]
           c2 == [NoCall EXCEPT !.queue = q, !.until = call[h].early]
<1>1. call[h] \in Call /\ q \in Queue /\ call[h].batches # << >>
  BY DEF TypeOK, SubmitPush, SubmitPc, QueuePc
<1>2. call[h].sub \in CB_SUBMISSION /\ call[h].batches \in Seq(CB_SUBMISSION) /\ call[h].early \in Nat
  BY <1>1 DEF Call
<1>3. Tail(call[h].batches) \in Seq(CB_SUBMISSION) /\ Len(Tail(call[h].batches)) = Len(call[h].batches) - 1
  BY <1>1, <1>2, HeadTailProperties
<1>4. Len(call[h].batches) > 1 => Tail(call[h].batches) # << >>
  BY <1>2, TailNonempty
<1>5. c1 \in Call /\ c1.queue = q /\ c1.batches = Tail(call[h].batches)
  BY <1>1, <1>3 DEF Call
<1>6. c2 \in Call /\ c2.queue = q
  BY <1>1, <1>2, NoCallType DEF Call, NoCall
<1>7. HostTypeOK'
  <2>1. CASE Len(call[h].batches) > 1
    <3>1. hpc' = [hpc EXCEPT ![h] = "cbs"] /\ call' = [call EXCEPT ![h] = c1] /\ frame' = frame
      BY <2>1 DEF SubmitPush, TypeOK
    <3> QED BY <1>1, <1>4, <1>5, <2>1, <3>1, HostMoves DEF HostPc, SemaphorePc, QueuePc, SubmitPc, IdlePc
  <2>2. CASE ~(Len(call[h].batches) > 1) /\ call[h].early > 0
    <3>1. hpc' = [hpc EXCEPT ![h] = "qnotify"] /\ call' = [call EXCEPT ![h] = c2] /\ frame' = frame
      BY <2>2 DEF SubmitPush
    <3> QED BY <1>1, <1>6, <3>1, HostMoves DEF HostPc, SemaphorePc, QueuePc, SubmitPc, IdlePc
  <2>3. CASE ~(Len(call[h].batches) > 1) /\ ~(call[h].early > 0)
    BY <2>3, HostReturns DEF SubmitPush
  <2> QED BY <2>1, <2>2, <2>3
<1>8. submissions_' \in [Queue -> Seq(CB_SUBMISSION)]
  BY <1>1, <1>2, AppendProperties DEF TypeOK, SubmitPush
<1>9. tpc' \in [Queue -> ThreadPc]
  BY <1>1 DEF TypeOK, SubmitPush, ThreadPc
<1> QED
  BY <1>7, <1>8, <1>9 DEF TypeOK, SubmitPush, HostTypeOK

LEMMA TypeQueueNotify ==
    ASSUME TypeOK, NEW h \in Host, QueueNotify(h)
    PROVE  TypeOK'
<1> DEFINE q == call[h].queue
           until == IF call[h].until = AllSeq THEN seq_[q] ELSE call[h].until
           c == [call[h] EXCEPT !.until = until]
<1>1. call[h] \in Call /\ q \in Queue
  BY DEF TypeOK, QueueNotify, IdlePc, QueuePc
<1>2. until \in Nat
  BY <1>1 DEF Call, TypeOK
<1>3. c \in Call /\ c.queue = q
  BY <1>1, <1>2 DEF Call
<1>4. call' = [call EXCEPT ![h] = c]
  BY DEF QueueNotify, TypeOK
<1>5. HostTypeOK'
  BY <1>1, <1>3, <1>4, HostMoves DEF QueueNotify, HostPc, SemaphorePc, QueuePc, SubmitPc, IdlePc
<1>6. request_seq_' \in [Queue -> Nat] /\ tpc' \in [Queue -> ThreadPc]
  BY <1>1, <1>2, NotifyType DEF QueueNotify
<1> QED
  BY <1>5, <1>6 DEF TypeOK, QueueNotify, HostTypeOK

\* The end of a wait moves on to another queue or returns.
LEMMA HostWaitDone ==
    ASSUME TypeOK, NEW h \in Host, QueueWaitDone(h), frame' = frame
    PROVE  HostTypeOK'
<1>1. CASE call[h].todo = {}
  BY <1>1, HostReturns DEF QueueWaitDone
<1>2. CASE call[h].todo # {}
  <2>1. PICK q \in call[h].todo :
           /\ hpc' = [hpc EXCEPT ![h] = "qnotify"]
           /\ call' = [call EXCEPT ![h] = [NoCall EXCEPT !.queue = q, !.todo = call[h].todo \ {q}, !.until = AllSeq]]
    BY <1>2 DEF QueueWaitDone
  <2> DEFINE c == [NoCall EXCEPT !.queue = q, !.todo = call[h].todo \ {q}, !.until = AllSeq]
  <2>2. call[h].todo \in SUBSET Queue
    BY DEF TypeOK, Call
  <2>3. c \in Call /\ c.queue = q /\ q \in Queue
    BY <2>2, NoCallType, AllSeqType DEF Call, NoCall
  <2> QED BY <2>1, <2>3, HostMoves DEF HostPc, SemaphorePc, QueuePc, SubmitPc, IdlePc
<1> QED BY <1>1, <1>2

LEMMA TypeQueueWait ==
    ASSUME TypeOK, NEW h \in Host, QueueWait(h)
    PROVE  TypeOK'
<1>1. HostTypeOK'
  <2>1. CASE AlreadyDone(call[h].queue, call[h].until)
    BY <2>1, HostWaitDone DEF QueueWait
  <2>2. CASE ~AlreadyDone(call[h].queue, call[h].until)
    <3>1. hpc' = [hpc EXCEPT ![h] = "qblock"] /\ call' = [call EXCEPT ![h] = call[h]] /\ frame' = frame
      BY <2>2 DEF QueueWait, TypeOK
    <3>2. call[h] \in Call /\ call[h].queue \in Queue
      BY DEF TypeOK, QueueWait, IdlePc, QueuePc
    <3> QED BY <3>1, <3>2, HostMoves DEF HostPc, SemaphorePc, QueuePc, SubmitPc, IdlePc
  <2> QED BY <2>1, <2>2
<1> QED
  BY <1>1 DEF TypeOK, QueueWait, HostTypeOK

LEMMA TypeQueueWaitReady ==
    ASSUME TypeOK, NEW h \in Host, QueueWaitReady(h)
    PROVE  TypeOK'
<1>1. HostTypeOK'
  BY HostWaitDone DEF QueueWaitReady
<1> QED
  BY <1>1 DEF TypeOK, QueueWaitReady, HostTypeOK

LEMMA TypeWaitForFence ==
    ASSUME TypeOK, NEW h \in Host, NEW f \in Fence, WaitForFence(h, f)
    PROVE  TypeOK'
<1>1. fence[f] \in FenceRecord /\ vk_fence[f] \in VkFenceRecord /\ call[h] \in Call
  BY DEF TypeOK
<1>2. fence' \in [Fence -> FenceRecord]
  <2>1. FenceNotify(fence[f]) \in FenceRecord
    BY <1>1, FenceTypes
  <2> QED BY <2>1 DEF TypeOK, WaitForFence
<1>3. vk_fence' \in [Fence -> VkFenceRecord]
  <2>1. [vk_fence[f] EXCEPT !.st = "observed"] \in VkFenceRecord
    BY <1>1 DEF VkFenceRecord
  <2>2. vk_fence' = [vk_fence EXCEPT ![f] = [vk_fence[f] EXCEPT !.st = "observed"]]
    BY DEF WaitForFence, TypeOK
  <2> QED BY <2>1, <2>2 DEF TypeOK
<1>4. request_seq_' \in [Queue -> Nat] /\ tpc' \in [Queue -> ThreadPc]
  <2>1. CASE FenceNotifiesQueue(fence[f])
    <3>1. fence[f].queue \in Queue /\ fence[f].seq \in Nat
      BY <1>1, <2>1 DEF FenceNotifiesQueue, FenceRecord
    <3> QED BY <2>1, <3>1, NotifyType DEF WaitForFence
  <2>2. CASE ~FenceNotifiesQueue(fence[f])
    BY <2>2 DEF WaitForFence, TypeOK
  <2> QED BY <2>1, <2>2
<1>5. HostTypeOK'
  <2>1. CASE fence[f].state = "FENCE_INFLIGHT"
    <3> DEFINE c == [call[h] EXCEPT !.fence = f]
    <3>1. c \in Call /\ c.fence = f
      BY <1>1 DEF Call
    <3>2. hpc' = [hpc EXCEPT ![h] = "fblock"] /\ call' = [call EXCEPT ![h] = c] /\ frame' = frame
      BY <2>1 DEF WaitForFence, TypeOK
    <3> QED BY <3>1, <3>2, HostMoves DEF HostPc, SemaphorePc, QueuePc, SubmitPc, IdlePc
  <2>2. CASE fence[f].state # "FENCE_INFLIGHT"
    BY <2>2 DEF WaitForFence, TypeOK, HostTypeOK
  <2> QED BY <2>1, <2>2
<1> QED
  BY <1>2, <1>3, <1>4, <1>5 DEF TypeOK, WaitForFence, HostTypeOK

LEMMA TypeFenceWaitReady ==
    ASSUME TypeOK, NEW h \in Host, FenceWaitReady(h)
    PROVE  TypeOK'
<1>1. HostTypeOK'
  BY HostReturns DEF FenceWaitReady
<1> QED
  BY <1>1 DEF TypeOK, FenceWaitReady, HostTypeOK

LEMMA TypeResetFence ==
    ASSUME TypeOK, NEW h \in Host, NEW f \in Fence, ResetFence(h, f)
    PROVE  TypeOK'
<1>1. fence[f] \in FenceRecord /\ vk_fence[f] \in VkFenceRecord
  BY DEF TypeOK
<1>2. fence' \in [Fence -> FenceRecord]
  <2>1. FenceReset(fence[f]) \in FenceRecord
    BY <1>1, FenceTypes
  <2> QED BY <2>1 DEF TypeOK, ResetFence
<1>3. vk_fence' \in [Fence -> VkFenceRecord]
  <2>1. [vk_fence[f] EXCEPT !.st = "unsignaled"] \in VkFenceRecord
    BY <1>1 DEF VkFenceRecord
  <2>2. vk_fence' = [vk_fence EXCEPT ![f] = [vk_fence[f] EXCEPT !.st = "unsignaled"]] \/ vk_fence' = vk_fence
    BY DEF ResetFence, TypeOK
  <2> QED BY <2>1, <2>2 DEF TypeOK
<1> QED
  BY <1>2, <1>3 DEF TypeOK, ResetFence

LEMMA TypeImportFence ==
    ASSUME TypeOK, NEW h \in Host, NEW f \in Fence, NEW temporary \in BOOLEAN, NEW st \in {"unsignaled", "signaled"}, ImportFence(h, f, temporary, st)
    PROVE  TypeOK'
<1>1. fence[f] \in FenceRecord /\ vk_fence[f] \in VkFenceRecord
  BY DEF TypeOK
<1>2. fence' \in [Fence -> FenceRecord]
  <2>1. FenceImport(fence[f], temporary) \in FenceRecord
    BY <1>1, FenceTypes
  <2> QED BY <2>1 DEF TypeOK, ImportFence
<1>3. vk_fence' \in [Fence -> VkFenceRecord]
  <2>1. [vk_fence[f] EXCEPT !.st = st] \in VkFenceRecord
    BY <1>1 DEF VkFenceRecord
  <2>2. vk_fence' = [vk_fence EXCEPT ![f] = [vk_fence[f] EXCEPT !.st = st]] \/ vk_fence' = vk_fence
    BY DEF ImportFence, TypeOK
  <2> QED BY <2>1, <2>2 DEF TypeOK
<1> QED
  BY <1>2, <1>3 DEF TypeOK, ImportFence

LEMMA TypeExportFence ==
    ASSUME TypeOK, NEW h \in Host, NEW f \in Fence, NEW syncFd \in BOOLEAN, ExportFence(h, f, syncFd)
    PROVE  TypeOK'
<1>1. fence[f] \in FenceRecord /\ vk_fence[f] \in VkFenceRecord
  BY DEF TypeOK
<1>2. fence' \in [Fence -> FenceRecord]
  <2>1. FenceExport(fence[f], syncFd) \in FenceRecord
    BY <1>1, FenceTypes
  <2> QED BY <2>1 DEF TypeOK, ExportFence
<1>3. vk_fence' \in [Fence -> VkFenceRecord]
  <2>1. [vk_fence[f] EXCEPT !.st = "unsignaled"] \in VkFenceRecord
    BY <1>1 DEF VkFenceRecord
  <2>2. vk_fence' = [vk_fence EXCEPT ![f] = [vk_fence[f] EXCEPT !.st = "unsignaled"]] \/ vk_fence' = vk_fence
    BY DEF ExportFence, TypeOK
  <2> QED BY <2>1, <2>2 DEF TypeOK
<1> QED
  BY <1>2, <1>3 DEF TypeOK, ExportFence

LEMMA TypeAcquireNextImage ==
    ASSUME TypeOK, NEW h \in Host, NEW s \in BinarySem, NEW f \in Fence, AcquireNextImage(h, s, f)
    PROVE  TypeOK'
<1>1. fence[f] \in FenceRecord /\ vk_fence[f] \in VkFenceRecord /\ s \in Sem /\ sem[s] \in SemRecord
  BY DEF TypeOK, Sem
<1>2. fence' \in [Fence -> FenceRecord]
  <2>1. FenceEnqueueSignal(fence[f], NoQueue, 0) \in FenceRecord
    BY <1>1, FenceTypes
  <2> QED BY <2>1 DEF TypeOK, AcquireNextImage
<1>3. vk_fence' \in [Fence -> VkFenceRecord]
  <2>1. [vk_fence[f] EXCEPT !.st = "signaled"] \in VkFenceRecord
    BY <1>1 DEF VkFenceRecord
  <2>2. vk_fence' = [vk_fence EXCEPT ![f] = [vk_fence[f] EXCEPT !.st = "signaled"]]
    BY DEF AcquireNextImage, TypeOK
  <2> QED BY <2>1, <2>2 DEF TypeOK
<1>4. sem' \in [Sem -> SemRecord]
  <2>1. SemEnqueueAcquire(sem[s]) \in SemRecord
    BY <1>1, SemTypes
  <2> QED BY <1>1, <2>1 DEF TypeOK, AcquireNextImage
<1>5. app_sem' \in [Sem -> Nat] /\ vk_sem' \in [Sem -> Nat]
  BY <1>1 DEF TypeOK, AcquireNextImage
<1> QED
  BY <1>2, <1>3, <1>4, <1>5 DEF TypeOK, AcquireNextImage

\* A host call on a timeline semaphore starts with its frame.
LEMMA SemaphoreCallStarts ==
    ASSUME TypeOK, NEW h \in Host, NEW s \in Sem, NEW p \in Nat, NEW pc \in SemaphorePc,
           StartSemaphoreCall(h, pc, s, p), call' = call, rpc' = rpc
    PROVE  /\ HostTypeOK'
           /\ frame' \in [Actor -> Frame \cup {NoFrame}]
           /\ \A a \in Actor : rpc'[a] # "idle" => frame'[a] \in Frame
<1> DEFINE fr == [semaphore |-> s, payload |-> p, entry |-> NoEntry]
<1>1. fr \in Frame
  BY DEF Frame, NoEntry, NewOp, SemOp, OpType
<1>2. h \in Actor
  BY DEF Actor
<1>3. /\ frame' \in [Actor -> Frame \cup {NoFrame}]
      /\ frame'[h] \in Frame
      /\ \A a \in Actor : a # h => frame'[a] = frame[a]
  BY <1>1, <1>2 DEF TypeOK, StartSemaphoreCall
<1>4. hpc' \in [Host -> HostPc] /\ hpc'[h] = pc /\ \A g \in Host : g # h => hpc'[g] = hpc[g]
  BY DEF TypeOK, StartSemaphoreCall, HostPc
<1>5. pc \notin QueuePc /\ pc \notin SubmitPc /\ pc # "fblock"
  BY DEF QueuePc, SubmitPc, IdlePc, SemaphorePc
<1>6. \A g \in Host : hpc'[g] \in SemaphorePc => frame'[g] \in Frame
  BY <1>3, <1>4 DEF TypeOK, Actor
<1> QED BY <1>3, <1>4, <1>5, <1>6 DEF TypeOK, HostTypeOK

LEMMA TypeWaitSemaphore ==
    ASSUME TypeOK, NEW h \in Host, NEW s \in Sem, NEW p \in Nat, WaitSemaphore(h, s, p)
    PROVE  TypeOK'
<1>1. \E pc \in SemaphorePc : StartSemaphoreCall(h, pc, s, p)
  BY DEF WaitSemaphore, SemaphorePc
<1>2. /\ HostTypeOK'
      /\ frame' \in [Actor -> Frame \cup {NoFrame}]
      /\ \A a \in Actor : rpc'[a] # "idle" => frame'[a] \in Frame
  BY <1>1, SemaphoreCallStarts DEF WaitSemaphore
<1> QED
  BY <1>2 DEF TypeOK, WaitSemaphore, HostTypeOK

LEMMA TypeSignalSemaphore ==
    ASSUME TypeOK, NEW h \in Host, NEW s \in Sem, NEW p \in Nat, SignalSemaphore(h, s, p)
    PROVE  TypeOK'
<1>1. StartSemaphoreCall(h, "senqueue", s, p) /\ "senqueue" \in SemaphorePc
  BY DEF SignalSemaphore, SemaphorePc
<1>2. /\ HostTypeOK'
      /\ frame' \in [Actor -> Frame \cup {NoFrame}]
      /\ \A a \in Actor : rpc'[a] # "idle" => frame'[a] \in Frame
  BY <1>1, SemaphoreCallStarts DEF SignalSemaphore
<1>3. vk_sem' \in [Sem -> Nat] /\ app_sem' \in [Sem -> Nat]
  BY DEF TypeOK, SignalSemaphore, Max2
<1> QED
  BY <1>2, <1>3 DEF TypeOK, SignalSemaphore, HostTypeOK

\* A host thread moves within a call on a timeline semaphore.
LEMMA SemaphoreCallMoves ==
    ASSUME TypeOK, NEW h \in Host, NEW pc \in SemaphorePc, hpc[h] \in SemaphorePc,
           hpc' = [hpc EXCEPT ![h] = pc], call' = call, frame' = frame
    PROVE  HostTypeOK'
<1>1. hpc' \in [Host -> HostPc] /\ hpc'[h] = pc /\ \A g \in Host : g # h => hpc'[g] = hpc[g]
  BY DEF TypeOK, HostPc
<1>2. pc \notin QueuePc /\ pc \notin SubmitPc /\ pc # "fblock"
  BY DEF QueuePc, SubmitPc, IdlePc, SemaphorePc
<1> QED BY <1>1, <1>2 DEF TypeOK, HostTypeOK

LEMMA TypeSemaphoreWait ==
    ASSUME TypeOK, NEW h \in Host, SemaphoreWait(h)
    PROVE  TypeOK'
<1> DEFINE s == frame[h].semaphore
           p == frame[h].payload
<1>1. frame[h] \in Frame /\ h \in Actor
  BY DEF TypeOK, SemaphoreWait, SemaphorePc, Actor
<1>2. s \in Sem /\ p \in Nat /\ sem[s] \in SemRecord
  BY <1>1 DEF Frame, TypeOK
<1>3. SemWait(sem[s], p) \in SemRecord /\ EntryFor(sem[s], p) \in SemOp
  BY <1>2, SemTypes, EntryForType
<1>4. sem' \in [Sem -> SemRecord]
  BY <1>2, <1>3 DEF TypeOK, SemaphoreWait
<1>5. /\ frame' \in [Actor -> Frame \cup {NoFrame}]
      /\ frame'[h] \in Frame
      /\ \A a \in Actor : a # h => frame'[a] = frame[a]
  <2>1. CASE p <= sem[s].completed.payload
    BY <1>1, <2>1 DEF TypeOK, SemaphoreWait
  <2>2. CASE ~(p <= sem[s].completed.payload)
    <3>1. [frame[h] EXCEPT !.entry = EntryFor(sem[s], p)] \in Frame
      BY <1>1, <1>3 DEF Frame
    <3>2. frame' = [frame EXCEPT ![h] = [frame[h] EXCEPT !.entry = EntryFor(sem[s], p)]]
      BY <2>2 DEF SemaphoreWait, TypeOK
    <3> QED BY <1>1, <3>1, <3>2 DEF TypeOK
  <2> QED BY <2>1, <2>2
<1>6. hpc' \in [Host -> HostPc] /\ hpc'[h] = "spoke" /\ \A g \in Host : g # h => hpc'[g] = hpc[g]
  BY DEF TypeOK, SemaphoreWait, HostPc, SemaphorePc
<1>7. \A g \in Host : hpc'[g] \in SemaphorePc => frame'[g] \in Frame
  BY <1>5, <1>6 DEF TypeOK, Actor
<1>8. HostTypeOK'
  BY <1>6, <1>7 DEF TypeOK, HostTypeOK, SemaphoreWait, QueuePc, SubmitPc, IdlePc
<1>9. \A a \in Actor : rpc'[a] # "idle" => frame'[a] \in Frame
  BY <1>5 DEF TypeOK, SemaphoreWait
<1> QED
  BY <1>4, <1>5, <1>8, <1>9 DEF TypeOK, SemaphoreWait, HostTypeOK

LEMMA TypeSemaphorePoke ==
    ASSUME TypeOK, PendingNumbered, NEW h \in Host, SemaphorePoke(h)
    PROVE  TypeOK'
<1> DEFINE f == frame[h]
           Seqs(q) == NotifiedSeqs(sem[f.semaphore], f.payload, q)
<1>1. f \in Frame /\ hpc[h] \in SemaphorePc
  BY DEF TypeOK, SemaphorePoke, SemaphorePc
<1>2. f.semaphore \in Sem
  BY <1>1 DEF Frame
<1>3. ASSUME NEW q \in Queue PROVE MaxOf({request_seq_[q]} \cup Seqs(q)) \in Nat
  <2>1. Seqs(q) \in SUBSET Nat /\ \A n \in Seqs(q) : n <= seq_[q]
    <3> SUFFICES ASSUME NEW op \in Pending(sem[f.semaphore]), op.queue = q
                 PROVE  op.seq \in Nat /\ op.seq <= seq_[q]
      BY DEF NotifiedSeqs
    <3>1. sem[f.semaphore].operations \in Seq(SemOp)
      BY <1>2 DEF TypeOK, SemRecord
    <3>2. PICK i \in DOMAIN sem[f.semaphore].operations : op = sem[f.semaphore].operations[i]
      BY DEF Pending
    <3>3. op \in SemOp
      BY <3>1, <3>2, LenProperties, ElementOfSeq
    <3> QED BY <1>2, <3>2, <3>3, NoQueueAssumption DEF PendingNumbered, SemOp
  <2>2. request_seq_[q] \in Nat /\ seq_[q] \in Nat
    BY DEF TypeOK
  <2> DEFINE S == {request_seq_[q]} \cup Seqs(q)
  <2>3. S \in SUBSET Nat /\ S # {}
    BY <2>1, <2>2
  <2>4. request_seq_[q] + seq_[q] \in Nat /\ \A n \in S : n <= request_seq_[q] + seq_[q]
    BY <2>1, <2>2
  <2>5. MaxOf(S) \in S
    BY <2>3, <2>4, MaxOfBounded
  <2> QED BY <2>3, <2>5
<1>4. request_seq_' \in [Queue -> Nat]
  BY <1>3 DEF SemaphorePoke
<1>5. tpc' \in [Queue -> ThreadPc]
  BY DEF TypeOK, SemaphorePoke, Woken, ThreadPc
<1>6. HostTypeOK'
  BY <1>1, SemaphoreCallMoves DEF SemaphorePoke, SemaphorePc
<1> QED
  BY <1>4, <1>5, <1>6 DEF TypeOK, SemaphorePoke, HostTypeOK

LEMMA TypeSemaphoreReady ==
    ASSUME TypeOK, NEW h \in Host, SemaphoreReady(h)
    PROVE  TypeOK'
<1>1. frame[h] \in Frame
  BY DEF TypeOK, SemaphoreReady, SemaphorePc
<1>2. frame[h].semaphore \in Sem /\ frame[h].payload \in Nat
  BY <1>1 DEF Frame
<1>3. HostTypeOK'
  BY HostReturns DEF SemaphoreReady
<1>4. app_seen' \in [Sem -> Nat]
  BY <1>2 DEF TypeOK, SemaphoreReady, Seen, Max2
<1> QED
  BY <1>3, <1>4 DEF TypeOK, SemaphoreReady, HostTypeOK

LEMMA TypeRetireTimelineEnqueue ==
    ASSUME TypeOK, NEW h \in Host, RetireTimelineEnqueue(h)
    PROVE  TypeOK'
<1> DEFINE s == frame[h].semaphore
<1>1. frame[h] \in Frame /\ hpc[h] \in SemaphorePc
  BY DEF TypeOK, RetireTimelineEnqueue, SemaphorePc
<1>2. s \in Sem /\ frame[h].payload \in Nat /\ sem[s] \in SemRecord
  BY <1>1 DEF Frame, TypeOK
<1>3. SemEnqueueSignal(sem[s], FALSE, NoQueue, 0, frame[h].payload) \in SemRecord
  BY <1>2, SemTypes
<1>4. sem' \in [Sem -> SemRecord]
  BY <1>2, <1>3 DEF TypeOK, RetireTimelineEnqueue
<1>5. HostTypeOK'
  BY <1>1, SemaphoreCallMoves DEF RetireTimelineEnqueue, SemaphorePc
<1> QED
  BY <1>4, <1>5 DEF TypeOK, RetireTimelineEnqueue, HostTypeOK

LEMMA TypeRetireTimelineBegin ==
    ASSUME TypeOK, NEW h \in Host, RetireTimelineBegin(h)
    PROVE  TypeOK'
<1>1. frame[h] \in Frame /\ h \in Actor
  BY DEF TypeOK, RetireTimelineBegin, SemaphorePc, Actor
<1>2. frame[h].semaphore \in Sem
  BY <1>1 DEF Frame
<1> QED
  BY <1>1, <1>2 DEF TypeOK, RetireTimelineBegin, RetirePc

LEMMA TypeImportSemaphore ==
    ASSUME TypeOK, NEW h \in Host, NEW s \in Sem, NEW temporary \in BOOLEAN, ImportSemaphore(h, s, temporary)
    PROVE  TypeOK'
<1>1. SemImport(sem[s], temporary) \in SemRecord
  BY SemTypes DEF TypeOK
<1> QED
  BY <1>1 DEF TypeOK, ImportSemaphore

LEMMA TypeExportSemaphore ==
    ASSUME TypeOK, NEW h \in Host, NEW s \in Sem, NEW syncFd \in BOOLEAN, ExportSemaphore(h, s, syncFd)
    PROVE  TypeOK'
<1>1. SemExport(sem[s], syncFd) \in SemRecord
  BY SemTypes DEF TypeOK
<1> QED
  BY <1>1 DEF TypeOK, ExportSemaphore

LEMMA TypeDestroyNotify ==
    ASSUME TypeOK, NEW h \in Host, DestroyNotify(h)
    PROVE  TypeOK'
<1>1. call[h] \in Call /\ call[h].queue \in Queue
  BY DEF TypeOK, DestroyNotify, QueuePc
<1>2. HostTypeOK'
  <2>1. call' = [call EXCEPT ![h] = call[h]]
    BY DEF DestroyNotify, TypeOK
  <2> QED BY <1>1, <2>1, HostMoves DEF DestroyNotify, HostPc, SemaphorePc, QueuePc, SubmitPc, IdlePc
<1>3. tpc' \in [Queue -> ThreadPc]
  BY <1>1 DEF TypeOK, DestroyNotify, Woken, ThreadPc
<1>4. exit_thread_' \in [Queue -> BOOLEAN]
  BY <1>1 DEF TypeOK, DestroyNotify
<1> QED
  BY <1>2, <1>3, <1>4 DEF TypeOK, DestroyNotify, HostTypeOK

LEMMA TypeDestroyJoin ==
    ASSUME TypeOK, NEW h \in Host, DestroyJoin(h)
    PROVE  TypeOK'
<1>1. HostTypeOK'
  <2>1. CASE call[h].todo = {}
    BY <2>1, HostReturns DEF DestroyJoin
  <2>2. CASE call[h].todo # {}
    <3>1. PICK q \in call[h].todo :
             /\ hpc' = [hpc EXCEPT ![h] = "qexit"]
             /\ call' = [call EXCEPT ![h].queue = q, ![h].todo = @ \ {q}]
      BY <2>2 DEF DestroyJoin
    <3> DEFINE c == [call[h] EXCEPT !.queue = q, !.todo = call[h].todo \ {q}]
    <3>2. call[h] \in Call /\ call[h].todo \in SUBSET Queue
      BY DEF TypeOK, Call
    <3>3. c \in Call /\ c.queue = q /\ q \in Queue
      BY <3>2 DEF Call
    <3>4. call' = [call EXCEPT ![h] = c] /\ frame' = frame
      BY <3>1 DEF TypeOK, DestroyJoin
    <3> QED BY <3>1, <3>3, <3>4, HostMoves DEF HostPc, SemaphorePc, QueuePc, SubmitPc, IdlePc
  <2> QED BY <2>1, <2>2
<1> QED
  BY <1>1 DEF TypeOK, DestroyJoin, HostTypeOK

\* The application's view of a semaphore is a count of operations or a value.
LEMMA AppEnqueueType ==
    ASSUME TypeOK, NEW b \in CB_SUBMISSION
    PROVE  AppEnqueue(b) \in [Sem -> Nat]
<1>1. ASSUME NEW w \in Elements(b.signal_semaphores) PROVE w.payload \in Nat
  <2>1. b.signal_semaphores \in Seq(SemInfo)
    BY DEF CB_SUBMISSION
  <2>2. PICK i \in DOMAIN b.signal_semaphores : w = b.signal_semaphores[i]
    BY DEF Elements
  <2>3. w \in SemInfo
    BY <2>1, <2>2, LenProperties, ElementOfSeq
  <2> QED BY <2>3 DEF SemInfo
<1>2. ASSUME NEW s \in Sem PROVE AppEnqueue(b)[s] \in Nat
  <2>1. app_sem[s] \in Nat
    BY DEF TypeOK
  <2>2. CASE s \in BinarySem
    BY <2>1, <2>2 DEF AppEnqueue
  <2>3. CASE s \notin BinarySem /\ \E w \in Elements(b.signal_semaphores) : w.semaphore = s
    <3> DEFINE w == CHOOSE w \in Elements(b.signal_semaphores) : w.semaphore = s
    <3>1. w \in Elements(b.signal_semaphores)
      BY <2>3
    <3>2. AppEnqueue(b)[s] = w.payload
      BY <2>3 DEF AppEnqueue
    <3> QED BY <1>1, <3>1, <3>2
  <2>4. CASE s \notin BinarySem /\ ~\E w \in Elements(b.signal_semaphores) : w.semaphore = s
    BY <2>1, <2>4 DEF AppEnqueue
  <2> QED BY <2>2, <2>3, <2>4
<1>3. DOMAIN AppEnqueue(b) = Sem /\ AppEnqueue(b) = [s \in Sem |-> AppEnqueue(b)[s]]
  BY DEF AppEnqueue
<1> QED BY <1>2, <1>3

LEMMA TypeDriverAccept ==
    ASSUME TypeOK, NEW h \in Host, DriverAccept(h)
    PROVE  TypeOK'
<1> DEFINE q == call[h].queue
           b == call[h].batches[call[h].idx + 1]
           n == Len(issued[q]) + 1
           b2 == [b EXCEPT !.wait_semaphores = NumberedSeq(@), !.signal_semaphores = NumberedSeq(@), !.seq = Len(issued[q]) + 1]
<1>1. call[h] \in Call /\ q \in Queue /\ call[h].batches # << >>
  BY DEF TypeOK, DriverAccept, SubmitPc, QueuePc
<1>2. call[h].batches \in Seq(CB_SUBMISSION) /\ call[h].idx \in Nat
  BY <1>1 DEF Call
<1>3. call[h].idx + 1 \in 1..Len(call[h].batches)
  <2>1. PICK k \in Nat, L \in Nat : k = call[h].idx /\ L = Len(call[h].batches)
    BY <1>2, LenProperties
  <2>2. k < L
    BY <2>1 DEF DriverAccept
  <2> QED BY <2>1, <2>2
<1>4. b \in CB_SUBMISSION
  BY <1>2, <1>3, ElementOfSeq
<1>5. b.wait_semaphores \in Seq(SemInfo) /\ b.signal_semaphores \in Seq(SemInfo) /\ b.fence \in Fence \cup {NoFence}
  BY <1>4 DEF CB_SUBMISSION
<1>6. issued[q] \in Seq(CB_SUBMISSION) /\ n \in Nat
  BY <1>1, LenProperties DEF TypeOK
<1>7. NumberedSeq(b.wait_semaphores) \in Seq(SemInfo) /\ NumberedSeq(b.signal_semaphores) \in Seq(SemInfo)
  BY <1>5, NumberedSeqType DEF TypeOK
<1>8. b2 \in CB_SUBMISSION
  <2>1. \A x \in Seq(SemInfo), y \in Seq(SemInfo), k \in Nat :
           [b EXCEPT !.wait_semaphores = x, !.signal_semaphores = y, !.seq = k] \in CB_SUBMISSION
    BY <1>4 DEF CB_SUBMISSION
  <2> QED BY <1>6, <1>7, <2>1
<1>9. issued' \in [Queue -> Seq(CB_SUBMISSION)]
  <2>1. Append(issued[q], b2) \in Seq(CB_SUBMISSION)
    BY <1>6, <1>8, AppendProperties
  <2>2. issued' = [issued EXCEPT ![q] = Append(issued[q], b2)]
    BY DEF DriverAccept
  <2> QED BY <2>1, <2>2 DEF TypeOK
<1>10. app_sem' \in [Sem -> Nat]
  BY <1>4, AppEnqueueType DEF DriverAccept
<1>11. vk_fence' \in [Fence -> VkFenceRecord]
  <2>1. [st |-> "pending", queue |-> q, n |-> n] \in VkFenceRecord
    BY <1>1, <1>6 DEF VkFenceRecord
  <2> QED BY <1>5, <2>1 DEF DriverAccept, TypeOK
<1>12. HostTypeOK'
  <2>1. CASE call[h].idx + 1 = Len(call[h].batches)
    <3> DEFINE c == [call[h] EXCEPT !.idx = 0]
    <3>1. c \in Call /\ c.queue = q /\ c.batches = call[h].batches
      BY <1>1 DEF Call
    <3>2. hpc' = [hpc EXCEPT ![h] = "cbs"] /\ call' = [call EXCEPT ![h] = c] /\ frame' = frame
      BY <2>1 DEF DriverAccept, TypeOK
    <3> QED BY <1>1, <3>1, <3>2, HostMoves DEF HostPc, SemaphorePc, QueuePc, SubmitPc, IdlePc
  <2>2. CASE call[h].idx + 1 # Len(call[h].batches)
    <3> DEFINE c == [call[h] EXCEPT !.idx = call[h].idx + 1]
    <3>1. c \in Call /\ c.queue = q /\ c.batches = call[h].batches
      BY <1>1, <1>2 DEF Call
    <3>2. hpc' = [hpc EXCEPT ![h] = "driver"] /\ call' = [call EXCEPT ![h] = c] /\ frame' = frame
      BY <2>2 DEF DriverAccept, TypeOK
    <3> QED BY <1>1, <3>1, <3>2, HostMoves DEF HostPc, SemaphorePc, QueuePc, SubmitPc, IdlePc
  <2> QED BY <2>1, <2>2
<1> QED
  BY <1>9, <1>10, <1>11, <1>12 DEF TypeOK, DriverAccept, HostTypeOK

LEMMA TypeDeviceExecute ==
    ASSUME TypeOK, NEW q \in Queue, DeviceExecute(q)
    PROVE  TypeOK'
<1> DEFINE b == issued[q][executed[q] + 1]
           On(ws, s) == {w \in Elements(ws) : w.semaphore = s}
<1>1. issued[q] \in Seq(CB_SUBMISSION) /\ executed[q] \in Nat /\ executed[q] < Len(issued[q])
  BY DEF TypeOK, DeviceExecute
<1>2. executed[q] + 1 \in 1..Len(issued[q])
  BY <1>1, LenProperties
<1>3. b \in CB_SUBMISSION
  BY <1>1, <1>2, ElementOfSeq
<1>4. ASSUME NEW w \in Elements(b.signal_semaphores) PROVE w.payload \in Nat
  <2>1. b.signal_semaphores \in Seq(SemInfo)
    BY <1>3 DEF CB_SUBMISSION
  <2>2. PICK i \in DOMAIN b.signal_semaphores : w = b.signal_semaphores[i]
    BY DEF Elements
  <2>3. w \in SemInfo
    BY <2>1, <2>2, LenProperties, ElementOfSeq
  <2> QED BY <2>3 DEF SemInfo
<1>5. ASSUME NEW s \in Sem, On(b.signal_semaphores, s) # {}
      PROVE  (CHOOSE w \in On(b.signal_semaphores, s) : TRUE).payload \in Nat
  <2>1. (CHOOSE w \in On(b.signal_semaphores, s) : TRUE) \in On(b.signal_semaphores, s)
    BY <1>5
  <2> QED BY <1>4, <2>1
<1>6. vk_sem' \in [Sem -> Nat]
  <2>1. \A s \in Sem : vk_sem[s] \in Nat
    BY DEF TypeOK
  <2> QED BY <1>5, <2>1 DEF DeviceExecute
<1>7. vk_fence' \in [Fence -> VkFenceRecord]
  <2>1. \A f \in Fence : vk_fence[f] \in VkFenceRecord
    BY DEF TypeOK
  <2>2. \A r \in VkFenceRecord : [r EXCEPT !.st = "signaled"] \in VkFenceRecord
    BY DEF VkFenceRecord
  <2> QED BY <2>1, <2>2 DEF DeviceExecute
<1>8. executed' \in [Queue -> Nat]
  BY <1>1 DEF TypeOK, DeviceExecute
<1> QED
  BY <1>6, <1>7, <1>8 DEF TypeOK, DeviceExecute

-----------------------------------------------------------------------------
(* QueueInv: pending operations carry numbers that were handed out *)

\* A step that enqueues nothing.
LEMMA PendingKept ==
    ASSUME TypeOK, PendingNumbered, sem' = sem, seq_' = seq_
    PROVE  PendingNumbered'
BY DEF PendingNumbered

\* A step that changes one semaphore and adds at most the operation op.
LEMMA PendingAdds ==
    ASSUME TypeOK, PendingNumbered, NEW s \in Sem, NEW t, NEW op,
           sem' = [sem EXCEPT ![s] = t], seq_' = seq_,
           Pending(t) \subseteq Pending(sem[s]) \cup {op},
           op.queue # NoQueue => op.seq <= seq_[op.queue]
    PROVE  PendingNumbered'
<1>1. \A r \in Sem : sem'[r] = IF r = s THEN t ELSE sem[r]
  BY DEF TypeOK
<1>2. SUFFICES ASSUME NEW r \in Sem, NEW o \in Pending(sem'[r]), o.queue # NoQueue
               PROVE  o.seq <= seq_[o.queue]
  BY DEF PendingNumbered
<1>3. o = op \/ o \in Pending(sem[r])
  BY <1>1
<1> QED BY <1>2, <1>3 DEF PendingNumbered

-----------------------------------------------------------------------------
(* QueueInv: exclusive use, numbering and bounds, when a host thread moves *)

Order == QueueExclusive /\ Numbering /\ UntilBounded /\ HostRetires

\* Nothing of the numbering moves but a host thread, which neither starts nor ends
\* the push of a submission.
LEMMA HostOrder ==
    ASSUME TypeOK, Order, NEW h \in Host, NEW pc, NEW c,
           hpc' = [hpc EXCEPT ![h] = pc], call' = [call EXCEPT ![h] = c],
           seq_' = seq_, submissions_' = submissions_, tcur' = tcur, done_' = done_,
           \A q \in Queue : InThread(q)' <=> InThread(q),
           \A q \in Queue : Claims(c, q) => \A g \in Host : g # h => ~Claims(call[g], q),
           c.queue \notin c.todo,
           pc \notin QueuePc => c.queue = NoQueue /\ c.todo = {},
           pc \in PushPc <=> hpc[h] \in PushPc,
           pc \in PushPc => c.queue = call[h].queue /\ c.sub.seq = call[h].sub.seq,
           UntilOK(pc, c),
           \A g \in Host : rpc'[g] # "idle" => rpc[g] # "idle",
           hpc[h] = "sretire" => rpc'[h] = "idle"
    PROVE  Order'
<1>1. hpc'[h] = pc /\ call'[h] = c /\ \A g \in Host : g # h => hpc'[g] = hpc[g] /\ call'[g] = call[g]
  BY DEF TypeOK
<1>2. QueueExclusive'
  <2>1. \A g \in Host : hpc'[g] \notin QueuePc => call'[g].queue = NoQueue /\ call'[g].todo = {}
    BY <1>1 DEF Order, QueueExclusive
  <2>2. \A g \in Host : call'[g].queue \notin call'[g].todo
    BY <1>1 DEF Order, QueueExclusive
  <2>3. ASSUME NEW g \in Host, NEW k \in Host, g # k, NEW q \in Queue, Claims(call'[g], q), Claims(call'[k], q)
        PROVE  FALSE
    BY <1>1, <2>3 DEF Order, QueueExclusive
  <2> QED BY <2>1, <2>2, <2>3 DEF QueueExclusive, Claims
<1>3. \A q \in Queue : Pushing(q)' <=> Pushing(q)
  <2> TAKE q \in Queue
  <2>1. ASSUME NEW g \in Host PROVE hpc'[g] \in PushPc /\ call'[g].queue = q <=> hpc[g] \in PushPc /\ call[g].queue = q
    BY <1>1
  <2> QED BY <2>1 DEF Pushing
<1>4. \A q \in Queue : Popped(q)' = Popped(q)
  BY DEF Popped
<1>5. Numbering'
  <2>1. \A g \in Host : hpc'[g] \in PushPc => call'[g].sub.seq = seq_'[call'[g].queue]
    BY <1>1 DEF Order, Numbering
  <2> QED BY <1>3, <1>4, <2>1 DEF Order, Numbering
<1>6. UntilBounded'
  BY <1>1 DEF Order, UntilBounded, UntilOK
<1>7. HostRetires'
  BY <1>1 DEF Order, HostRetires
<1> QED BY <1>2, <1>5, <1>6, <1>7 DEF Order

\* Nothing of it moves but a queue thread, which neither pops nor completes.
LEMMA ThreadOrder ==
    ASSUME TypeOK, Order, hpc' = hpc, call' = call,
           seq_' = seq_, submissions_' = submissions_, tcur' = tcur, done_' = done_,
           \A q \in Queue : InThread(q)' <=> InThread(q),
           \A g \in Host : rpc'[g] = rpc[g]
    PROVE  Order'
<1>1. \A q \in Queue : (Pushing(q)' <=> Pushing(q)) /\ Popped(q)' = Popped(q)
  BY DEF Popped, Pushing
<1> QED BY <1>1 DEF Order, QueueExclusive, Claims, Numbering, UntilBounded, UntilOK, HostRetires

\* cond_.notify wakes a thread that is in no submission.
LEMMA WokenInThread ==
    ASSUME TypeOK, NEW S, tpc' = [q \in Queue |-> IF q \in S THEN Woken(tpc[q]) ELSE tpc[q]]
    PROVE  \A q \in Queue : InThread(q)' <=> InThread(q)
BY DEF InThread, Woken, TypeOK

LEMMA NotifyInThread ==
    ASSUME TypeOK, NEW p \in Queue, NEW n, Notify(p, n)
    PROVE  \A q \in Queue : InThread(q)' <=> InThread(q)
BY DEF InThread, Woken, TypeOK, Notify

\* Returning gives up every queue.
LEMMA ReturnOrder ==
    ASSUME TypeOK, Order, NEW h \in Host, Return(h), hpc[h] \notin PushPc,
           seq_' = seq_, submissions_' = submissions_, tcur' = tcur, done_' = done_,
           \A q \in Queue : InThread(q)' <=> InThread(q),
           \A g \in Host : rpc'[g] # "idle" => rpc[g] # "idle",
           hpc[h] = "sretire" => rpc'[h] = "idle"
    PROVE  Order'
<1>1. \A q \in Queue : ~Claims(NoCall, q)
  BY NoQueueAssumption DEF Claims, NoCall
<1>2. NoCall.queue = NoQueue /\ NoCall.todo = {} /\ "idle" \notin PushPc /\ UntilOK("idle", NoCall)
  BY DEF NoCall, PushPc, UntilOK, SubmitPc
<1> QED BY <1>1, <1>2, HostOrder DEF Return

(* ... the queue thread *)

LEMMA OrderThreadSleep ==
    ASSUME TypeOK, Order, NEW q \in Queue, ThreadSleep(q)
    PROVE  Order'
<1>1. \A p \in Queue : InThread(p)' <=> InThread(p)
  BY DEF InThread, TypeOK, ThreadSleep
<1>2. \A g \in Host : rpc'[g] = rpc[g]
  BY QueueStateAssumption DEF TypeOK, ThreadSleep, Actor
<1> QED BY <1>1, <1>2, ThreadOrder DEF ThreadSleep

LEMMA OrderThreadExit ==
    ASSUME TypeOK, Order, NEW q \in Queue, ThreadExit(q)
    PROVE  Order'
<1>1. \A p \in Queue : InThread(p)' <=> InThread(p)
  BY DEF InThread, TypeOK, ThreadExit
<1>2. \A g \in Host : rpc'[g] = rpc[g]
  BY QueueStateAssumption DEF TypeOK, ThreadExit, Actor
<1> QED BY <1>1, <1>2, ThreadOrder DEF ThreadExit

LEMMA OrderThreadEndUse ==
    ASSUME TypeOK, Order, NEW q \in Queue, ThreadEndUse(q)
    PROVE  Order'
<1>1. \A p \in Queue : InThread(p)' <=> InThread(p)
  BY DEF InThread, TypeOK, ThreadEndUse
<1>2. \A g \in Host : rpc'[g] = rpc[g]
  BY QueueStateAssumption DEF TypeOK, ThreadEndUse, Actor
<1> QED BY <1>1, <1>2, ThreadOrder DEF ThreadEndUse

LEMMA OrderThreadRetireSemaphore ==
    ASSUME TypeOK, Order, NEW q \in Queue, ThreadRetireSemaphore(q)
    PROVE  Order'
<1>1. \A p \in Queue : InThread(p)' <=> InThread(p)
  BY DEF InThread, TypeOK, ThreadRetireSemaphore
<1>2. \A g \in Host : rpc'[g] = rpc[g]
  BY QueueStateAssumption DEF TypeOK, ThreadRetireSemaphore, Actor
<1> QED BY <1>1, <1>2, ThreadOrder DEF ThreadRetireSemaphore

LEMMA OrderThreadLoopDone ==
    ASSUME TypeOK, Order, NEW q \in Queue, ThreadLoopDone(q)
    PROVE  Order'
<1>1. \A p \in Queue : InThread(p)' <=> InThread(p)
  BY DEF InThread, TypeOK, ThreadLoopDone
<1>2. \A g \in Host : rpc'[g] = rpc[g]
  BY QueueStateAssumption DEF TypeOK, ThreadLoopDone, Actor
<1> QED BY <1>1, <1>2, ThreadOrder DEF ThreadLoopDone

LEMMA OrderThreadRetireCbs ==
    ASSUME TypeOK, Order, NEW q \in Queue, ThreadRetireCbs(q)
    PROVE  Order'
<1>1. \A p \in Queue : InThread(p)' <=> InThread(p)
  BY DEF InThread, TypeOK, ThreadRetireCbs
<1>2. \A g \in Host : rpc'[g] = rpc[g]
  BY QueueStateAssumption DEF TypeOK, ThreadRetireCbs, Actor
<1> QED BY <1>1, <1>2, ThreadOrder DEF ThreadRetireCbs

LEMMA OrderThreadRetireFence ==
    ASSUME TypeOK, Order, NEW q \in Queue, ThreadRetireFence(q)
    PROVE  Order'
<1>1. \A p \in Queue : InThread(p)' <=> InThread(p)
  BY DEF InThread, TypeOK, ThreadRetireFence
<1>2. \A g \in Host : rpc'[g] = rpc[g]
  BY QueueStateAssumption DEF TypeOK, ThreadRetireFence, Actor
<1> QED BY <1>1, <1>2, ThreadOrder DEF ThreadRetireFence

LEMMA OrderThreadPop ==
    ASSUME TypeOK, Order, NEW q \in Queue, ThreadPop(q)
    PROVE  Order'
<1> DEFINE s == submissions_[q]
<1>1. s \in Seq(CB_SUBMISSION) /\ s # << >>
  BY DEF TypeOK, ThreadPop, NothingToRetire
<1>2. /\ Len(s) \in Nat /\ Len(s) >= 1
      /\ Head(s) = s[1]
      /\ Len(Tail(s)) = Len(s) - 1
      /\ \A i \in 1..Len(Tail(s)) : Tail(s)[i] = s[i + 1]
  BY <1>1, HeadTailProperties, EmptySeq, LenProperties
<1>3. ~InThread(q) /\ InThread(q)' /\ tcur'[q] = Head(s) /\ submissions_'[q] = Tail(s)
  BY DEF InThread, TypeOK, ThreadPop
<1>4. \A p \in Queue : p # q => /\ InThread(p)' <=> InThread(p)
                               /\ tcur'[p] = tcur[p] /\ submissions_'[p] = submissions_[p]
  BY DEF InThread, TypeOK, ThreadPop
<1>5. done_' = done_ /\ seq_' = seq_ /\ hpc' = hpc /\ call' = call /\ rpc' = rpc
  BY DEF ThreadPop
<1>6. Popped(q) = done_[q] /\ Popped(q)' = Head(s).seq /\ \A p \in Queue : p # q => Popped(p)' = Popped(p)
  BY <1>3, <1>4, <1>5 DEF Popped
<1>7. Head(s).seq = done_[q] + 1 /\ done_[q] \in Nat
  BY <1>2, <1>6 DEF Order, Numbering, TypeOK
<1>8. \A p \in Queue : Pushing(p)' <=> Pushing(p)
  BY <1>5 DEF Pushing
<1>9. \A p \in Queue : InThread(p)' => tcur'[p].seq = done_'[p] + 1
  BY <1>3, <1>4, <1>5, <1>7 DEF Order, Numbering
<1>10. \A p \in Queue : (Popped(p) + Len(submissions_[p]) + (IF Pushing(p) THEN 1 ELSE 0) = seq_[p])'
  <2>1. (Popped(q) + Len(submissions_[q]) + (IF Pushing(q) THEN 1 ELSE 0) = seq_[q])'
    <3>1. done_[q] + Len(s) + (IF Pushing(q) THEN 1 ELSE 0) = seq_[q]
      BY <1>6 DEF Order, Numbering
    <3>2. Popped(q)' + Len(submissions_[q])' = done_[q] + Len(s)
      BY <1>2, <1>3, <1>6, <1>7
    <3> QED BY <1>5, <1>8, <3>1, <3>2
  <2>2. \A p \in Queue : p # q => (Popped(p) + Len(submissions_[p]) + (IF Pushing(p) THEN 1 ELSE 0) = seq_[p])'
    BY <1>4, <1>5, <1>6, <1>8 DEF Order, Numbering
  <2> QED BY <2>1, <2>2
<1>11. \A p \in Queue : \A i \in 1..Len(submissions_'[p]) : submissions_'[p][i].seq = Popped(p)' + i
  <2>1. ASSUME NEW i \in 1..Len(Tail(s)) PROVE Tail(s)[i].seq = Popped(q)' + i
    <3>1. i \in Nat /\ i + 1 \in 1..Len(s) /\ Tail(s)[i] = s[i + 1]
      BY <1>2
    <3>2. s[i + 1].seq = done_[q] + (i + 1)
      BY <1>6, <3>1 DEF Order, Numbering
    <3>3. Popped(q)' + i = done_[q] + (i + 1)
      BY <1>6, <1>7, <3>1
    <3>4. Tail(s)[i].seq = s[i + 1].seq
      BY <3>1
    <3> QED BY <3>2, <3>3, <3>4, Zenon
  <2>2. \A i \in 1..Len(submissions_'[q]) : submissions_'[q][i].seq = Popped(q)' + i
    BY <1>3, <2>1, Zenon
  <2>3. \A p \in Queue : p # q => \A i \in 1..Len(submissions_'[p]) : submissions_'[p][i].seq = Popped(p)' + i
    BY <1>4, <1>6 DEF Order, Numbering
  <2> QED BY <2>2, <2>3
<1>12. Numbering'
  BY <1>5, <1>9, <1>10, <1>11 DEF Order, Numbering
<1> QED BY <1>5, <1>12 DEF Order, QueueExclusive, Claims, UntilBounded, UntilOK, HostRetires

LEMMA OrderThreadComplete ==
    ASSUME TypeOK, Order, NEW q \in Queue, ThreadComplete(q)
    PROVE  Order'
<1>1. InThread(q) /\ ~InThread(q)' /\ done_'[q] = tcur[q].seq
  BY DEF InThread, TypeOK, ThreadComplete
<1>2. \A p \in Queue : p # q => (InThread(p)' <=> InThread(p)) /\ done_'[p] = done_[p]
  BY DEF InThread, TypeOK, ThreadComplete
<1>3. tcur' = tcur /\ submissions_' = submissions_ /\ seq_' = seq_ /\ hpc' = hpc /\ call' = call /\ rpc' = rpc
  BY DEF ThreadComplete
<1>4. \A p \in Queue : Popped(p)' = Popped(p) /\ (Pushing(p)' <=> Pushing(p))
  BY <1>1, <1>2, <1>3 DEF Popped, Pushing
<1>5. Numbering'
  BY <1>1, <1>2, <1>3, <1>4 DEF Order, Numbering
<1> QED BY <1>3, <1>5 DEF Order, QueueExclusive, Claims, UntilBounded, UntilOK, HostRetires

(* ... SEMAPHORE_STATE::Retire() *)

LEMMA OrderRetireAtOnce ==
    ASSUME TypeOK, Order, NEW a \in Actor, RetireAtOnce(a)
    PROVE  Order'
<1> DEFINE s == frame[a].semaphore
           op == Head(sem[s].operations)
<1>1. s \in Sem /\ sem[s] \in SemRecord /\ sem[s].operations # << >>
  BY DEF TypeOK, RetireAtOnce, Frame, RetireCovers
<1>2. op \in SemOp
  BY <1>1, SemTypes
<1>3. \A q \in Queue : InThread(q)' <=> InThread(q)
  <2>1. CASE op.queue = NoQueue
    BY <2>1 DEF RetireAtOnce, InThread
  <2>2. CASE op.queue # NoQueue
    <3>1. op.queue \in Queue
      BY <1>2, <2>2 DEF SemOp
    <3> QED BY <2>2, <3>1, NotifyInThread DEF RetireAtOnce
  <2> QED BY <2>1, <2>2
<1> QED BY <1>3, ThreadOrder DEF RetireAtOnce

LEMMA OrderRetireWaitOther ==
    ASSUME TypeOK, Order, NEW a \in Actor, RetireWaitOther(a)
    PROVE  Order'
<1> DEFINE s == frame[a].semaphore
           op == Head(sem[s].operations)
<1>1. s \in Sem /\ sem[s] \in SemRecord /\ sem[s].operations # << >>
  BY DEF TypeOK, RetireWaitOther, Frame, RetireCovers
<1>2. op \in SemOp
  BY <1>1, SemTypes
<1>3. op.queue \in Queue
  BY <1>2 DEF SemOp, RetireWaitOther, RetiresAtOnce
<1>4. \A q \in Queue : InThread(q)' <=> InThread(q)
  BY <1>3, NotifyInThread DEF RetireWaitOther
<1>5. Numbering' /\ QueueExclusive' /\ UntilBounded'
  <2>1. \A q \in Queue : (Pushing(q)' <=> Pushing(q)) /\ Popped(q)' = Popped(q)
    BY <1>4 DEF Popped, Pushing, RetireWaitOther
  <2>2. UNCHANGED <<seq_, submissions_, tcur, done_, hpc, call>>
    BY DEF RetireWaitOther
  <2>3. Numbering'
    BY <1>4, <2>1, <2>2 DEF Order, Numbering
  <2>4. QueueExclusive' /\ UntilBounded'
    BY <2>2 DEF Order, QueueExclusive, Claims, UntilBounded, UntilOK
  <2> QED BY <2>3, <2>4
<1>6. HostRetires'
  BY DEF Order, HostRetires, RetireWaitOther, TypeOK
<1> QED BY <1>5, <1>6 DEF Order

LEMMA OrderRetireResume ==
    ASSUME TypeOK, Order, NEW a \in Actor, RetireResume(a)
    PROVE  Order'
<1>1. \A q \in Queue : (InThread(q)' <=> InThread(q)) /\ (Pushing(q)' <=> Pushing(q)) /\ Popped(q)' = Popped(q)
  BY DEF InThread, Popped, Pushing, RetireResume
<1>2. Numbering' /\ QueueExclusive' /\ UntilBounded'
  BY <1>1 DEF Order, QueueExclusive, Claims, Numbering, UntilBounded, UntilOK, RetireResume
<1>3. HostRetires'
  BY DEF Order, HostRetires, RetireResume, TypeOK
<1> QED BY <1>2, <1>3 DEF Order

LEMMA OrderRetireTimelineBegin ==
    ASSUME TypeOK, Order, NEW h \in Host, RetireTimelineBegin(h)
    PROVE  Order'
<1>1. \A q \in Queue : (InThread(q)' <=> InThread(q)) /\ (Pushing(q)' <=> Pushing(q)) /\ Popped(q)' = Popped(q)
  BY DEF InThread, Popped, Pushing, RetireTimelineBegin
<1>2. Numbering' /\ QueueExclusive' /\ UntilBounded'
  BY <1>1 DEF Order, QueueExclusive, Claims, Numbering, UntilBounded, UntilOK, RetireTimelineBegin
<1>3. HostRetires'
  BY DEF Order, HostRetires, RetireTimelineBegin, TypeOK
<1> QED BY <1>2, <1>3 DEF Order

LEMMA OrderRetireEnd ==
    ASSUME TypeOK, Order, NEW a \in Actor, RetireEnd(a)
    PROVE  Order'
<1>1. \A q \in Queue : InThread(q)' <=> InThread(q)
  BY DEF InThread, RetireEnd
<1>2. CASE a \in Queue
  <2>1. \A g \in Host : rpc'[g] = rpc[g]
    BY <1>2, QueueStateAssumption DEF TypeOK, RetireEnd, Actor
  <2> QED BY <1>1, <1>2, <2>1, ThreadOrder DEF RetireEnd
<1>3. CASE a \notin Queue
  <2>1. a \in Host /\ hpc[a] = "sretire"
    BY <1>3 DEF Actor, RetireEnd, Order, HostRetires
  <2>2. rpc'[a] = "idle" /\ \A g \in Host : rpc'[g] # "idle" => rpc[g] # "idle"
    BY DEF TypeOK, RetireEnd, Actor
  <2> QED BY <1>1, <1>3, <2>1, <2>2, ReturnOrder DEF RetireEnd, PushPc
<1> QED BY <1>2, <1>3

(* ... the host threads *)

\* A call about queues starts: each of them is free.
LEMMA StartOrder ==
    ASSUME TypeOK, Order, NEW h \in Host, NEW pc \in QueuePc \ PushPc, NEW c \in Call,
           hpc[h] = "idle", hpc' = [hpc EXCEPT ![h] = pc], call' = [call EXCEPT ![h] = c],
           c.queue \notin c.todo, UntilOK(pc, c),
           \A q \in Queue : Claims(c, q) => \A g \in Host : g # h => ~Claims(call[g], q),
           seq_' = seq_, submissions_' = submissions_, tpc' = tpc, tcur' = tcur, done_' = done_, rpc' = rpc
    PROVE  Order'
<1>1. \A q \in Queue : InThread(q)' <=> InThread(q)
  BY DEF InThread
<1>2. hpc[h] \notin PushPc /\ hpc[h] # "sretire"
  BY DEF PushPc
<1> QED BY <1>1, <1>2, HostOrder

LEMMA OrderQueueSubmit ==
    ASSUME TypeOK, Order, NEW h \in Host, NEW q \in Queue, NEW bs \in Calls[q], QueueSubmit(h, q, bs)
    PROVE  Order'
<1> DEFINE c == [NoCall EXCEPT !.queue = q, !.batches = bs]
<1>1. bs \in Seq(CB_SUBMISSION)
  BY QueueStateAssumption
<1>2. c \in Call /\ c.queue = q /\ c.todo = {} /\ c.early = 0
  BY <1>1, NoCallType DEF Call, NoCall
<1>3. "driver" \in QueuePc \ PushPc /\ UntilOK("driver", c)
  BY <1>2 DEF HostPc, SemaphorePc, QueuePc, SubmitPc, IdlePc, PushPc, UntilOK, TypeOK
<1>4. \A p \in Queue : Claims(c, p) => \A g \in Host : g # h => ~Claims(call[g], p)
  BY <1>2 DEF Claims, QueueSubmit, QueueFree
<1> QED BY <1>2, <1>3, <1>4, StartOrder DEF QueueSubmit

LEMMA OrderQueueWaitIdle ==
    ASSUME TypeOK, Order, NEW h \in Host, NEW q \in Queue, QueueWaitIdle(h, q)
    PROVE  Order'
<1> DEFINE c == [NoCall EXCEPT !.queue = q, !.until = AllSeq]
<1>1. c \in Call /\ c.queue = q /\ c.todo = {} /\ c.until = AllSeq
  BY NoCallType, AllSeqType DEF Call, NoCall
<1>2. "qnotify" \in QueuePc \ PushPc /\ UntilOK("qnotify", c)
  BY <1>1 DEF HostPc, SemaphorePc, QueuePc, SubmitPc, IdlePc, PushPc, UntilOK
<1>3. \A p \in Queue : Claims(c, p) => \A g \in Host : g # h => ~Claims(call[g], p)
  BY <1>1 DEF Claims, QueueWaitIdle, QueueFree
<1> QED BY <1>1, <1>2, <1>3, StartOrder DEF QueueWaitIdle

LEMMA OrderDeviceWaitIdle ==
    ASSUME TypeOK, Order, NEW h \in Host, NEW first \in Queue, DeviceWaitIdle(h, first)
    PROVE  Order'
<1> DEFINE c == [NoCall EXCEPT !.queue = first, !.todo = Queue \ {first}, !.until = AllSeq]
<1>1. c \in Call /\ c.queue = first /\ c.todo = Queue \ {first} /\ c.until = AllSeq
  BY NoCallType, AllSeqType DEF Call, NoCall
<1>2. "qnotify" \in QueuePc \ PushPc /\ UntilOK("qnotify", c)
  BY <1>1 DEF HostPc, SemaphorePc, QueuePc, SubmitPc, IdlePc, PushPc, UntilOK
<1>3. \A p \in Queue : Claims(c, p) => \A g \in Host : g # h => ~Claims(call[g], p)
  BY <1>1 DEF Claims, DeviceWaitIdle, QueueFree
<1>4. /\ hpc[h] = "idle" /\ hpc' = [hpc EXCEPT ![h] = "qnotify"] /\ call' = [call EXCEPT ![h] = c]
      /\ seq_' = seq_ /\ submissions_' = submissions_ /\ tpc' = tpc /\ tcur' = tcur /\ done_' = done_ /\ rpc' = rpc
  BY DEF DeviceWaitIdle
<1>5. c.queue \notin c.todo
  BY <1>1
<1> HIDE DEF c
<1> QED BY <1>1, <1>2, <1>3, <1>4, <1>5, StartOrder

LEMMA OrderDestroyDevice ==
    ASSUME TypeOK, Order, NEW h \in Host, NEW first \in Queue, DestroyDevice(h, first)
    PROVE  Order'
<1> DEFINE c == [NoCall EXCEPT !.queue = first, !.todo = Queue \ {first}]
<1>1. c \in Call /\ c.queue = first /\ c.todo = Queue \ {first}
  BY NoCallType DEF Call, NoCall
<1>2. "qexit" \in QueuePc \ PushPc /\ UntilOK("qexit", c)
  BY <1>1 DEF HostPc, SemaphorePc, QueuePc, SubmitPc, IdlePc, PushPc, UntilOK
<1>3. \A g \in Host : call[g].queue = NoQueue /\ call[g].todo = {}
  BY DEF DestroyDevice, Order, QueueExclusive, HostPc, SemaphorePc, QueuePc, SubmitPc, IdlePc
<1>4. \A p \in Queue : Claims(c, p) => \A g \in Host : g # h => ~Claims(call[g], p)
  BY <1>3, NoQueueAssumption DEF Claims
<1> QED BY <1>1, <1>2, <1>4, StartOrder DEF DestroyDevice

\* A call about queues goes on with the same queues.
LEMMA KeepOrder ==
    ASSUME TypeOK, Order, NEW h \in Host, NEW pc \in QueuePc, NEW c \in Call, hpc[h] \in QueuePc,
           hpc' = [hpc EXCEPT ![h] = pc], call' = [call EXCEPT ![h] = c],
           c.queue = call[h].queue, c.todo = call[h].todo, UntilOK(pc, c),
           pc \in PushPc <=> hpc[h] \in PushPc,
           pc \in PushPc => c.sub.seq = call[h].sub.seq,
           \A q \in Queue : InThread(q)' <=> InThread(q),
           seq_' = seq_, submissions_' = submissions_, tcur' = tcur, done_' = done_, rpc' = rpc
    PROVE  Order'
<1>1. \A q \in Queue : Claims(c, q) => \A g \in Host : g # h => ~Claims(call[g], q)
  BY DEF Order, QueueExclusive, Claims
<1>2. c.queue \notin c.todo
  BY DEF Order, QueueExclusive
<1>3. hpc[h] # "sretire"
  BY DEF HostPc, SemaphorePc, QueuePc, SubmitPc, IdlePc
<1> QED BY <1>1, <1>2, <1>3, HostOrder

LEMMA OrderDriverAccept ==
    ASSUME TypeOK, Order, NEW h \in Host, DriverAccept(h)
    PROVE  Order'
<1>1. call[h] \in Call /\ call[h].idx \in Nat /\ UntilOK("driver", call[h])
  BY DEF TypeOK, DriverAccept, Order, UntilBounded, Call
<1>2. ASSUME NEW i \in Nat
      PROVE  /\ [call[h] EXCEPT !.idx = i] \in Call
             /\ UntilOK("driver", [call[h] EXCEPT !.idx = i]) /\ UntilOK("cbs", [call[h] EXCEPT !.idx = i])
             /\ [call[h] EXCEPT !.idx = i].queue = call[h].queue /\ [call[h] EXCEPT !.idx = i].todo = call[h].todo
  BY <1>1 DEF Call, UntilOK, SubmitPc
<1>3. \A q \in Queue : InThread(q)' <=> InThread(q)
  BY DEF InThread, DriverAccept
<1>4. \E i \in Nat : call' = [call EXCEPT ![h] = [call[h] EXCEPT !.idx = i]]
  <2>1. \/ call' = [call EXCEPT ![h] = [call[h] EXCEPT !.idx = 0]]
        \/ call' = [call EXCEPT ![h] = [call[h] EXCEPT !.idx = call[h].idx + 1]]
    <3>1. \/ call' = [call EXCEPT ![h].idx = 0]
          \/ call' = [call EXCEPT ![h].idx = @ + 1]
      BY DEF DriverAccept
    <3>2. call \in [Host -> Call]
      BY DEF TypeOK
    <3> QED BY <3>1, <3>2
  <2>2. 0 \in Nat /\ call[h].idx + 1 \in Nat
    BY <1>1
  <2> QED BY <2>1, <2>2
<1>5. \E pc \in {"driver", "cbs"} : hpc' = [hpc EXCEPT ![h] = pc]
  BY DEF DriverAccept, TypeOK
<1>6. "driver" \in QueuePc /\ "cbs" \in QueuePc /\ "driver" \notin PushPc /\ "cbs" \notin PushPc /\ hpc[h] = "driver"
  BY DEF DriverAccept, QueuePc, SubmitPc, PushPc
<1>7. seq_' = seq_ /\ submissions_' = submissions_ /\ tcur' = tcur /\ done_' = done_ /\ rpc' = rpc
  BY DEF DriverAccept
<1>8. PICK i \in Nat, pc \in {"driver", "cbs"} : /\ call' = [call EXCEPT ![h] = [call[h] EXCEPT !.idx = i]]
                                                 /\ hpc' = [hpc EXCEPT ![h] = pc]
  BY <1>4, <1>5
<1>9. PICK c \in Call : c = [call[h] EXCEPT !.idx = i]
  BY <1>2
<1>10. c.queue = call[h].queue /\ c.todo = call[h].todo /\ UntilOK(pc, c)
  BY <1>2, <1>9
<1>11. call' = [call EXCEPT ![h] = c] /\ hpc[h] \in QueuePc /\ pc \in QueuePc /\ pc \notin PushPc /\ hpc[h] \notin PushPc
  BY <1>6, <1>8, <1>9
<1> QED BY <1>3, <1>7, <1>8, <1>10, <1>11, KeepOrder

LEMMA OrderSubmitCbs ==
    ASSUME TypeOK, Order, NEW h \in Host, SubmitCbs(h)
    PROVE  Order'
<1> DEFINE b == call[h].batches[1]
           c == [call[h] EXCEPT !.sub = b]
<1>1. call[h] \in Call /\ call[h].batches \in Seq(CB_SUBMISSION) /\ call[h].batches # << >>
  BY DEF TypeOK, SubmitCbs, SubmitPc, Call
<1>2. b \in CB_SUBMISSION
  BY <1>1, EmptySeq, LenProperties
<1>3. c \in Call /\ c.queue = call[h].queue /\ c.todo = call[h].todo /\ c.early = call[h].early
  BY <1>1, <1>2 DEF Call
<1>4. UntilOK("cbs", call[h])
  BY DEF SubmitCbs, Order, UntilBounded
<1>5. UntilOK("seq", c)
  BY <1>3, <1>4 DEF UntilOK, SubmitPc
<1>6. \A q \in Queue : InThread(q)' <=> InThread(q)
  BY DEF InThread, SubmitCbs
<1>7. call' = [call EXCEPT ![h] = c] /\ hpc[h] = "cbs" /\ hpc' = [hpc EXCEPT ![h] = "seq"]
  BY DEF SubmitCbs, TypeOK
<1>8. seq_' = seq_ /\ submissions_' = submissions_ /\ tcur' = tcur /\ done_' = done_ /\ rpc' = rpc
  BY DEF SubmitCbs
<1>9. "cbs" \in QueuePc /\ "seq" \in QueuePc /\ "cbs" \notin PushPc /\ "seq" \notin PushPc
  BY DEF QueuePc, SubmitPc, PushPc
<1> QED BY <1>3, <1>5, <1>6, <1>7, <1>8, <1>9, KeepOrder

LEMMA OrderSubmitWait ==
    ASSUME TypeOK, Order, NEW h \in Host, SubmitWait(h)
    PROVE  Order'
<1> DEFINE i == call[h].idx
           sub == call[h].sub
           w == sub.wait_semaphores[i]
           w2 == [w EXCEPT !.payload = OpPayload(sem[w.semaphore], w.semaphore \in BinarySem, w.payload)]
           sub2 == [sub EXCEPT !.wait_semaphores = [sub.wait_semaphores EXCEPT ![i] = w2]]
           c == [call[h] EXCEPT !.idx = call[h].idx + 1, !.sub = sub2]
<1>1. call[h] \in Call /\ sub \in CB_SUBMISSION
  BY DEF TypeOK, Call
<1>2. c.queue = call[h].queue /\ c.todo = call[h].todo /\ c.early = call[h].early /\ c.sub.seq = call[h].sub.seq
  BY <1>1 DEF Call, CB_SUBMISSION
<1>3. call' = [call EXCEPT ![h] = c] /\ hpc[h] = "enqueue" /\ hpc' = [hpc EXCEPT ![h] = "enqueue"]
  <2>1. call' = WaitWritten(call, h, WaitAt(h), WaitPays(h))
    BY SubmitWaitWrites
  <2>2. call' = [call EXCEPT ![h] = c]
    BY <2>1 DEF WaitWritten, WaitAt, WaitPays
  <2>3. hpc \in [Host -> HostPc] /\ hpc[h] = "enqueue" /\ hpc' = hpc
    BY DEF SubmitWait, TypeOK
  <2>4. hpc' = [hpc EXCEPT ![h] = "enqueue"]
    BY <2>3
  <2> QED BY <2>2, <2>3, <2>4
<1>4. c \in Call
  <2>1. call' \in [Host -> Call]
    BY TypeSubmitWait DEF TypeOK
  <2>2. call'[h] = c
    BY <1>3 DEF TypeOK
  <2> QED BY <2>1, <2>2
<1>5. UntilOK("enqueue", call[h])
  BY <1>3 DEF Order, UntilBounded
<1> HIDE DEF c
<1>6. UntilOK("enqueue", c)
  BY <1>2, <1>5 DEF UntilOK, SubmitPc
<1>7. \A q \in Queue : InThread(q)' <=> InThread(q)
  BY DEF InThread, SubmitWait
<1>8. seq_' = seq_ /\ submissions_' = submissions_ /\ tcur' = tcur /\ done_' = done_ /\ rpc' = rpc
  BY DEF SubmitWait
<1>9. "enqueue" \in QueuePc
  BY DEF QueuePc, SubmitPc
<1> QED BY <1>2, <1>3, <1>4, <1>6, <1>7, <1>8, <1>9, KeepOrder

LEMMA OrderSubmitSignal ==
    ASSUME TypeOK, Order, NEW h \in Host, SubmitSignal(h)
    PROVE  Order'
<1> DEFINE i == call[h].idx - Len(call[h].sub.wait_semaphores)
           sub == call[h].sub
           w == sub.signal_semaphores[i]
           w2 == [w EXCEPT !.payload = OpPayload(sem[w.semaphore], w.semaphore \in BinarySem, w.payload)]
           sub2 == [sub EXCEPT !.signal_semaphores = [sub.signal_semaphores EXCEPT ![i] = w2]]
           c == [call[h] EXCEPT !.idx = call[h].idx + 1, !.sub = sub2]
<1>1. call[h] \in Call /\ sub \in CB_SUBMISSION
  BY DEF TypeOK, Call
<1>2. c.queue = call[h].queue /\ c.todo = call[h].todo /\ c.early = call[h].early /\ c.sub.seq = call[h].sub.seq
  BY <1>1 DEF Call, CB_SUBMISSION
<1>3. call' = [call EXCEPT ![h] = c] /\ hpc[h] = "enqueue" /\ hpc' = [hpc EXCEPT ![h] = "enqueue"]
  <2>1. call' = SignalWritten(call, h, SignalAt(h), SignalPays(h))
    BY SubmitSignalWrites
  <2>2. call' = [call EXCEPT ![h] = c]
    BY <2>1 DEF SignalWritten, SignalAt, SignalPays
  <2>3. hpc \in [Host -> HostPc] /\ hpc[h] = "enqueue" /\ hpc' = hpc
    BY DEF SubmitSignal, TypeOK
  <2>4. hpc' = [hpc EXCEPT ![h] = "enqueue"]
    BY <2>3
  <2> QED BY <2>2, <2>3, <2>4
<1>4. c \in Call
  <2>1. call' \in [Host -> Call]
    BY TypeSubmitSignal DEF TypeOK
  <2>2. call'[h] = c
    BY <1>3 DEF TypeOK
  <2> QED BY <2>1, <2>2
<1>5. UntilOK("enqueue", call[h])
  BY <1>3 DEF Order, UntilBounded
<1> HIDE DEF c
<1>6. UntilOK("enqueue", c)
  BY <1>2, <1>5 DEF UntilOK, SubmitPc
<1>7. \A q \in Queue : InThread(q)' <=> InThread(q)
  BY DEF InThread, SubmitSignal
<1>8. seq_' = seq_ /\ submissions_' = submissions_ /\ tcur' = tcur /\ done_' = done_ /\ rpc' = rpc
  BY DEF SubmitSignal
<1>9. "enqueue" \in QueuePc
  BY DEF QueuePc, SubmitPc
<1> QED BY <1>2, <1>3, <1>4, <1>6, <1>7, <1>8, <1>9, KeepOrder

LEMMA OrderSubmitFence ==
    ASSUME TypeOK, Order, NEW h \in Host, SubmitFence(h)
    PROVE  Order'
<1> DEFINE f == call[h].sub.fence
           c == [call[h] EXCEPT !.early = IF FenceRetiresEarly(fence[f]) THEN call[h].sub.seq ELSE call[h].early]
<1>1. call[h] \in Call /\ hpc[h] = "enqueue" /\ hpc' = [hpc EXCEPT ![h] = "push"]
  BY DEF TypeOK, SubmitFence
<1>2. call[h].sub.seq \in Nat /\ call[h].early \in Nat
  BY <1>1 DEF Call, CB_SUBMISSION
<1>3. c \in Call /\ c.queue = call[h].queue /\ c.todo = call[h].todo /\ c.sub = call[h].sub /\ c.early \in {call[h].sub.seq, call[h].early}
  BY <1>1, <1>2 DEF Call
<1>4. call' = [call EXCEPT ![h] = call[h]] \/ call' = [call EXCEPT ![h] = c]
  BY DEF SubmitFence, TypeOK
<1>5. call[h].queue \in Queue /\ seq_[call[h].queue] \in Nat
  BY <1>1 DEF TypeOK, QueuePc, SubmitPc
<1>6. call[h].early <= seq_[call[h].queue] /\ call[h].sub.seq = seq_[call[h].queue]
  BY <1>1 DEF Order, UntilBounded, UntilOK, SubmitPc, Numbering, PushPc
<1>7. UntilOK("push", c) /\ UntilOK("push", call[h])
  BY <1>3, <1>5, <1>6 DEF UntilOK, SubmitPc
<1>8. \A q \in Queue : InThread(q)' <=> InThread(q)
  BY DEF InThread, SubmitFence
<1>9. seq_' = seq_ /\ submissions_' = submissions_ /\ tcur' = tcur /\ done_' = done_ /\ rpc' = rpc
  BY DEF SubmitFence
<1>10. "enqueue" \in QueuePc /\ "push" \in QueuePc /\ "enqueue" \in PushPc /\ "push" \in PushPc
  BY DEF QueuePc, SubmitPc, PushPc
<1> HIDE DEF c
<1>11. CASE call' = [call EXCEPT ![h] = call[h]]
  BY <1>1, <1>7, <1>8, <1>9, <1>10, <1>11, KeepOrder
<1>12. CASE call' = [call EXCEPT ![h] = c]
  BY <1>1, <1>3, <1>7, <1>8, <1>9, <1>10, <1>12, KeepOrder
<1> QED BY <1>4, <1>11, <1>12

LEMMA OrderQueueNotify ==
    ASSUME TypeOK, Order, NEW h \in Host, QueueNotify(h)
    PROVE  Order'
<1> DEFINE q == call[h].queue
           until == IF call[h].until = AllSeq THEN seq_[q] ELSE call[h].until
           c == [call[h] EXCEPT !.until = until]
<1>1. call[h] \in Call /\ q \in Queue /\ hpc[h] = "qnotify"
  BY DEF TypeOK, QueueNotify, IdlePc, QueuePc
<1>2. until \in Nat /\ seq_[q] \in Nat
  BY <1>1 DEF Call, TypeOK
<1>3. c \in Call /\ c.queue = q /\ c.todo = call[h].todo /\ c.until = until
  BY <1>1, <1>2 DEF Call
<1>4. call' = [call EXCEPT ![h] = c] /\ hpc' = [hpc EXCEPT ![h] = "qwait"] /\ Notify(q, until)
  BY DEF QueueNotify, TypeOK
<1>5. call[h].until = AllSeq \/ call[h].until <= seq_[q]
  BY <1>1 DEF Order, UntilBounded, UntilOK
<1>6. UntilOK("qwait", c)
  BY <1>2, <1>3, <1>5 DEF UntilOK, SubmitPc
<1>7. \A p \in Queue : InThread(p)' <=> InThread(p)
  BY <1>1, <1>4, NotifyInThread
<1>8. seq_' = seq_ /\ submissions_' = submissions_ /\ tcur' = tcur /\ done_' = done_ /\ rpc' = rpc
  BY DEF QueueNotify
<1>9. "qnotify" \in QueuePc /\ "qwait" \in QueuePc /\ "qnotify" \notin PushPc /\ "qwait" \notin PushPc
  BY DEF QueuePc, IdlePc, PushPc
<1> HIDE DEF c
<1> QED BY <1>1, <1>3, <1>4, <1>6, <1>7, <1>8, <1>9, KeepOrder

LEMMA OrderDestroyNotify ==
    ASSUME TypeOK, Order, NEW h \in Host, DestroyNotify(h)
    PROVE  Order'
<1>1. call[h] \in Call /\ call[h].queue \in Queue /\ hpc[h] = "qexit" /\ hpc' = [hpc EXCEPT ![h] = "qjoin"] /\ call' = [call EXCEPT ![h] = call[h]]
  BY DEF TypeOK, DestroyNotify, QueuePc
<1>2. UntilOK("qjoin", call[h])
  BY DEF UntilOK, SubmitPc
<1>3. \A q \in Queue : InThread(q)' <=> InThread(q)
  BY <1>1 DEF InThread, DestroyNotify, Woken, TypeOK
<1>4. seq_' = seq_ /\ submissions_' = submissions_ /\ tcur' = tcur /\ done_' = done_ /\ rpc' = rpc
  BY DEF DestroyNotify
<1>5. "qexit" \in QueuePc /\ "qjoin" \in QueuePc /\ "qexit" \notin PushPc /\ "qjoin" \notin PushPc
  BY DEF QueuePc, PushPc
<1> QED BY <1>1, <1>2, <1>3, <1>4, <1>5, KeepOrder

LEMMA OrderSubmitSeq ==
    ASSUME TypeOK, Order, NEW h \in Host, SubmitSeq(h)
    PROVE  Order'
<1>0. PICK q \in Queue : q = call[h].queue
  BY DEF TypeOK, SubmitSeq, SubmitPc, QueuePc
<1> DEFINE sub2 == [call[h].sub EXCEPT !.seq = seq_[q] + 1]
           c == [call[h] EXCEPT !.sub = sub2, !.idx = 1]
<1>1. call[h] \in Call /\ q \in Queue /\ call[h].sub \in CB_SUBMISSION /\ seq_[q] \in Nat /\ call[h].early \in Nat
  BY <1>0 DEF TypeOK, Call
<1>2. c.queue = q /\ c.todo = call[h].todo /\ c.early = call[h].early /\ c.sub.seq = seq_[q] + 1
  BY <1>0, <1>1 DEF Call, CB_SUBMISSION
<1>3. call' = [call EXCEPT ![h] = c] /\ hpc[h] = "seq" /\ hpc' = [hpc EXCEPT ![h] = "enqueue"]
  BY <1>0 DEF SubmitSeq, TypeOK
<1> HIDE DEF c
<1>4. hpc'[h] = "enqueue" /\ call'[h] = c /\ \A g \in Host : g # h => hpc'[g] = hpc[g] /\ call'[g] = call[g]
  BY <1>3 DEF TypeOK
<1>5. seq_' = [seq_ EXCEPT ![q] = seq_[q] + 1] /\ submissions_' = submissions_ /\ tpc' = tpc /\ tcur' = tcur /\ done_' = done_ /\ rpc' = rpc
  BY <1>0 DEF SubmitSeq
<1>6. seq_'[q] = seq_[q] + 1 /\ \A p \in Queue : p # q => seq_'[p] = seq_[p]
  BY <1>1, <1>5 DEF TypeOK
<1>7. \A g \in Host : g # h => ~Claims(call[g], q) /\ call[g].queue # q
  BY <1>0 DEF Order, QueueExclusive, Claims
<1>8. ~Pushing(q) /\ Pushing(q)' /\ \A p \in Queue : p # q => (Pushing(p)' <=> Pushing(p))
  <2>1. ~Pushing(q)
    BY <1>0, <1>3, <1>7 DEF Pushing, PushPc
  <2>2. Pushing(q)'
    BY <1>2, <1>4 DEF Pushing, PushPc
  <2>3. ASSUME NEW p \in Queue, p # q PROVE Pushing(p)' <=> Pushing(p)
    BY <1>0, <1>2, <1>3, <1>4, <2>3 DEF Pushing
  <2> QED BY <2>1, <2>2, <2>3
<1>9. \A p \in Queue : (InThread(p)' <=> InThread(p)) /\ Popped(p)' = Popped(p)
  BY <1>5 DEF InThread, Popped
<1>10. Numbering'
  <2>1. \A p \in Queue : (InThread(p) => tcur[p].seq = done_[p] + 1)'
    BY <1>5, <1>9 DEF Order, Numbering
  <2>2. (Popped(q) + Len(submissions_[q]) + (IF Pushing(q) THEN 1 ELSE 0) = seq_[q])'
    <3>1. Popped(q) + Len(submissions_[q]) + 0 = seq_[q]
      BY <1>1, <1>8 DEF Order, Numbering
    <3>2. Popped(q) \in Nat /\ Len(submissions_[q]) \in Nat
      BY <1>1, LenProperties DEF TypeOK, Popped, CB_SUBMISSION
    <3> QED BY <1>1, <1>5, <1>6, <1>8, <1>9, <3>1, <3>2
  <2>3. \A p \in Queue : p # q => (Popped(p) + Len(submissions_[p]) + (IF Pushing(p) THEN 1 ELSE 0) = seq_[p])'
    BY <1>5, <1>6, <1>8, <1>9 DEF Order, Numbering
  <2>4. \A p \in Queue : \A i \in 1..Len(submissions_'[p]) : submissions_'[p][i].seq = Popped(p)' + i
    BY <1>5, <1>9 DEF Order, Numbering
  <2>5. ASSUME NEW g \in Host, hpc'[g] \in PushPc PROVE call'[g].sub.seq = seq_'[call'[g].queue]
    <3>1. CASE g = h
      BY <1>2, <1>4, <1>6, <3>1
    <3>2. CASE g # h
      <4>1. hpc[g] \in PushPc /\ call'[g] = call[g] /\ call[g].queue # q
        BY <1>4, <1>7, <2>5, <3>2
      <4>2. call[g].queue \in Queue
        BY <4>1 DEF TypeOK, PushPc, QueuePc, SubmitPc
      <4> QED BY <1>6, <4>1, <4>2 DEF Order, Numbering
    <3> QED BY <3>1, <3>2
  <2> QED BY <2>1, <2>2, <2>3, <2>4, <2>5 DEF Numbering
<1>11. QueueExclusive'
  <2>1. \A g \in Host : call'[g].queue = call[g].queue /\ call'[g].todo = call[g].todo
    BY <1>0, <1>2, <1>4
  <2>2. \A g \in Host : hpc'[g] \notin QueuePc => hpc[g] \notin QueuePc
    BY <1>4 DEF QueuePc, SubmitPc
  <2> QED BY <2>1, <2>2 DEF Order, QueueExclusive, Claims
<1>12. UntilBounded'
  <2>1. call[h].early <= seq_[q]
    BY <1>0, <1>3 DEF Order, UntilBounded, UntilOK, SubmitPc
  <2>2. UntilOK(hpc[h], call[h])'
    BY <1>1, <1>2, <1>4, <1>6, <2>1 DEF UntilOK, SubmitPc
  <2>3. ASSUME NEW g \in Host, g # h PROVE UntilOK(hpc[g], call[g])'
    <3>1. hpc'[g] = hpc[g] /\ call'[g] = call[g] /\ call[g].queue # q /\ UntilOK(hpc[g], call[g])
      BY <1>4, <1>7, <2>3 DEF Order, UntilBounded
    <3>2. hpc[g] \in {"qwait", "qblock", "qnotify"} \cup SubmitPc => call[g].queue \in Queue
      BY DEF TypeOK, QueuePc, IdlePc
    <3> QED BY <1>6, <3>1, <3>2 DEF UntilOK
  <2> QED BY <1>4, <2>2, <2>3 DEF UntilBounded
<1>13. HostRetires'
  BY <1>3, <1>4, <1>5 DEF Order, HostRetires
<1> QED BY <1>10, <1>11, <1>12, <1>13 DEF Order

LEMMA OrderSubmitPush ==
    ASSUME TypeOK, Order, NEW h \in Host, SubmitPush(h)
    PROVE  Order'
<1>0. PICK q \in Queue : q = call[h].queue
  BY DEF TypeOK, SubmitPush, SubmitPc, QueuePc
<1>1. call[h] \in Call /\ q = call[h].queue /\ hpc[h] = "push"
  BY <1>0 DEF TypeOK, SubmitPush
<1> DEFINE s == submissions_[q]
<1>2. call[h].sub \in CB_SUBMISSION /\ s \in Seq(CB_SUBMISSION) /\ call[h].early \in Nat
  BY <1>1 DEF Call, TypeOK
<1>3. /\ submissions_'[q] = Append(s, call[h].sub)
      /\ \A p \in Queue : p # q => submissions_'[p] = submissions_[p]
      /\ seq_' = seq_ /\ tcur' = tcur /\ done_' = done_ /\ rpc' = rpc
  BY <1>1 DEF SubmitPush, TypeOK
<1>4. PICK pc \in QueuePc \cup {"idle"}, c \in Call :
         /\ hpc' = [hpc EXCEPT ![h] = pc] /\ call' = [call EXCEPT ![h] = c]
         /\ pc \notin PushPc
         /\ c.queue = q \/ (pc = "idle" /\ c.queue = NoQueue)
         /\ c.todo = {} \/ c.todo = call[h].todo
         /\ pc = "idle" => c.todo = {} /\ c.queue = NoQueue
         /\ UntilOK(pc, c)
  <2>1. CASE Len(call[h].batches) > 1
    <3> DEFINE d == [call[h] EXCEPT !.batches = Tail(call[h].batches)]
    <3>1. hpc' = [hpc EXCEPT ![h] = "cbs"] /\ call' = [call EXCEPT ![h] = d]
      BY <2>1 DEF SubmitPush, TypeOK
    <3>2. Tail(call[h].batches) \in Seq(CB_SUBMISSION)
      BY <1>1, HeadTailProperties DEF Call, TypeOK, SubmitPc
    <3>3. d \in Call /\ d.queue = q /\ d.todo = call[h].todo /\ d.early = call[h].early
      BY <1>1, <3>2 DEF Call
    <3>4. UntilOK("cbs", d)
      BY <1>1, <3>3 DEF Order, UntilBounded, UntilOK, SubmitPc
    <3>5. "cbs" \in QueuePc /\ "cbs" \notin PushPc
      BY DEF QueuePc, SubmitPc, PushPc
    <3> HIDE DEF d
    <3> QED BY <3>1, <3>3, <3>4, <3>5
  <2>2. CASE ~(Len(call[h].batches) > 1) /\ call[h].early > 0
    <3> DEFINE d == [NoCall EXCEPT !.queue = q, !.until = call[h].early]
    <3>1. hpc' = [hpc EXCEPT ![h] = "qnotify"] /\ call' = [call EXCEPT ![h] = d]
      BY <1>1, <2>2 DEF SubmitPush
    <3>2. d \in Call /\ d.queue = q /\ d.todo = {} /\ d.until = call[h].early
      BY <1>1, <1>2, NoCallType DEF Call, NoCall
    <3>3. UntilOK("qnotify", d)
      BY <1>1, <3>2 DEF Order, UntilBounded, UntilOK, SubmitPc
    <3>4. "qnotify" \in QueuePc /\ "qnotify" \notin PushPc
      BY DEF QueuePc, IdlePc, PushPc
    <3> HIDE DEF d
    <3> QED BY <3>1, <3>2, <3>3, <3>4
  <2>3. CASE ~(Len(call[h].batches) > 1) /\ ~(call[h].early > 0)
    <3>1. hpc' = [hpc EXCEPT ![h] = "idle"] /\ call' = [call EXCEPT ![h] = NoCall]
      BY <2>3 DEF SubmitPush, Return
    <3>2. NoCall.queue = NoQueue /\ NoCall.todo = {} /\ "idle" \notin PushPc /\ UntilOK("idle", NoCall)
      BY DEF NoCall, PushPc, UntilOK, SubmitPc
    <3> QED BY <3>1, <3>2, NoCallType
  <2> QED BY <2>1, <2>2, <2>3
<1>5. hpc'[h] = pc /\ call'[h] = c /\ \A g \in Host : g # h => hpc'[g] = hpc[g] /\ call'[g] = call[g]
  BY <1>4 DEF TypeOK
<1>6. \A g \in Host : g # h => ~Claims(call[g], q) /\ call[g].queue # q
  BY <1>1 DEF Order, QueueExclusive, Claims
<1>7. Pushing(q) /\ ~Pushing(q)' /\ \A p \in Queue : p # q => (Pushing(p)' <=> Pushing(p))
  <2>1. Pushing(q)
    BY <1>1 DEF Pushing, PushPc
  <2>2. ~Pushing(q)'
    BY <1>4, <1>5, <1>6 DEF Pushing
  <2>3. ASSUME NEW p \in Queue, p # q PROVE Pushing(p)' <=> Pushing(p)
    BY <1>1, <1>4, <1>5, <2>3 DEF Pushing
  <2> QED BY <2>1, <2>2, <2>3
<1>8. \A p \in Queue : (InThread(p)' <=> InThread(p)) /\ Popped(p)' = Popped(p)
  <2>1. \A p \in Queue : InThread(p)' <=> InThread(p)
    BY <1>1 DEF InThread, SubmitPush, TypeOK
  <2> QED BY <1>3, <2>1 DEF Popped
<1>9. /\ Len(s) \in Nat /\ Len(submissions_'[q]) = Len(s) + 1
      /\ \A i \in 1..Len(s) : submissions_'[q][i] = s[i]
      /\ submissions_'[q][Len(s) + 1] = call[h].sub
  BY <1>2, <1>3, AppendProperties, LenProperties
<1>10. Popped(q) \in Nat /\ Popped(q) + Len(s) + 1 = seq_[q] /\ call[h].sub.seq = seq_[q]
  <2>1. Popped(q) \in Nat
    BY <1>1 DEF TypeOK, Popped, CB_SUBMISSION
  <2> QED BY <1>1, <1>7, <2>1 DEF Order, Numbering, PushPc
<1>11. Numbering'
  <2>1. \A p \in Queue : (InThread(p) => tcur[p].seq = done_[p] + 1)'
    BY <1>3, <1>8 DEF Order, Numbering
  <2>2. (Popped(q) + Len(submissions_[q]) + (IF Pushing(q) THEN 1 ELSE 0) = seq_[q])'
    BY <1>3, <1>7, <1>8, <1>9, <1>10
  <2>3. \A p \in Queue : p # q => (Popped(p) + Len(submissions_[p]) + (IF Pushing(p) THEN 1 ELSE 0) = seq_[p])'
    BY <1>3, <1>7, <1>8 DEF Order, Numbering
  <2>4. ASSUME NEW i \in 1..(Len(s) + 1) PROVE submissions_'[q][i].seq = Popped(q)' + i
    <3>1. CASE i \in 1..Len(s)
      BY <1>1, <1>8, <1>9, <3>1 DEF Order, Numbering
    <3>2. CASE i = Len(s) + 1
      BY <1>8, <1>9, <1>10, <3>2
    <3> QED BY <1>9, <3>1, <3>2
  <2>5. \A p \in Queue : \A i \in 1..Len(submissions_'[p]) : submissions_'[p][i].seq = Popped(p)' + i
    <3>1. \A i \in 1..Len(submissions_'[q]) : submissions_'[q][i].seq = Popped(q)' + i
      BY <1>9, <2>4
    <3>2. \A p \in Queue : p # q => \A i \in 1..Len(submissions_'[p]) : submissions_'[p][i].seq = Popped(p)' + i
      BY <1>3, <1>8 DEF Order, Numbering
    <3> QED BY <3>1, <3>2
  <2>6. \A g \in Host : hpc'[g] \in PushPc => call'[g].sub.seq = seq_'[call'[g].queue]
    BY <1>3, <1>4, <1>5 DEF Order, Numbering
  <2> QED BY <2>1, <2>2, <2>3, <2>5, <2>6 DEF Numbering
<1>12. QueueExclusive'
  <2>1. \A g \in Host : hpc'[g] \notin QueuePc => call'[g].queue = NoQueue /\ call'[g].todo = {}
    BY <1>4, <1>5 DEF Order, QueueExclusive
  <2>2. \A g \in Host : call'[g].queue \notin call'[g].todo
    BY <1>1, <1>4, <1>5 DEF Order, QueueExclusive
  <2>3. \A p \in Queue : Claims(c, p) => Claims(call[h], p)
    BY <1>1, <1>4, NoQueueAssumption DEF Claims
  <2>4. \A g \in Host, k \in Host : g # k => \A p \in Queue : ~(Claims(call'[g], p) /\ Claims(call'[k], p))
    BY <1>5, <2>3 DEF Order, QueueExclusive
  <2> QED BY <2>1, <2>2, <2>4 DEF QueueExclusive, Claims
<1>13. UntilBounded'
  BY <1>3, <1>4, <1>5 DEF Order, UntilBounded, UntilOK
<1>14. HostRetires'
  BY <1>1, <1>3, <1>5 DEF Order, HostRetires
<1> QED BY <1>11, <1>12, <1>13, <1>14 DEF Order

\* A call that visits every queue moves on to one it has claimed.
LEMMA AdvanceOrder ==
    ASSUME TypeOK, Order, NEW h \in Host, NEW pc \in QueuePc \ PushPc, NEW c \in Call, NEW q \in call[h].todo,
           hpc[h] \in QueuePc \ PushPc, hpc' = [hpc EXCEPT ![h] = pc], call' = [call EXCEPT ![h] = c],
           c.queue = q, c.todo = call[h].todo \ {q}, UntilOK(pc, c),
           seq_' = seq_, submissions_' = submissions_, tpc' = tpc, tcur' = tcur, done_' = done_, rpc' = rpc
    PROVE  Order'
<1>1. \A p \in Queue : Claims(c, p) => \A g \in Host : g # h => ~Claims(call[g], p)
  BY DEF Order, QueueExclusive, Claims
<1>2. c.queue \notin c.todo
  OBVIOUS
<1>3. hpc[h] # "sretire"
  BY DEF HostPc, SemaphorePc, QueuePc, SubmitPc, IdlePc
<1>4. \A p \in Queue : InThread(p)' <=> InThread(p)
  BY DEF InThread
<1> QED BY <1>1, <1>2, <1>3, <1>4, HostOrder

LEMMA OrderWaitDone ==
    ASSUME TypeOK, Order, NEW h \in Host, QueueWaitDone(h), hpc[h] \in {"qwait", "qblock"},
           seq_' = seq_, submissions_' = submissions_, tpc' = tpc, tcur' = tcur, done_' = done_, rpc' = rpc
    PROVE  Order'
<1>1. CASE call[h].todo = {}
  <2>1. Return(h) /\ hpc[h] \notin PushPc /\ hpc[h] # "sretire"
    BY <1>1 DEF QueueWaitDone, PushPc
  <2>2. \A q \in Queue : InThread(q)' <=> InThread(q)
    BY DEF InThread
  <2> QED BY <2>1, <2>2, ReturnOrder
<1>2. CASE call[h].todo # {}
  <2>1. PICK q \in call[h].todo :
           /\ hpc' = [hpc EXCEPT ![h] = "qnotify"]
           /\ call' = [call EXCEPT ![h] = [NoCall EXCEPT !.queue = q, !.todo = call[h].todo \ {q}, !.until = AllSeq]]
    BY <1>2 DEF QueueWaitDone
  <2> DEFINE c == [NoCall EXCEPT !.queue = q, !.todo = call[h].todo \ {q}, !.until = AllSeq]
  <2>2. call[h].todo \in SUBSET Queue
    BY DEF TypeOK, Call
  <2>3. c \in Call /\ c.queue = q /\ c.todo = call[h].todo \ {q} /\ c.until = AllSeq
    BY <2>2, NoCallType, AllSeqType DEF Call, NoCall
  <2>4. "qnotify" \in QueuePc \ PushPc /\ hpc[h] \in QueuePc \ PushPc /\ UntilOK("qnotify", c)
    BY <2>3 DEF QueuePc, IdlePc, PushPc, UntilOK, SubmitPc
  <2>5. call' = [call EXCEPT ![h] = c]
    BY <2>1
  <2> HIDE DEF c
  <2> QED BY <2>1, <2>3, <2>4, <2>5, AdvanceOrder
<1> QED BY <1>1, <1>2

LEMMA OrderQueueWait ==
    ASSUME TypeOK, Order, NEW h \in Host, QueueWait(h)
    PROVE  Order'
<1>1. CASE AlreadyDone(call[h].queue, call[h].until)
  BY <1>1, OrderWaitDone DEF QueueWait
<1>2. CASE ~AlreadyDone(call[h].queue, call[h].until)
  <2>1. call[h] \in Call /\ hpc[h] = "qwait" /\ hpc' = [hpc EXCEPT ![h] = "qblock"] /\ call' = [call EXCEPT ![h] = call[h]]
    BY <1>2 DEF QueueWait, TypeOK
  <2>2. UntilOK("qblock", call[h])
    BY <2>1 DEF Order, UntilBounded, UntilOK, SubmitPc
  <2>3. \A q \in Queue : InThread(q)' <=> InThread(q)
    BY DEF InThread, QueueWait
  <2>4. seq_' = seq_ /\ submissions_' = submissions_ /\ tcur' = tcur /\ done_' = done_ /\ rpc' = rpc
    BY DEF QueueWait
  <2>5. "qwait" \in QueuePc /\ "qblock" \in QueuePc /\ "qwait" \notin PushPc /\ "qblock" \notin PushPc
    BY DEF QueuePc, IdlePc, PushPc
  <2> QED BY <2>1, <2>2, <2>3, <2>4, <2>5, KeepOrder
<1> QED BY <1>1, <1>2

LEMMA OrderQueueWaitReady ==
    ASSUME TypeOK, Order, NEW h \in Host, QueueWaitReady(h)
    PROVE  Order'
BY OrderWaitDone DEF QueueWaitReady

LEMMA OrderDestroyJoin ==
    ASSUME TypeOK, Order, NEW h \in Host, DestroyJoin(h)
    PROVE  Order'
<1>1. CASE call[h].todo = {}
  <2>1. Return(h) /\ hpc[h] \notin PushPc /\ hpc[h] # "sretire"
    BY <1>1 DEF DestroyJoin, PushPc
  <2>2. \A q \in Queue : InThread(q)' <=> InThread(q)
    BY DEF InThread, DestroyJoin
  <2>3. seq_' = seq_ /\ submissions_' = submissions_ /\ tcur' = tcur /\ done_' = done_ /\ rpc' = rpc
    BY DEF DestroyJoin
  <2> QED BY <2>1, <2>2, <2>3, ReturnOrder
<1>2. CASE call[h].todo # {}
  <2>1. PICK q \in call[h].todo :
           /\ hpc' = [hpc EXCEPT ![h] = "qexit"]
           /\ call' = [call EXCEPT ![h].queue = q, ![h].todo = @ \ {q}]
    BY <1>2 DEF DestroyJoin
  <2> DEFINE c == [call[h] EXCEPT !.queue = q, !.todo = call[h].todo \ {q}]
  <2>2. call[h] \in Call /\ call[h].todo \in SUBSET Queue
    BY DEF TypeOK, Call
  <2>3. c \in Call /\ c.queue = q /\ c.todo = call[h].todo \ {q}
    BY <2>2 DEF Call
  <2>4. call' = [call EXCEPT ![h] = c] /\ tpc' = tpc
    BY <2>1 DEF TypeOK, DestroyJoin
  <2>5. "qexit" \in QueuePc \ PushPc /\ hpc[h] \in QueuePc \ PushPc /\ UntilOK("qexit", c)
    BY DEF DestroyJoin, QueuePc, PushPc, UntilOK, SubmitPc
  <2>6. seq_' = seq_ /\ submissions_' = submissions_ /\ tcur' = tcur /\ done_' = done_ /\ rpc' = rpc
    BY DEF DestroyJoin
  <2> HIDE DEF c
  <2> QED BY <2>1, <2>3, <2>4, <2>5, <2>6, AdvanceOrder
<1> QED BY <1>1, <1>2

\* A call that is not about queues starts or goes on.
LEMMA OtherOrder ==
    ASSUME TypeOK, Order, NEW h \in Host, NEW pc \in HostPc \ QueuePc,
           hpc[h] \notin QueuePc, hpc[h] # "sretire" \/ rpc[h] = "idle",
           hpc' = [hpc EXCEPT ![h] = pc], call'[h].queue = NoQueue, call'[h].todo = {},
           \A g \in Host : g # h => call'[g] = call[g],
           seq_' = seq_, submissions_' = submissions_, tcur' = tcur, done_' = done_, rpc' = rpc,
           \A q \in Queue : InThread(q)' <=> InThread(q)
    PROVE  Order'
<1>1. hpc'[h] = pc /\ \A g \in Host : g # h => hpc'[g] = hpc[g] /\ call'[g] = call[g]
  BY DEF TypeOK
<1>2. pc \notin PushPc /\ hpc[h] \notin PushPc /\ pc \notin SubmitPc /\ pc \notin {"qwait", "qblock", "qnotify"}
  BY DEF PushPc, QueuePc, SubmitPc, IdlePc
<1>3. \A q \in Queue : (Pushing(q)' <=> Pushing(q)) /\ Popped(q)' = Popped(q)
  BY <1>1, <1>2 DEF Pushing, Popped
<1>4. QueueExclusive'
  <2>1. \A g \in Host : hpc'[g] \notin QueuePc => call'[g].queue = NoQueue /\ call'[g].todo = {}
    BY <1>1 DEF Order, QueueExclusive
  <2>2. \A g \in Host : call'[g].queue \notin call'[g].todo
    BY <1>1 DEF Order, QueueExclusive
  <2>3. \A q \in Queue : ~Claims(call'[h], q)
    BY NoQueueAssumption DEF Claims
  <2>4. \A g \in Host, k \in Host : g # k => \A q \in Queue : ~(Claims(call'[g], q) /\ Claims(call'[k], q))
    BY <1>1, <2>3 DEF Order, QueueExclusive
  <2> QED BY <2>1, <2>2, <2>4 DEF QueueExclusive, Claims
<1>5. Numbering'
  <2>1. \A g \in Host : hpc'[g] \in PushPc => call'[g].sub.seq = seq_'[call'[g].queue]
    BY <1>1, <1>2 DEF Order, Numbering
  <2> QED BY <1>3, <2>1 DEF Order, Numbering
<1>6. UntilBounded'
  BY <1>1, <1>2 DEF Order, UntilBounded, UntilOK
<1>7. HostRetires'
  BY <1>1 DEF Order, HostRetires
<1> QED BY <1>4, <1>5, <1>6, <1>7 DEF Order

LEMMA OrderWaitForFence ==
    ASSUME TypeOK, Order, NEW h \in Host, NEW f \in Fence, WaitForFence(h, f)
    PROVE  Order'
<1>1. hpc[h] = "idle" /\ call[h].queue = NoQueue /\ call[h].todo = {} /\ hpc[h] \notin QueuePc
  BY DEF WaitForFence, Order, QueueExclusive, QueuePc, SubmitPc, IdlePc
<1>2. \A q \in Queue : InThread(q)' <=> InThread(q)
  <2>1. CASE FenceNotifiesQueue(fence[f])
    <3>1. fence[f].queue \in Queue
      BY <2>1 DEF FenceNotifiesQueue, FenceRecord, TypeOK
    <3> QED BY <2>1, <3>1, NotifyInThread DEF WaitForFence
  <2>2. CASE ~FenceNotifiesQueue(fence[f])
    BY <2>2 DEF WaitForFence, InThread
  <2> QED BY <2>1, <2>2
<1>3. seq_' = seq_ /\ submissions_' = submissions_ /\ tcur' = tcur /\ done_' = done_ /\ rpc' = rpc
  BY DEF WaitForFence
<1>4. CASE fence[f].state = "FENCE_INFLIGHT"
  <2>1. hpc' = [hpc EXCEPT ![h] = "fblock"] /\ call' = [call EXCEPT ![h] = [call[h] EXCEPT !.fence = f]]
    BY <1>4 DEF WaitForFence, TypeOK
  <2>2. [call[h] EXCEPT !.fence = f].queue = NoQueue /\ [call[h] EXCEPT !.fence = f].todo = {}
    BY <1>1 DEF TypeOK, Call
  <2>3. call'[h].queue = NoQueue /\ call'[h].todo = {} /\ \A g \in Host : g # h => call'[g] = call[g]
    BY <2>1, <2>2 DEF TypeOK
  <2>4. "fblock" \in HostPc \ QueuePc
    BY DEF HostPc, SemaphorePc, QueuePc, SubmitPc, IdlePc
  <2> QED BY <1>1, <1>2, <1>3, <2>1, <2>3, <2>4, OtherOrder
<1>5. CASE fence[f].state # "FENCE_INFLIGHT"
  <2>1. hpc' = hpc /\ call' = call
    BY <1>5 DEF WaitForFence
  <2> QED BY <1>2, <1>3, <2>1, ThreadOrder
<1> QED BY <1>4, <1>5

LEMMA OrderFenceWaitReady ==
    ASSUME TypeOK, Order, NEW h \in Host, FenceWaitReady(h)
    PROVE  Order'
<1>1. Return(h) /\ hpc[h] \notin PushPc /\ hpc[h] # "sretire"
  BY DEF FenceWaitReady, PushPc
<1>2. \A q \in Queue : InThread(q)' <=> InThread(q)
  BY DEF InThread, FenceWaitReady
<1> QED BY <1>1, <1>2, ReturnOrder DEF FenceWaitReady

LEMMA OrderSemaphoreReady ==
    ASSUME TypeOK, Order, NEW h \in Host, SemaphoreReady(h)
    PROVE  Order'
<1>1. Return(h) /\ hpc[h] \notin PushPc /\ hpc[h] # "sretire"
  BY DEF SemaphoreReady, PushPc
<1>2. \A q \in Queue : InThread(q)' <=> InThread(q)
  BY DEF InThread, SemaphoreReady
<1> QED BY <1>1, <1>2, ReturnOrder DEF SemaphoreReady

LEMMA OrderWaitSemaphore ==
    ASSUME TypeOK, Order, NEW h \in Host, NEW s \in Sem, NEW p \in Nat, WaitSemaphore(h, s, p)
    PROVE  Order'
<1>1. PICK pc \in HostPc \ QueuePc : hpc' = [hpc EXCEPT ![h] = pc]
  BY DEF WaitSemaphore, StartSemaphoreCall, HostPc, SemaphorePc, QueuePc, SubmitPc, IdlePc
<1>2. hpc[h] # "sretire" /\ call[h].queue = NoQueue /\ call[h].todo = {} /\ hpc[h] \notin QueuePc
  BY DEF WaitSemaphore, Order, QueueExclusive, QueuePc, SubmitPc, IdlePc
<1>3. \A q \in Queue : InThread(q)' <=> InThread(q)
  BY DEF InThread, WaitSemaphore
<1>4. seq_' = seq_ /\ submissions_' = submissions_ /\ tcur' = tcur /\ done_' = done_ /\ rpc' = rpc /\ call' = call
  BY DEF WaitSemaphore
<1> QED BY <1>1, <1>2, <1>3, <1>4, OtherOrder

LEMMA OrderSignalSemaphore ==
    ASSUME TypeOK, Order, NEW h \in Host, NEW s \in Sem, NEW p \in Nat, SignalSemaphore(h, s, p)
    PROVE  Order'
<1>1. PICK pc \in HostPc \ QueuePc : hpc' = [hpc EXCEPT ![h] = pc]
  BY DEF SignalSemaphore, StartSemaphoreCall, HostPc, SemaphorePc, QueuePc, SubmitPc, IdlePc
<1>2. hpc[h] # "sretire" /\ call[h].queue = NoQueue /\ call[h].todo = {} /\ hpc[h] \notin QueuePc
  BY DEF SignalSemaphore, Order, QueueExclusive, QueuePc, SubmitPc, IdlePc
<1>3. \A q \in Queue : InThread(q)' <=> InThread(q)
  BY DEF InThread, SignalSemaphore
<1>4. seq_' = seq_ /\ submissions_' = submissions_ /\ tcur' = tcur /\ done_' = done_ /\ rpc' = rpc /\ call' = call
  BY DEF SignalSemaphore
<1> QED BY <1>1, <1>2, <1>3, <1>4, OtherOrder

LEMMA OrderSemaphoreWait ==
    ASSUME TypeOK, Order, NEW h \in Host, SemaphoreWait(h)
    PROVE  Order'
<1>1. PICK pc \in HostPc \ QueuePc : hpc' = [hpc EXCEPT ![h] = pc]
  BY DEF SemaphoreWait, StartSemaphoreCall, HostPc, SemaphorePc, QueuePc, SubmitPc, IdlePc
<1>2. hpc[h] # "sretire" /\ call[h].queue = NoQueue /\ call[h].todo = {} /\ hpc[h] \notin QueuePc
  BY DEF SemaphoreWait, Order, QueueExclusive, QueuePc, SubmitPc, IdlePc
<1>3. \A q \in Queue : InThread(q)' <=> InThread(q)
  BY DEF InThread, SemaphoreWait
<1>4. seq_' = seq_ /\ submissions_' = submissions_ /\ tcur' = tcur /\ done_' = done_ /\ rpc' = rpc /\ call' = call
  BY DEF SemaphoreWait
<1> QED BY <1>1, <1>2, <1>3, <1>4, OtherOrder

LEMMA OrderRetireTimelineEnqueue ==
    ASSUME TypeOK, Order, NEW h \in Host, RetireTimelineEnqueue(h)
    PROVE  Order'
<1>1. PICK pc \in HostPc \ QueuePc : hpc' = [hpc EXCEPT ![h] = pc]
  BY DEF RetireTimelineEnqueue, StartSemaphoreCall, HostPc, SemaphorePc, QueuePc, SubmitPc, IdlePc
<1>2. hpc[h] # "sretire" /\ call[h].queue = NoQueue /\ call[h].todo = {} /\ hpc[h] \notin QueuePc
  BY DEF RetireTimelineEnqueue, Order, QueueExclusive, QueuePc, SubmitPc, IdlePc
<1>3. \A q \in Queue : InThread(q)' <=> InThread(q)
  BY DEF InThread, RetireTimelineEnqueue
<1>4. seq_' = seq_ /\ submissions_' = submissions_ /\ tcur' = tcur /\ done_' = done_ /\ rpc' = rpc /\ call' = call
  BY DEF RetireTimelineEnqueue
<1> QED BY <1>1, <1>2, <1>3, <1>4, OtherOrder

LEMMA OrderSemaphorePoke ==
    ASSUME TypeOK, Order, NEW h \in Host, SemaphorePoke(h)
    PROVE  Order'
<1>1. PICK pc \in HostPc \ QueuePc : hpc' = [hpc EXCEPT ![h] = pc]
  BY DEF SemaphorePoke, StartSemaphoreCall, HostPc, SemaphorePc, QueuePc, SubmitPc, IdlePc
<1>2. hpc[h] # "sretire" /\ call[h].queue = NoQueue /\ call[h].todo = {} /\ hpc[h] \notin QueuePc
  BY DEF SemaphorePoke, Order, QueueExclusive, QueuePc, SubmitPc, IdlePc
<1>3. \A q \in Queue : InThread(q)' <=> InThread(q)
  BY DEF InThread, SemaphorePoke, Woken, TypeOK
<1>4. seq_' = seq_ /\ submissions_' = submissions_ /\ tcur' = tcur /\ done_' = done_ /\ rpc' = rpc /\ call' = call
  BY DEF SemaphorePoke
<1> QED BY <1>1, <1>2, <1>3, <1>4, OtherOrder

LEMMA OrderResetFence ==
    ASSUME TypeOK, Order, NEW h \in Host, NEW f \in Fence, ResetFence(h, f)
    PROVE  Order'
<1>1. \A p \in Queue : InThread(p)' <=> InThread(p)
  BY DEF InThread, ResetFence
<1> QED BY <1>1, ThreadOrder DEF ResetFence

LEMMA OrderImportFence ==
    ASSUME TypeOK, Order, NEW h \in Host, NEW f \in Fence, NEW temporary \in BOOLEAN, NEW st \in {"unsignaled", "signaled"}, ImportFence(h, f, temporary, st)
    PROVE  Order'
<1>1. \A p \in Queue : InThread(p)' <=> InThread(p)
  BY DEF InThread, ImportFence
<1> QED BY <1>1, ThreadOrder DEF ImportFence

LEMMA OrderExportFence ==
    ASSUME TypeOK, Order, NEW h \in Host, NEW f \in Fence, NEW syncFd \in BOOLEAN, ExportFence(h, f, syncFd)
    PROVE  Order'
<1>1. \A p \in Queue : InThread(p)' <=> InThread(p)
  BY DEF InThread, ExportFence
<1> QED BY <1>1, ThreadOrder DEF ExportFence

LEMMA OrderAcquireNextImage ==
    ASSUME TypeOK, Order, NEW h \in Host, NEW s \in BinarySem, NEW f \in Fence, AcquireNextImage(h, s, f)
    PROVE  Order'
<1>1. \A p \in Queue : InThread(p)' <=> InThread(p)
  BY DEF InThread, AcquireNextImage
<1> QED BY <1>1, ThreadOrder DEF AcquireNextImage

LEMMA OrderImportSemaphore ==
    ASSUME TypeOK, Order, NEW h \in Host, NEW s \in Sem, NEW temporary \in BOOLEAN, ImportSemaphore(h, s, temporary)
    PROVE  Order'
<1>1. \A p \in Queue : InThread(p)' <=> InThread(p)
  BY DEF InThread, ImportSemaphore
<1> QED BY <1>1, ThreadOrder DEF ImportSemaphore

LEMMA OrderExportSemaphore ==
    ASSUME TypeOK, Order, NEW h \in Host, NEW s \in Sem, NEW syncFd \in BOOLEAN, ExportSemaphore(h, s, syncFd)
    PROVE  Order'
<1>1. \A p \in Queue : InThread(p)' <=> InThread(p)
  BY DEF InThread, ExportSemaphore
<1> QED BY <1>1, ThreadOrder DEF ExportSemaphore

LEMMA OrderDeviceExecute ==
    ASSUME TypeOK, Order, NEW q \in Queue, DeviceExecute(q)
    PROVE  Order'
<1>1. \A p \in Queue : InThread(p)' <=> InThread(p)
  BY DEF InThread, DeviceExecute
<1> QED BY <1>1, ThreadOrder DEF DeviceExecute

-----------------------------------------------------------------------------
(* QueueInv: the operations a step enqueues *)

\* Submit() numbers a submission: the counters only grow.
LEMMA PendingSubmitSeq ==
    ASSUME TypeOK, PendingNumbered, NEW h \in Host, SubmitSeq(h)
    PROVE  PendingNumbered'
<1>1. hpc[h] \in QueuePc /\ call[h].queue \in Queue
  BY DEF SubmitSeq, TypeOK, QueuePc, SubmitPc
<1>2. \A q \in Queue : seq_[q] \in Nat /\ seq_'[q] \in Nat /\ seq_[q] <= seq_'[q]
  <2>1. PICK p \in Queue : p = call[h].queue
    BY <1>1
  <2>2. seq_' = [seq_ EXCEPT ![p] = seq_[p] + 1] /\ seq_ \in [Queue -> Nat]
    BY <2>1 DEF SubmitSeq, TypeOK
  <2> QED BY <2>2
<1>3. SUFFICES ASSUME NEW s \in Sem, NEW op \in Pending(sem[s]), op.queue # NoQueue
               PROVE  op.seq <= seq_'[op.queue]
  BY DEF SubmitSeq, PendingNumbered
<1>4. op.queue \in Queue /\ op.seq \in Nat
  <2>1. sem[s].operations \in Seq(SemOp)
    BY DEF TypeOK, SemRecord
  <2>2. op \in SemOp
    BY <2>1, LenProperties, ElementOfSeq DEF Pending
  <2> QED BY <1>3, <2>2 DEF SemOp
<1>5. op.seq <= seq_[op.queue]
  BY <1>3 DEF PendingNumbered
<1> QED BY <1>2, <1>4, <1>5

\* The operations of a submission carry its own queue and number.
LEMMA PendingSubmitWait ==
    ASSUME TypeOK, PendingNumbered, Numbering, NEW h \in Host, SubmitWait(h)
    PROVE  PendingNumbered'
<1>1. PICK c \in Call : c = call[h]
  BY DEF TypeOK
<1>2. /\ hpc[h] = "enqueue" /\ hpc[h] \in QueuePc /\ hpc[h] \in PushPc
      /\ c.idx \in 1..Len(c.sub.wait_semaphores)
  BY <1>1 DEF SubmitWait, QueuePc, SubmitPc, PushPc
<1>3. c.queue \in Queue /\ c.sub.seq \in Nat /\ c.sub.seq = seq_[c.queue]
  BY <1>1, <1>2 DEF TypeOK, Numbering, Call, CB_SUBMISSION
<1>4. PICK w \in SemInfo : w = c.sub.wait_semaphores[c.idx]
  <2>1. c.sub.wait_semaphores \in Seq(SemInfo)
    BY DEF Call, CB_SUBMISSION
  <2> QED BY <1>2, <2>1, ElementOfSeq
<1>5. PICK s \in Sem : s = w.semaphore
  BY DEF SemInfo
<1>6. w.payload \in Nat /\ sem[s] \in SemRecord
  BY DEF SemInfo, TypeOK
<1>7. \A bin \in BOOLEAN : \E v \in Nat :
          Pending(SemEnqueueWait(sem[s], bin, c.queue, c.sub.seq, w.payload))
            \subseteq Pending(sem[s]) \cup {NewOp("kWait", c.queue, c.sub.seq, v)}
  BY <1>3, <1>6, PendingTypes
<1>8. PICK bin \in BOOLEAN : bin = (s \in BinarySem)
  <2>1. (s \in BinarySem) \in BOOLEAN
    OBVIOUS
  <2> QED BY <2>1, Zenon
<1>9. sem' = [sem EXCEPT ![s] = SemEnqueueWait(sem[s], bin, c.queue, c.sub.seq, w.payload)] /\ seq_' = seq_
  BY <1>1, <1>4, <1>5, <1>8, Zenon DEF SubmitWait
<1>10. PICK v \in Nat : Pending(SemEnqueueWait(sem[s], bin, c.queue, c.sub.seq, w.payload))
            \subseteq Pending(sem[s]) \cup {NewOp("kWait", c.queue, c.sub.seq, v)}
  BY <1>7
<1>11. NewOp("kWait", c.queue, c.sub.seq, v).queue = c.queue /\ NewOp("kWait", c.queue, c.sub.seq, v).seq = c.sub.seq
  BY DEF NewOp
<1>12. c.sub.seq <= seq_[c.queue]
  BY <1>3
<1> QED BY <1>9, <1>10, <1>11, <1>12, PendingAdds

LEMMA PendingSubmitSignal ==
    ASSUME TypeOK, PendingNumbered, Numbering, NEW h \in Host, SubmitSignal(h)
    PROVE  PendingNumbered'
<1>1. PICK c \in Call : c = call[h]
  BY DEF TypeOK
<1>2. PICK i : i = c.idx - Len(c.sub.wait_semaphores)
  OBVIOUS
<1>3. /\ hpc[h] = "enqueue" /\ hpc[h] \in QueuePc /\ hpc[h] \in PushPc
      /\ i \in 1..Len(c.sub.signal_semaphores)
  BY <1>1, <1>2 DEF SubmitSignal, QueuePc, SubmitPc, PushPc
<1>4. c.queue \in Queue /\ c.sub.seq \in Nat /\ c.sub.seq = seq_[c.queue]
  BY <1>1, <1>3 DEF TypeOK, Numbering, Call, CB_SUBMISSION
<1>5. PICK w \in SemInfo : w = c.sub.signal_semaphores[i]
  <2>1. c.sub.signal_semaphores \in Seq(SemInfo)
    BY DEF Call, CB_SUBMISSION
  <2> QED BY <1>3, <2>1, ElementOfSeq
<1>6. PICK s \in Sem : s = w.semaphore
  BY DEF SemInfo
<1>7. w.payload \in Nat /\ sem[s] \in SemRecord
  BY DEF SemInfo, TypeOK
<1>8. PICK bin \in BOOLEAN : bin = (s \in BinarySem)
  <2>1. (s \in BinarySem) \in BOOLEAN
    OBVIOUS
  <2> QED BY <2>1, Zenon
<1>9. sem' = [sem EXCEPT ![s] = SemEnqueueSignal(sem[s], bin, c.queue, c.sub.seq, w.payload)] /\ seq_' = seq_
  BY <1>1, <1>2, <1>5, <1>6, <1>8, Zenon DEF SubmitSignal
<1>10. PICK v \in Nat : Pending(SemEnqueueSignal(sem[s], bin, c.queue, c.sub.seq, w.payload))
            \subseteq Pending(sem[s]) \cup {NewOp("kSignal", c.queue, c.sub.seq, v)}
  BY <1>4, <1>7, PendingTypes
<1>11. NewOp("kSignal", c.queue, c.sub.seq, v).queue = c.queue /\ NewOp("kSignal", c.queue, c.sub.seq, v).seq = c.sub.seq
  BY DEF NewOp
<1>12. c.sub.seq <= seq_[c.queue]
  BY <1>4
<1> QED BY <1>9, <1>10, <1>11, <1>12, PendingAdds

\* A host wait, a host signal and an acquired image are operations of no queue.
LEMMA PendingHostOp ==
    ASSUME TypeOK, PendingNumbered, NEW s \in Sem, NEW t, NEW type, NEW v,
           sem' = [sem EXCEPT ![s] = t], seq_' = seq_,
           Pending(t) \subseteq Pending(sem[s]) \cup {NewOp(type, NoQueue, 0, v)}
    PROVE  PendingNumbered'
<1>1. NewOp(type, NoQueue, 0, v).queue = NoQueue
  BY DEF NewOp
<1> QED BY <1>1, PendingAdds

\* A step that takes entries out, or changes no entry.
LEMMA PendingRemoves ==
    ASSUME TypeOK, PendingNumbered, NEW s \in Sem, NEW t,
           sem' = [sem EXCEPT ![s] = t], seq_' = seq_, Pending(t) \subseteq Pending(sem[s])
    PROVE  PendingNumbered'
<1>1. \A r \in Sem : sem'[r] = IF r = s THEN t ELSE sem[r]
  BY DEF TypeOK
<1> QED BY <1>1 DEF PendingNumbered

LEMMA PendingSemaphoreWait ==
    ASSUME TypeOK, PendingNumbered, NEW h \in Host, SemaphoreWait(h)
    PROVE  PendingNumbered'
<1>1. frame[h] \in Frame
  BY DEF TypeOK, SemaphoreWait, SemaphorePc
<1>2. PICK s \in Sem : s = frame[h].semaphore
  BY <1>1 DEF Frame
<1>3. PICK p \in Nat : p = frame[h].payload
  BY <1>1 DEF Frame
<1>4. seq_' = seq_ /\ (sem' = sem \/ sem' = [sem EXCEPT ![s] = SemWait(sem[s], p)])
  BY <1>2, <1>3 DEF SemaphoreWait
<1>5. sem[s] \in SemRecord
  BY DEF TypeOK
<1>6. Pending(SemWait(sem[s], p)) \subseteq Pending(sem[s]) \cup {NewOp("kWait", NoQueue, 0, p)}
  BY <1>5, PendingTypes
<1> QED BY <1>4, <1>6, PendingKept, PendingHostOp

LEMMA PendingRetireTimelineEnqueue ==
    ASSUME TypeOK, PendingNumbered, NEW h \in Host, RetireTimelineEnqueue(h)
    PROVE  PendingNumbered'
<1>1. frame[h] \in Frame
  BY DEF TypeOK, RetireTimelineEnqueue, SemaphorePc
<1>2. PICK s \in Sem : s = frame[h].semaphore
  BY <1>1 DEF Frame
<1>3. PICK p \in Nat : p = frame[h].payload
  BY <1>1 DEF Frame
<1>4. seq_' = seq_ /\ sem' = [sem EXCEPT ![s] = SemEnqueueSignal(sem[s], FALSE, NoQueue, 0, p)]
  BY <1>2, <1>3 DEF RetireTimelineEnqueue
<1>5. sem[s] \in SemRecord
  BY DEF TypeOK
<1>6. PICK v \in Nat : Pending(SemEnqueueSignal(sem[s], FALSE, NoQueue, 0, p))
                         \subseteq Pending(sem[s]) \cup {NewOp("kSignal", NoQueue, 0, v)}
  BY <1>5, PendingHostSignal
<1> QED BY <1>4, <1>6, PendingHostOp

LEMMA PendingAcquireNextImage ==
    ASSUME TypeOK, PendingNumbered, NEW h \in Host, NEW s \in BinarySem, NEW f \in Fence, AcquireNextImage(h, s, f)
    PROVE  PendingNumbered'
<1>1. s \in Sem
  BY DEF Sem
<1>2. seq_' = seq_ /\ sem' = [sem EXCEPT ![s] = SemEnqueueAcquire(sem[s])]
  BY DEF AcquireNextImage
<1>3. sem[s] \in SemRecord
  BY <1>1 DEF TypeOK
<1>4. PICK v \in Nat : Pending(SemEnqueueAcquire(sem[s]))
                         \subseteq Pending(sem[s]) \cup {NewOp("kBinaryAcquire", NoQueue, 0, v)}
  <2>1. NoQueue \in Queue \cup {NoQueue} /\ 0 \in Nat /\ TRUE \in BOOLEAN
    OBVIOUS
  <2> QED BY <1>3, <2>1, PendingTypes
<1> QED BY <1>1, <1>2, <1>4, PendingHostOp

LEMMA PendingImportSemaphore ==
    ASSUME TypeOK, PendingNumbered, NEW h \in Host, NEW s \in Sem, NEW b \in BOOLEAN,
           ImportSemaphore(h, s, b) \/ ExportSemaphore(h, s, b)
    PROVE  PendingNumbered'
<1>1. sem[s] \in SemRecord /\ NoQueue \in Queue \cup {NoQueue} /\ 0 \in Nat
  BY DEF TypeOK
<1>2. Pending(SemImport(sem[s], b)) = Pending(sem[s]) /\ Pending(SemExport(sem[s], b)) = Pending(sem[s])
  BY <1>1, PendingTypes
<1>3. seq_' = seq_ /\ (\/ sem' = [sem EXCEPT ![s] = SemImport(sem[s], b)]
                       \/ sem' = [sem EXCEPT ![s] = SemExport(sem[s], b)])
  BY DEF ImportSemaphore, ExportSemaphore
<1> QED BY <1>2, <1>3, PendingRemoves

LEMMA PendingRetireAtOnce ==
    ASSUME TypeOK, PendingNumbered, NEW a \in Actor, RetireAtOnce(a)
    PROVE  PendingNumbered'
<1>1. frame[a] \in Frame
  BY DEF TypeOK, RetireAtOnce
<1>2. PICK s \in Sem : s = frame[a].semaphore
  BY <1>1 DEF Frame
<1>3. seq_' = seq_ /\ sem' = [sem EXCEPT ![s] = RetireHead(sem[s])] /\ sem[s].operations # << >>
  BY <1>2 DEF RetireAtOnce, RetireCovers
<1>4. sem[s] \in SemRecord /\ NoQueue \in Queue \cup {NoQueue} /\ 0 \in Nat /\ TRUE \in BOOLEAN
  BY DEF TypeOK
<1>5. Pending(RetireHead(sem[s])) \subseteq Pending(sem[s])
  BY <1>3, <1>4, PendingTypes
<1> QED BY <1>3, <1>5, PendingRemoves

-----------------------------------------------------------------------------
(* One step of the specification *)

\* The inductive invariant of the queue, fence and semaphore tracking.
IInv == TypeOK /\ PendingNumbered /\ Order

\* SEMAPHORE_STATE::Retire(), for a queue thread or a host thread.
LEMMA RetireKeeps ==
    ASSUME IInv, NEW a \in Actor, Retire(a)
    PROVE  IInv'
<1> USE DEF IInv
<1>1. CASE RetireAtOnce(a)
  BY <1>1, TypeRetireAtOnce, OrderRetireAtOnce, PendingRetireAtOnce
<1>2. CASE RetireWaitOther(a)
  <2>1. sem' = sem /\ seq_' = seq_
    BY <1>2 DEF RetireWaitOther
  <2> QED BY <1>2, <2>1, TypeRetireWaitOther, OrderRetireWaitOther, PendingKept
<1>3. CASE RetireResume(a)
  <2>1. sem' = sem /\ seq_' = seq_
    BY <1>3 DEF RetireResume
  <2> QED BY <1>3, <2>1, TypeRetireResume, OrderRetireResume, PendingKept
<1>4. CASE RetireEnd(a)
  <2>1. sem' = sem /\ seq_' = seq_
    BY <1>4 DEF RetireEnd
  <2> QED BY <1>4, <2>1, TypeRetireEnd, OrderRetireEnd, PendingKept
<1> QED BY <1>1, <1>2, <1>3, <1>4 DEF Retire

\* QUEUE_STATE::ThreadFunc().
LEMMA ThreadFuncKeeps ==
    ASSUME IInv, NEW q \in Queue, ThreadFunc(q)
    PROVE  IInv'
<1> USE DEF IInv
<1>1. CASE Retire(q)
  BY <1>1, RetireKeeps DEF Actor
<1>2. CASE ThreadSleep(q)
  <2>1. sem' = sem /\ seq_' = seq_
    BY <1>2 DEF ThreadSleep
  <2> QED BY <1>2, <2>1, TypeThreadSleep, OrderThreadSleep, PendingKept
<1>3. CASE ThreadPop(q)
  <2>1. sem' = sem /\ seq_' = seq_
    BY <1>3 DEF ThreadPop
  <2> QED BY <1>3, <2>1, TypeThreadPop, OrderThreadPop, PendingKept
<1>4. CASE ThreadExit(q)
  <2>1. sem' = sem /\ seq_' = seq_
    BY <1>4 DEF ThreadExit
  <2> QED BY <1>4, <2>1, TypeThreadExit, OrderThreadExit, PendingKept
<1>5. CASE ThreadEndUse(q)
  <2>1. sem' = sem /\ seq_' = seq_
    BY <1>5 DEF ThreadEndUse
  <2> QED BY <1>5, <2>1, TypeThreadEndUse, OrderThreadEndUse, PendingKept
<1>6. CASE ThreadRetireSemaphore(q)
  <2>1. sem' = sem /\ seq_' = seq_
    BY <1>6 DEF ThreadRetireSemaphore
  <2> QED BY <1>6, <2>1, TypeThreadRetireSemaphore, OrderThreadRetireSemaphore, PendingKept
<1>7. CASE ThreadLoopDone(q)
  <2>1. sem' = sem /\ seq_' = seq_
    BY <1>7 DEF ThreadLoopDone
  <2> QED BY <1>7, <2>1, TypeThreadLoopDone, OrderThreadLoopDone, PendingKept
<1>8. CASE ThreadRetireCbs(q)
  <2>1. sem' = sem /\ seq_' = seq_
    BY <1>8 DEF ThreadRetireCbs
  <2> QED BY <1>8, <2>1, TypeThreadRetireCbs, OrderThreadRetireCbs, PendingKept
<1>9. CASE ThreadRetireFence(q)
  <2>1. sem' = sem /\ seq_' = seq_
    BY <1>9 DEF ThreadRetireFence
  <2> QED BY <1>9, <2>1, TypeThreadRetireFence, OrderThreadRetireFence, PendingKept
<1>10. CASE ThreadComplete(q)
  <2>1. sem' = sem /\ seq_' = seq_
    BY <1>10 DEF ThreadComplete
  <2> QED BY <1>10, <2>1, TypeThreadComplete, OrderThreadComplete, PendingKept
<1> QED BY <1>1, <1>2, <1>3, <1>4, <1>5, <1>6, <1>7, <1>8, <1>9, <1>10 DEF ThreadFunc

\* The steps of a host call under way.
LEMMA HostStepKeeps ==
    ASSUME IInv, NEW h \in Host, HostStep(h)
    PROVE  IInv'
<1> USE DEF IInv
<1>1. CASE Retire(h)
  BY <1>1, RetireKeeps DEF Actor
<1>2. CASE DriverAccept(h)
  <2>1. sem' = sem /\ seq_' = seq_
    BY <1>2 DEF DriverAccept
  <2> QED BY <1>2, <2>1, TypeDriverAccept, OrderDriverAccept, PendingKept
<1>3. CASE SubmitCbs(h)
  <2>1. sem' = sem /\ seq_' = seq_
    BY <1>3 DEF SubmitCbs
  <2> QED BY <1>3, <2>1, TypeSubmitCbs, OrderSubmitCbs, PendingKept
<1>4. CASE SubmitSeq(h)
  BY <1>4, TypeSubmitSeq, OrderSubmitSeq, PendingSubmitSeq
<1>5. CASE SubmitWait(h)
  BY <1>5, TypeSubmitWait, OrderSubmitWait, PendingSubmitWait DEF Order
<1>6. CASE SubmitSignal(h)
  BY <1>6, TypeSubmitSignal, OrderSubmitSignal, PendingSubmitSignal DEF Order
<1>7. CASE SubmitFence(h)
  <2>1. sem' = sem /\ seq_' = seq_
    BY <1>7 DEF SubmitFence
  <2> QED BY <1>7, <2>1, TypeSubmitFence, OrderSubmitFence, PendingKept
<1>8. CASE SubmitPush(h)
  <2>1. sem' = sem /\ seq_' = seq_
    BY <1>8 DEF SubmitPush
  <2> QED BY <1>8, <2>1, TypeSubmitPush, OrderSubmitPush, PendingKept
<1>9. CASE QueueNotify(h)
  <2>1. sem' = sem /\ seq_' = seq_
    BY <1>9 DEF QueueNotify
  <2> QED BY <1>9, <2>1, TypeQueueNotify, OrderQueueNotify, PendingKept
<1>10. CASE QueueWait(h)
  <2>1. sem' = sem /\ seq_' = seq_
    BY <1>10 DEF QueueWait
  <2> QED BY <1>10, <2>1, TypeQueueWait, OrderQueueWait, PendingKept
<1>11. CASE QueueWaitReady(h)
  <2>1. sem' = sem /\ seq_' = seq_
    BY <1>11 DEF QueueWaitReady
  <2> QED BY <1>11, <2>1, TypeQueueWaitReady, OrderQueueWaitReady, PendingKept
<1>12. CASE FenceWaitReady(h)
  <2>1. sem' = sem /\ seq_' = seq_
    BY <1>12 DEF FenceWaitReady
  <2> QED BY <1>12, <2>1, TypeFenceWaitReady, OrderFenceWaitReady, PendingKept
<1>13. CASE SemaphoreWait(h)
  BY <1>13, TypeSemaphoreWait, OrderSemaphoreWait, PendingSemaphoreWait
<1>14. CASE SemaphorePoke(h)
  <2>1. sem' = sem /\ seq_' = seq_
    BY <1>14 DEF SemaphorePoke
  <2> QED BY <1>14, <2>1, TypeSemaphorePoke, OrderSemaphorePoke, PendingKept
<1>15. CASE SemaphoreReady(h)
  <2>1. sem' = sem /\ seq_' = seq_
    BY <1>15 DEF SemaphoreReady
  <2> QED BY <1>15, <2>1, TypeSemaphoreReady, OrderSemaphoreReady, PendingKept
<1>16. CASE RetireTimelineEnqueue(h)
  BY <1>16, TypeRetireTimelineEnqueue, OrderRetireTimelineEnqueue, PendingRetireTimelineEnqueue
<1>17. CASE RetireTimelineBegin(h)
  <2>1. sem' = sem /\ seq_' = seq_
    BY <1>17 DEF RetireTimelineBegin
  <2> QED BY <1>17, <2>1, TypeRetireTimelineBegin, OrderRetireTimelineBegin, PendingKept
<1>18. CASE DestroyNotify(h)
  <2>1. sem' = sem /\ seq_' = seq_
    BY <1>18 DEF DestroyNotify
  <2> QED BY <1>18, <2>1, TypeDestroyNotify, OrderDestroyNotify, PendingKept
<1>19. CASE DestroyJoin(h)
  <2>1. sem' = sem /\ seq_' = seq_
    BY <1>19 DEF DestroyJoin
  <2> QED BY <1>19, <2>1, TypeDestroyJoin, OrderDestroyJoin, PendingKept
<1> QED BY <1>1, <1>2, <1>3, <1>4, <1>5, <1>6, <1>7, <1>8, <1>9, <1>10, <1>11, <1>12, <1>13, <1>14, <1>15, <1>16, <1>17, <1>18, <1>19 DEF HostStep

\* The calls an application starts.
LEMMA HostCallKeeps ==
    ASSUME IInv, NEW h \in Host, HostCall(h)
    PROVE  IInv'
<1> USE DEF IInv
<1>1. ASSUME NEW q \in Queue, NEW bs \in Calls[q], QueueSubmit(h, q, bs) PROVE IInv'
  <2>1. sem' = sem /\ seq_' = seq_
    BY <1>1 DEF QueueSubmit
  <2> QED BY <1>1, <2>1, TypeQueueSubmit, OrderQueueSubmit, PendingKept
<1>2. ASSUME NEW q \in Queue, QueueWaitIdle(h, q) PROVE IInv'
  <2>1. sem' = sem /\ seq_' = seq_
    BY <1>2 DEF QueueWaitIdle
  <2> QED BY <1>2, <2>1, TypeQueueWaitIdle, OrderQueueWaitIdle, PendingKept
<1>3. ASSUME NEW q \in Queue, DeviceWaitIdle(h, q) PROVE IInv'
  <2>1. sem' = sem /\ seq_' = seq_
    BY <1>3 DEF DeviceWaitIdle
  <2> QED BY <1>3, <2>1, TypeDeviceWaitIdle, OrderDeviceWaitIdle, PendingKept
<1>4. ASSUME NEW q \in Queue, DestroyDevice(h, q) PROVE IInv'
  <2>1. sem' = sem /\ seq_' = seq_
    BY <1>4 DEF DestroyDevice
  <2> QED BY <1>4, <2>1, TypeDestroyDevice, OrderDestroyDevice, PendingKept
<1>5. ASSUME NEW f \in Fence, WaitForFence(h, f) PROVE IInv'
  <2>1. sem' = sem /\ seq_' = seq_
    BY <1>5 DEF WaitForFence
  <2> QED BY <1>5, <2>1, TypeWaitForFence, OrderWaitForFence, PendingKept
<1>6. ASSUME NEW f \in Fence, ResetFence(h, f) PROVE IInv'
  <2>1. sem' = sem /\ seq_' = seq_
    BY <1>6 DEF ResetFence
  <2> QED BY <1>6, <2>1, TypeResetFence, OrderResetFence, PendingKept
<1>7. ASSUME NEW f \in Fence, NEW b \in BOOLEAN, NEW st \in {"unsignaled", "signaled"}, ImportFence(h, f, b, st) PROVE IInv'
  <2>1. sem' = sem /\ seq_' = seq_
    BY <1>7 DEF ImportFence
  <2> QED BY <1>7, <2>1, TypeImportFence, OrderImportFence, PendingKept
<1>8. ASSUME NEW f \in Fence, NEW b \in BOOLEAN, ExportFence(h, f, b) PROVE IInv'
  <2>1. sem' = sem /\ seq_' = seq_
    BY <1>8 DEF ExportFence
  <2> QED BY <1>8, <2>1, TypeExportFence, OrderExportFence, PendingKept
<1>9. ASSUME NEW s \in BinarySem, NEW f \in Fence, AcquireNextImage(h, s, f) PROVE IInv'
  BY <1>9, TypeAcquireNextImage, OrderAcquireNextImage, PendingAcquireNextImage
<1>10. ASSUME NEW s \in TimelineSem, NEW p \in Payloads, WaitSemaphore(h, s, p) PROVE IInv'
  <2>1. sem' = sem /\ seq_' = seq_
    BY <1>10 DEF WaitSemaphore
  <2>2. s \in Sem /\ p \in Nat
    BY QueueStateAssumption DEF Sem
  <2> QED BY <1>10, <2>1, <2>2, TypeWaitSemaphore, OrderWaitSemaphore, PendingKept
<1>11. ASSUME NEW s \in TimelineSem, NEW p \in Payloads, SignalSemaphore(h, s, p) PROVE IInv'
  <2>1. sem' = sem /\ seq_' = seq_
    BY <1>11 DEF SignalSemaphore
  <2>2. s \in Sem /\ p \in Nat
    BY QueueStateAssumption DEF Sem
  <2> QED BY <1>11, <2>1, <2>2, TypeSignalSemaphore, OrderSignalSemaphore, PendingKept
<1>12. ASSUME NEW s \in Sem, NEW b \in BOOLEAN, ImportSemaphore(h, s, b) PROVE IInv'
  BY <1>12, TypeImportSemaphore, OrderImportSemaphore, PendingImportSemaphore
<1>13. ASSUME NEW s \in Sem, NEW b \in BOOLEAN, ExportSemaphore(h, s, b) PROVE IInv'
  BY <1>13, TypeExportSemaphore, OrderExportSemaphore, PendingImportSemaphore
<1> QED BY <1>1, <1>2, <1>3, <1>4, <1>5, <1>6, <1>7, <1>8, <1>9, <1>10, <1>11, <1>12, <1>13 DEF HostCall

\* Every step, and every stuttering step, keeps the inductive invariant.
LEMMA NextKeeps ==
    ASSUME IInv, [Next]_vars
    PROVE  IInv'
<1>1. CASE UNCHANGED vars
  BY <1>1 DEF vars, IInv, TypeOK, Order, PendingNumbered, QueueExclusive, Claims, Numbering, InThread, Popped,
              Pushing, UntilBounded, UntilOK, HostRetires
<1>2. ASSUME NEW h \in Host, HostStep(h) \/ HostCall(h) PROVE IInv'
  BY <1>2, HostStepKeeps, HostCallKeeps
<1>3. ASSUME NEW q \in Queue, ThreadFunc(q) PROVE IInv'
  BY <1>3, ThreadFuncKeeps
<1>4. ASSUME NEW q \in Queue, DeviceExecute(q) PROVE IInv'
  <2>1. sem' = sem /\ seq_' = seq_
    BY <1>4 DEF DeviceExecute
  <2> QED BY <1>4, <2>1, TypeDeviceExecute, OrderDeviceExecute, PendingKept DEF IInv
<1> QED BY <1>1, <1>2, <1>3, <1>4 DEF Next

LEMMA InitIInv == Init => IInv
<1> SUFFICES ASSUME Init PROVE IInv
  OBVIOUS
<1>1. TypeOK
  <2>1. EmptySubmission \in CB_SUBMISSION
    BY DEF EmptySubmission, CB_SUBMISSION
  <2>2. NewSemaphore(0) \in SemRecord
    BY DEF NewSemaphore, SemRecord, SemOp, NewOp, OpType, SyncScope
  <2>3. NewFence(FALSE) \in FenceRecord
    BY DEF NewFence, FenceRecord, FENCE_STATUS, SyncScope
  <2>4. [st |-> "unsignaled", queue |-> NoQueue, n |-> 0] \in VkFenceRecord
    BY DEF VkFenceRecord
  <2>5. "none" \in ThreadPc /\ "idle" \in RetirePc /\ "idle" \in HostPc
    BY DEF ThreadPc, RetirePc, HostPc
  <2>6. "idle" \notin SemaphorePc /\ "idle" \notin QueuePc /\ "idle" \notin SubmitPc
    BY DEF SemaphorePc, QueuePc, SubmitPc, IdlePc
  <2>7. NoActor \in Actor \cup {NoActor} /\ NoFrame \in Frame \cup {NoFrame}
    OBVIOUS
  <2>8. /\ hpc \in [Host -> HostPc] /\ call \in [Host -> Call] /\ rpc \in [Actor -> RetirePc]
        /\ \A h \in Host : hpc[h] = "idle"
        /\ \A a \in Actor : rpc[a] = "idle"
    BY <2>5, NoCallType DEF Init
  <2>9. /\ seq_ \in [Queue -> Nat] /\ request_seq_ \in [Queue -> Nat] /\ exit_thread_ \in [Queue -> BOOLEAN]
        /\ submissions_ \in [Queue -> Seq(CB_SUBMISSION)]
    BY DEF Init
  <2>10. tpc \in [Queue -> ThreadPc] /\ tcur \in [Queue -> CB_SUBMISSION] /\ tidx \in [Queue -> Nat] /\ done_ \in [Queue -> Nat]
    BY <2>1, <2>5 DEF Init
  <2>11. sem \in [Sem -> SemRecord] /\ sem_lock \in [Sem -> Actor \cup {NoActor}] /\ frame \in [Actor -> Frame \cup {NoFrame}]
    BY <2>2, <2>7 DEF Init
  <2>12. fence \in [Fence -> FenceRecord] /\ vk_fence \in [Fence -> VkFenceRecord]
    BY <2>3, <2>4 DEF Init
  <2>13. in_use \in [Object -> Int] /\ cb_pending \in [Cb -> Int]
    BY DEF Init
  <2>14. /\ issued \in [Queue -> Seq(CB_SUBMISSION)] /\ executed \in [Queue -> Nat]
         /\ vk_sem \in [Sem -> Nat] /\ app_sem \in [Sem -> Nat] /\ app_seen \in [Sem -> Nat]
    BY DEF Init
  <2> QED BY <2>6, <2>8, <2>9, <2>10, <2>11, <2>12, <2>13, <2>14 DEF TypeOK
<1>2. PendingNumbered
  <2>1. Pending(NewSemaphore(0)) = {}
    BY DEF Pending, NewSemaphore
  <2> QED BY <2>1 DEF PendingNumbered, Init
<1>3. /\ \A h \in Host : hpc[h] = "idle" /\ call[h] = NoCall /\ rpc[h] = "idle"
      /\ NoCall.queue = NoQueue /\ NoCall.todo = {}
  BY DEF Init, NoCall, Actor
<1>4. QueueExclusive
  BY <1>3, NoQueueAssumption DEF QueueExclusive, Claims
<1>5. Numbering
  <2>1. \A q \in Queue : ~Pushing(q) /\ ~InThread(q) /\ Popped(q) = 0
    BY <1>3 DEF Init, Pushing, PushPc, InThread, Popped
  <2>2. \A q \in Queue : Len(submissions_[q]) = 0 /\ seq_[q] = 0
    BY DEF Init
  <2> QED BY <1>3, <2>1, <2>2 DEF Numbering, PushPc
<1>6. UntilBounded
  BY <1>3 DEF UntilBounded, UntilOK, SubmitPc
<1>7. HostRetires
  BY <1>3 DEF HostRetires
<1> QED BY <1>1, <1>2, <1>4, <1>5, <1>6, <1>7 DEF IInv, Order

-----------------------------------------------------------------------------
(* The theorems *)

\* In every reachable state, of any number of queues, threads, fences and semaphores
\* and for any sequence of calls, the tracking state is well typed and the inductive
\* invariant holds.
THEOREM Invariance == Spec => []IInv
<1>1. Init => IInv
  BY InitIInv
<1>2. IInv /\ [Next]_vars => IInv'
  BY NextKeeps
<1> QED BY <1>1, <1>2, PTL DEF Spec

\* The state of QUEUE_STATE, SEMAPHORE_STATE and FENCE_STATE always has its type, and a
\* call under way has the arguments it needs.
THEOREM TypeCorrect == Spec => []TypeOK
<1>1. IInv => TypeOK
  BY DEF IInv
<1> QED BY <1>1, Invariance, PTL

\* The numbers QUEUE_STATE::Submit() hands out are never lost or used twice: each belongs
\* to one retired, popped, queued or about to be queued submission, and nobody is told
\* of a number that was not handed out.
THEOREM NumbersKept == Spec => []QueueInv
<1>1. IInv => QueueInv
  BY DEF IInv, Order, QueueInv
<1> QED BY <1>1, Invariance, PTL

\* The assertion in QUEUE_STATE::Wait() never fails: the index it computes from a
\* sequence number is inside the deque.
THEOREM DequeWaits == Spec => []WaitInDeque
<1>1. ASSUME IInv PROVE WaitInDeque
  <2> SUFFICES ASSUME NEW h \in Host, hpc[h] = "qwait", ~AlreadyDone(call[h].queue, call[h].until)
               PROVE  call[h].until - Head(submissions_[call[h].queue]).seq < Len(submissions_[call[h].queue])
    BY DEF WaitInDeque
  <2>1. TypeOK /\ Numbering /\ UntilBounded
    BY <1>1 DEF IInv, Order
  <2>2. PICK q \in Queue : q = call[h].queue
    BY <2>1 DEF TypeOK, QueuePc, IdlePc
  <2>3. submissions_[q] # << >> /\ submissions_[q] \in Seq(CB_SUBMISSION)
    BY <2>1, <2>2 DEF AlreadyDone, TypeOK
  <2>4. Len(submissions_[q]) \in Nat /\ Len(submissions_[q]) > 0 /\ Head(submissions_[q]) = submissions_[q][1]
    BY <2>3, EmptySeq, LenProperties, HeadTailProperties
  <2>5. Popped(q) \in Nat /\ seq_[q] \in Nat /\ call[h].until \in Nat
    BY <2>1 DEF TypeOK, Popped, CB_SUBMISSION, Call
  <2>6. Head(submissions_[q]).seq = Popped(q) + 1
    BY <2>1, <2>4 DEF Numbering
  <2>7. Popped(q) + Len(submissions_[q]) \in {seq_[q], seq_[q] - 1}
    BY <2>1, <2>4, <2>5 DEF Numbering
  <2>8. call[h].until <= seq_[q]
    BY <2>1, <2>2 DEF UntilBounded, UntilOK
  <2>9. ~Pushing(q)
    <3>1. QueueExclusive
      BY <1>1 DEF IInv, Order
    <3>2. SUFFICES ASSUME NEW g \in Host, hpc[g] \in PushPc, call[g].queue = q PROVE FALSE
      BY DEF Pushing
    <3>3. g # h
      BY <3>2 DEF PushPc
    <3> QED BY <2>2, <3>1, <3>2, <3>3 DEF QueueExclusive, Claims
  <2>10. Popped(q) + Len(submissions_[q]) = seq_[q]
    BY <2>1, <2>4, <2>5, <2>9 DEF Numbering
  <2> QED BY <2>2, <2>4, <2>5, <2>6, <2>8, <2>10
<1> QED BY <1>1, Invariance, PTL

\* QUEUE_STATE::ThreadFunc() retires every submission exactly once, in the order of the
\* numbers Submit() handed out.
THEOREM InOrder == Spec => RetiredInOrder
<1>1. ASSUME IInv, [Next]_vars
      PROVE  [\A q \in Queue : done_'[q] \in {done_[q], done_[q] + 1}]_vars
  <2>1. TypeOK /\ Numbering
    BY <1>1 DEF IInv, Order
  <2>2. ASSUME NEW p \in Queue, ThreadComplete(p), NEW q \in Queue
        PROVE  done_'[q] \in {done_[q], done_[q] + 1}
    <3>1. tcur[p].seq = done_[p] + 1
      BY <2>1, <2>2 DEF Numbering, InThread, ThreadComplete
    <3> QED BY <2>1, <2>2, <3>1 DEF ThreadComplete, TypeOK
  <2>3. ASSUME NEW a, Retire(a) PROVE done_' = done_
    BY <2>3 DEF Retire, RetireAtOnce, RetireWaitOther, RetireResume, RetireEnd
  <2>4. ASSUME NEW p \in Queue, ThreadFunc(p) PROVE done_' = done_ \/ ThreadComplete(p)
    BY <2>3, <2>4 DEF ThreadFunc, ThreadSleep, ThreadPop, ThreadExit, ThreadEndUse, ThreadRetireSemaphore, ThreadLoopDone,
                      ThreadRetireCbs, ThreadRetireFence
  <2>5. ASSUME NEW h \in Host, HostStep(h) PROVE done_' = done_
    BY <2>3, <2>5 DEF HostStep, DriverAccept, SubmitCbs, SubmitSeq, SubmitWait, SubmitSignal, SubmitFence, SubmitPush,
                      QueueNotify, QueueWait, QueueWaitReady, FenceWaitReady, SemaphoreWait, SemaphorePoke, SemaphoreReady,
                      RetireTimelineEnqueue, RetireTimelineBegin, DestroyNotify, DestroyJoin
  <2>6. ASSUME NEW h \in Host, HostCall(h) PROVE done_' = done_
    <3>1. ASSUME NEW q \in Queue, NEW bs, \/ QueueSubmit(h, q, bs) \/ QueueWaitIdle(h, q) \/ DeviceWaitIdle(h, q) \/ DestroyDevice(h, q)
          PROVE  done_' = done_
      BY <3>1 DEF QueueSubmit, QueueWaitIdle, DeviceWaitIdle, DestroyDevice
    <3>2. ASSUME NEW f \in Fence, NEW b, NEW st, \/ WaitForFence(h, f) \/ ResetFence(h, f) \/ ImportFence(h, f, b, st) \/ ExportFence(h, f, b)
          PROVE  done_' = done_
      BY <3>2 DEF WaitForFence, ResetFence, ImportFence, ExportFence
    <3>3. ASSUME NEW s, NEW f, AcquireNextImage(h, s, f) PROVE done_' = done_
      BY <3>3 DEF AcquireNextImage
    <3>4. ASSUME NEW s, NEW p, WaitSemaphore(h, s, p) \/ SignalSemaphore(h, s, p) PROVE done_' = done_
      BY <3>4 DEF WaitSemaphore, SignalSemaphore
    <3>5. ASSUME NEW s, NEW b, ImportSemaphore(h, s, b) \/ ExportSemaphore(h, s, b) PROVE done_' = done_
      BY <3>5 DEF ImportSemaphore, ExportSemaphore
    <3> QED BY <2>6, <3>1, <3>2, <3>3, <3>4, <3>5 DEF HostCall
  <2>7. ASSUME NEW p \in Queue, DeviceExecute(p) PROVE done_' = done_
    BY <2>7 DEF DeviceExecute
  <2> QED BY <1>1, <2>2, <2>4, <2>5, <2>6, <2>7 DEF Next
<1>2. Spec => []IInv
  BY Invariance
<1> QED BY <1>1, <1>2, PTL DEF Spec, RetiredInOrder

=============================================================================
