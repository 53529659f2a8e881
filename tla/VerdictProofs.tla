--------------------------- MODULE VerdictProofs ----------------------------
(* What validation reads of a binary semaphore, for any number of queues,     *)
(* host threads and semaphores, and any submissions.                          *)
EXTENDS SemaphoreInv, FenceProofs

-----------------------------------------------------------------------------
(* The last operation of a semaphore *)

\* std::multimap::emplace of the largest key puts it last.
LEMMA EmplaceLast ==
    ASSUME NEW ops \in Seq(SemOp), NEW op \in SemOp, \A i \in DOMAIN ops : ops[i].payload < op.payload
    PROVE  /\ Len(Emplace(ops, op)) = Len(ops) + 1 /\ Emplace(ops, op) # << >>
           /\ Emplace(ops, op)[Len(ops) + 1] = op
           /\ \A i \in 1..Len(ops) : Emplace(ops, op)[i] = ops[i]
<1>1. Len(ops) \in Nat /\ DOMAIN ops = 1..Len(ops)
  BY LenProperties
<1>2. Len(Emplace(ops, op)) = Len(ops) + 1 /\ Emplace(ops, op) \in Seq(SemOp)
  BY EmplaceType
<1>3. Emplace(ops, op) # << >>
  <2>1. Len(ops) + 1 # 0
    BY <1>1
  <2> QED BY <1>2, <2>1
<1>4. \A i \in 1..Len(ops) : ops[i].payload \in Nat /\ op.payload \in Nat
  <2>1. \A i \in 1..Len(ops) : ops[i] \in SemOp
    BY ElementOfSeq
  <2>2. \A x \in SemOp : x.payload \in Nat
    BY DEF SemOp
  <2> QED BY <2>1, <2>2
<1>5. \A i \in 1..Len(ops) : Emplace(ops, op)[i] = ops[i]
  <2> TAKE i \in 1..Len(ops)
  <2>1. PICK L \in Nat : L = Len(ops) /\ i \in 1..L
    BY <1>1
  <2>2. i \in 1..(L + 1) /\ i <= L
    BY <2>1
  <2>3. ops[i].payload <= op.payload
    <3>1. ops[i].payload \in Nat /\ op.payload \in Nat /\ ops[i].payload < op.payload
      BY <1>1, <1>4
    <3> QED BY <3>1
  <2> QED BY <2>1, <2>2, <2>3 DEF Emplace
<1>6. Emplace(ops, op)[Len(ops) + 1] = op
  <2>1. Len(ops) + 1 \in 1..(Len(ops) + 1) /\ ~(Len(ops) + 1 <= Len(ops)) /\ (Len(ops) + 1) - 1 = Len(ops)
    BY <1>1
  <2>2. Len(ops) + 1 = 1 \/ ops[(Len(ops) + 1) - 1].payload <= op.payload
    <3>1. CASE Len(ops) = 0
      BY <3>1
    <3>2. CASE Len(ops) # 0
      <4>1. Len(ops) \in DOMAIN ops
        BY <1>1, <3>2
      <4> QED BY <1>1, <1>4, <2>1, <4>1
    <3> QED BY <3>1, <3>2
  <2> QED BY <2>1, <2>2 DEF Emplace
<1> QED BY <1>2, <1>3, <1>5, <1>6

\* EnqueueSignal(), EnqueueWait() and EnqueueAcquire() of a binary semaphore.
LEMMA EnqueueLast ==
    ASSUME NEW s \in SemRecord, Below(s), NEW op \in SemOp, op.payload = s.next_payload
    PROVE  LastSemOp(SemEnqueue(s, TRUE, op)) = op /\ Below(SemEnqueue(s, TRUE, op))
<1> DEFINE r == SemEnqueue(s, TRUE, op)
<1>1. s.operations \in Seq(SemOp) /\ s.next_payload \in Nat
  BY DEF SemRecord
<1>2. r.operations = Emplace(s.operations, op) /\ r.next_payload = s.next_payload + 1
  BY DEF SemEnqueue, SemRecord
<1> HIDE DEF r
<1>3. /\ Len(r.operations) = Len(s.operations) + 1 /\ r.operations # << >>
      /\ r.operations[Len(s.operations) + 1] = op
      /\ \A i \in 1..Len(s.operations) : r.operations[i] = s.operations[i]
  <2>1. \A i \in DOMAIN s.operations : s.operations[i].payload < op.payload
    BY DEF Below
  <2>2. PICK ops \in Seq(SemOp) : ops = s.operations
    BY <1>1
  <2>3. /\ Len(Emplace(ops, op)) = Len(ops) + 1 /\ Emplace(ops, op) # << >>
        /\ Emplace(ops, op)[Len(ops) + 1] = op
        /\ \A i \in 1..Len(ops) : Emplace(ops, op)[i] = ops[i]
    BY <2>1, <2>2, EmplaceLast
  <2> QED BY <1>2, <2>2, <2>3
<1>4. r.operations \in Seq(SemOp) /\ DOMAIN r.operations = 1..(Len(s.operations) + 1)
  BY <1>1, <1>2, <1>3, EmplaceType, LenProperties
<1>5. LastSemOp(r) = op
  BY <1>3 DEF LastSemOp
<1>6. ASSUME NEW i \in DOMAIN r.operations PROVE r.operations[i].payload < s.next_payload + 1
  <2>1. Len(s.operations) \in Nat /\ DOMAIN s.operations = 1..Len(s.operations)
    BY <1>1, LenProperties
  <2>2. CASE i = Len(s.operations) + 1
    BY <1>1, <1>3, <2>2
  <2>3. CASE i \in 1..Len(s.operations)
    <3>1. r.operations[i] = s.operations[i] /\ s.operations[i].payload < s.next_payload
      BY <1>3, <2>1, <2>3 DEF Below
    <3>2. s.operations[i] \in SemOp
      BY <1>1, <2>3, ElementOfSeq
    <3>3. s.operations[i].payload \in Nat
      BY <3>2 DEF SemOp
    <3> QED BY <1>1, <3>1, <3>3
  <2> QED BY <1>4, <2>1, <2>2, <2>3
<1>7. Below(r)
  BY <1>2, <1>6 DEF Below
<1> QED BY <1>5, <1>7 DEF r

\* What validation reads afterwards.
LEMMA EnqueueVerdict ==
    ASSUME NEW s \in SemRecord, Below(s), NEW q \in Queue \cup {NoQueue}, NEW n \in Nat, NEW p \in Nat
    PROVE  /\ CanBeWaited(SemEnqueueSignal(s, TRUE, q, n, p)) /\ Below(SemEnqueueSignal(s, TRUE, q, n, p))
           /\ ~CanBeWaited(SemEnqueueWait(s, TRUE, q, n, p)) /\ Below(SemEnqueueWait(s, TRUE, q, n, p))
           /\ CanBeWaited(SemEnqueueAcquire(s)) /\ Below(SemEnqueueAcquire(s))
<1>1. \A t \in OpType, x \in Queue \cup {NoQueue}, k \in Nat, v \in Nat :
         /\ NewOp(t, x, k, v) \in SemOp
         /\ NewOp(t, x, k, v).payload = v /\ NewOp(t, x, k, v).op_type = t
  BY DEF NewOp, SemOp
<1>2. s.next_payload \in Nat /\ {"kSignal", "kWait", "kBinaryAcquire"} \subseteq OpType
  BY DEF SemRecord, OpType
<1>3. CanBeWaited(SemEnqueueSignal(s, TRUE, q, n, p)) /\ Below(SemEnqueueSignal(s, TRUE, q, n, p))
  <2>1. PICK op : op = NewOp("kSignal", q, n, s.next_payload)
    OBVIOUS
  <2>2. op \in SemOp /\ op.payload = s.next_payload /\ op.op_type = "kSignal"
    <3>1. "kSignal" \in OpType /\ s.next_payload \in Nat
      BY <1>2
    <3>2. PICK t \in OpType, v \in Nat : t = "kSignal" /\ v = s.next_payload
      BY <3>1
    <3> QED BY <1>1, <2>1, <3>2
  <2>3. SemEnqueueSignal(s, TRUE, q, n, p) = SemEnqueue(s, TRUE, op)
    BY <2>1 DEF SemEnqueueSignal, OpPayload
  <2> QED BY <2>2, <2>3, EnqueueLast DEF CanBeWaited
<1>4. ~CanBeWaited(SemEnqueueWait(s, TRUE, q, n, p)) /\ Below(SemEnqueueWait(s, TRUE, q, n, p))
  <2>1. PICK r : r = [s EXCEPT !.scope = IF @ = "kSyncScopeExternalTemporary" THEN "kSyncScopeInternal" ELSE @]
    OBVIOUS
  <2>2. r \in SemRecord /\ r.operations = s.operations /\ r.next_payload = s.next_payload
    BY <2>1 DEF SemRecord, SyncScope
  <2>3. PICK op : op = NewOp("kWait", q, n, r.next_payload)
    OBVIOUS
  <2>4. op \in SemOp /\ op.payload = r.next_payload /\ op.op_type = "kWait"
    <3>1. PICK t \in OpType, v \in Nat : t = "kWait" /\ v = r.next_payload
      BY <1>2, <2>2
    <3> QED BY <1>1, <2>3, <3>1
  <2>5. SemEnqueueWait(s, TRUE, q, n, p) = SemEnqueue(r, TRUE, op)
    BY <2>1, <2>3 DEF SemEnqueueWait, OpPayload
  <2>6. Below(r)
    BY <2>2 DEF Below
  <2>7. LastSemOp(SemEnqueue(r, TRUE, op)) = op /\ Below(SemEnqueue(r, TRUE, op))
    BY <2>2, <2>4, <2>6, EnqueueLast
  <2> QED BY <2>4, <2>5, <2>7 DEF CanBeWaited
<1>5. CanBeWaited(SemEnqueueAcquire(s)) /\ Below(SemEnqueueAcquire(s))
  <2>1. PICK op : op = NewOp("kBinaryAcquire", NoQueue, 0, s.next_payload)
    OBVIOUS
  <2>2. op \in SemOp /\ op.payload = s.next_payload /\ op.op_type = "kBinaryAcquire"
    <3>1. PICK t \in OpType, v \in Nat : t = "kBinaryAcquire" /\ v = s.next_payload
      BY <1>2
    <3> QED BY <1>1, <2>1, <3>1
  <2>3. SemEnqueueAcquire(s) = SemEnqueue(s, TRUE, op)
    BY <2>1 DEF SemEnqueueAcquire
  <2> QED BY <2>2, <2>3, EnqueueLast DEF CanBeWaited
<1> QED BY <1>3, <1>4, <1>5

\* The last operation stays the last when an entry is retired, whatever is left behind it.
LEMMA RetireVerdict ==
    ASSUME NEW s \in SemRecord, s.operations # << >>
    PROVE  (CanBeWaited(RetireHead(s)) <=> CanBeWaited(s)) /\ (Below(s) => Below(RetireHead(s)))
<1> DEFINE ops == s.operations
<1>1. ops \in Seq(SemOp) /\ s.operations = ops
  BY DEF SemRecord
<1>2. Len(ops) \in Nat /\ DOMAIN ops = 1..Len(ops) /\ Len(ops) # 0
  BY <1>1, LenProperties, EmptySeq
<1>3. RetireHead(s).operations = Tail(ops) /\ RetireHead(s).completed = Head(ops) /\ RetireHead(s).next_payload = s.next_payload
  BY DEF RetireHead, SemRecord
<1>4. /\ Tail(ops) \in Seq(SemOp) /\ Len(Tail(ops)) = Len(ops) - 1 /\ Head(ops) = ops[1]
      /\ \A i \in 1..(Len(ops) - 1) : Tail(ops)[i] = ops[i + 1]
  BY <1>1, HeadTailProperties
<1>5. DOMAIN Tail(ops) = 1..(Len(ops) - 1)
  BY <1>4, LenProperties
<1> HIDE DEF ops
<1>6. LastSemOp(RetireHead(s)) = LastSemOp(s)
  <2>1. LastSemOp(s) = ops[Len(ops)]
    BY <1>1 DEF LastSemOp
  <2>2. CASE Len(ops) = 1
    <3>1. Tail(ops) = << >>
      <4>1. Len(Tail(ops)) = 0
        BY <1>4, <2>2
      <4> QED BY <1>4, <4>1, EmptySeq
    <3> QED BY <1>3, <1>4, <2>1, <2>2, <3>1 DEF LastSemOp
  <2>3. CASE Len(ops) # 1
    <3>1. Len(ops) - 1 \in 1..(Len(ops) - 1) /\ (Len(ops) - 1) + 1 = Len(ops)
      BY <1>2, <2>3
    <3>2. Tail(ops) # << >>
      <4>1. Len(Tail(ops)) # 0
        BY <1>2, <1>4, <2>3
      <4> QED BY <1>4, <4>1, EmptySeq
    <3> QED BY <1>3, <1>4, <2>1, <3>1, <3>2 DEF LastSemOp
  <2> QED BY <2>2, <2>3
<1>7. ASSUME Below(s) PROVE Below(RetireHead(s))
  <2>1. ASSUME NEW i \in 1..(Len(ops) - 1) PROVE Tail(ops)[i].payload < s.next_payload
    <3>1. i + 1 \in DOMAIN ops
      BY <1>2
    <3> QED BY <1>1, <1>4, <1>7, <3>1 DEF Below
  <2> QED BY <1>3, <1>5, <2>1 DEF Below
<1> QED BY <1>6, <1>7 DEF CanBeWaited

\* Import and export change the scope only.
LEMMA ShareVerdict ==
    ASSUME NEW s \in SemRecord, NEW b \in BOOLEAN
    PROVE  /\ (CanBeWaited(SemImport(s, b)) <=> CanBeWaited(s)) /\ (Below(s) => Below(SemImport(s, b)))
           /\ (CanBeWaited(SemExport(s, b)) <=> CanBeWaited(s)) /\ (Below(s) => Below(SemExport(s, b)))
BY DEF SemImport, SemExport, SemRecord, CanBeWaited, LastSemOp, Below

-----------------------------------------------------------------------------
(* What is left to tell *)

\* VerdictInv with the indices of an operation not bounded: UntoldOp says what they are.
NoneLeft(s) == \A h \in Host : \A i, k, w : ~UntoldOp(h, i, k, s, w)
LastBatch(h, i, s) == \A j, l, v : UntoldOp(h, j, l, s, v) => j <= i
ToldRight == \A s \in BinarySem : NoneLeft(s) => (CanBeWaited(sem[s]) <=> Raised(s))
LeftRight ==
    \A s \in BinarySem, h \in Host : \A i, k, w : UntoldOp(h, i, k, s, w) /\ LastBatch(h, i, s) => (w <=> ~Raised(s))

LEMMA UntoldIndices ==
    ASSUME NEW h, NEW i, NEW k, NEW s, NEW w, UntoldOp(h, i, k, s, w)
    PROVE  i \in DOMAIN call[h].batches /\ k \in Ops(call[h].batches[i]) /\ w \in BOOLEAN
BY DEF UntoldOp, IsWait

LEMMA VerdictIs == VerdictInv <=> SubOps /\ OneCall /\ HostFrames /\ AllBelow /\ ToldRight /\ LeftRight
<1>1. \A s : NoneLeft(s) <=> \A h \in Host : \A i \in DOMAIN call[h].batches : \A k \in Ops(call[h].batches[i]), w \in BOOLEAN :
                                ~UntoldOp(h, i, k, s, w)
  BY UntoldIndices DEF NoneLeft
<1>2. \A h, i, s : LastBatch(h, i, s) <=>
         \A j \in DOMAIN call[h].batches : \A l \in Ops(call[h].batches[j]), v \in BOOLEAN : UntoldOp(h, j, l, s, v) => j <= i
  BY UntoldIndices DEF LastBatch
<1>3. ToldVerdict <=> ToldRight
  BY <1>1 DEF ToldVerdict, ToldRight
<1>4. UntoldVerdict <=> LeftRight
  BY <1>2, UntoldIndices DEF UntoldVerdict, LeftRight
<1> QED BY <1>3, <1>4 DEF VerdictInv

LEMMA VerdictIsNext == (VerdictInv <=> SubOps /\ OneCall /\ HostFrames /\ AllBelow /\ ToldRight /\ LeftRight)'
BY VerdictIs, PTL

\* What is left to tell is the same.
SameLeft == \A h \in Host : \A i, k, s, w : UntoldOp(h, i, k, s, w)' <=> UntoldOp(h, i, k, s, w)

\* No submission begins, and none gets more semaphores.
Shrink == \A h \in Host : hpc'[h] \in SubmitPc => hpc[h] \in SubmitPc /\ SemsOf(call'[h].batches) \subseteq SemsOf(call[h].batches)

\* Validation reads the same of every binary semaphore, and the application says the same.
Unchanged == \A s \in BinarySem : /\ app_sem'[s] = app_sem[s]
                                  /\ CanBeWaited(sem'[s]) <=> CanBeWaited(sem[s])
                                  /\ Below(sem[s]) => Below(sem'[s])

LEMMA ShrinkOneCall == ASSUME OneCall, Shrink PROVE OneCall'
BY DEF OneCall, Shrink

LEMMA QuietVerdict ==
    ASSUME VerdictInv, SameLeft, SubOps', OneCall', HostFrames', Unchanged
    PROVE  VerdictInv'
<1>1. AllBelow /\ ToldRight /\ LeftRight
  BY VerdictIs
<1>2. AllBelow'
  BY <1>1 DEF AllBelow, Unchanged, Below
<1>3. ToldRight'
  BY <1>1 DEF ToldRight, NoneLeft, SameLeft, Unchanged, Raised
<1>4. LeftRight'
  <2>1. \A h \in Host : \A i, s : LastBatch(h, i, s)' <=> LastBatch(h, i, s)
    BY DEF SameLeft, LastBatch
  <2> QED BY <1>1, <2>1 DEF LeftRight, SameLeft, Unchanged, Raised
<1> QED BY <1>2, <1>3, <1>4, VerdictIsNext

\* Steps outside submissions leave all of it alone.
LEMMA ElsewhereLeft ==
    ASSUME NEW h \in Host, Elsewhere(h), SubOps, OneCall
    PROVE  SameLeft /\ SubOps' /\ OneCall'
<1>1. SameLeft
  BY DEF Elsewhere, OnlyHost, UntoldOp, SameLeft
<1>2. SubOps'
  <2>1. \A g \in Host : hpc'[g] \in {"seq", "enqueue"} => hpc'[g] = hpc[g] /\ call'[g] = call[g]
    BY SubmitPcOther DEF Elsewhere, OnlyHost
  <2> QED BY <2>1 DEF SubOps
<1>3. Shrink
  BY DEF Elsewhere, OnlyHost, Shrink
<1> QED BY <1>1, <1>2, <1>3, ShrinkOneCall

LEMMA HostsLeft ==
    ASSUME SubOps, OneCall, hpc' = hpc, call' = call
    PROVE  SameLeft /\ SubOps' /\ OneCall'
BY DEF UntoldOp, SameLeft, SubOps, OneCall

-----------------------------------------------------------------------------
(* Steps of a submission that tell no semaphore anything *)

LEMMA SameOpsWhole == \A b : SameOps(b, b)
BY DEF SameOps

\* A step between the driver's acceptance and the first semaphore.
LEMMA BetweenLeft ==
    ASSUME TypeOK, SubOps, OneCall, NEW h \in Host, OnlyHost(h), hpc[h] \in {"cbs", "seq"}, hpc'[h] \in {"seq", "enqueue"},
           call'[h].batches = call[h].batches, hpc'[h] = "enqueue" => call'[h].idx = 1,
           SameOps(call'[h].sub, call[h].batches[1])
    PROVE  SameLeft /\ SubOps' /\ OneCall'
<1>1. ASSUME NEW g \in Host, NEW i, NEW k, NEW s, NEW w PROVE UntoldOp(g, i, k, s, w)' <=> UntoldOp(g, i, k, s, w)
  <2>1. CASE g # h
    BY <2>1 DEF OnlyHost, UntoldOp
  <2>2. CASE g = h
    <3>1. i \in DOMAIN call[h].batches /\ k \in Ops(call[h].batches[i]) => 1 <= k
      BY DEF Ops
    <3> QED BY <2>2, <3>1, SubmitPcOther DEF UntoldOp
  <2> QED BY <2>1, <2>2
<1>2. SubOps'
  BY DEF OnlyHost, SubOps
<1>3. Shrink
  BY SubmitPcOther DEF OnlyHost, Shrink
<1> QED BY <1>1, <1>2, <1>3, ShrinkOneCall DEF SameLeft

LEMMA SubmitSeqOps ==
    ASSUME TypeOK, SubOps, NEW h \in Host, SubmitSeq(h)
    PROVE  SameOps(call'[h].sub, call[h].batches[1])
<1>1. PICK b, n : b \in CB_SUBMISSION /\ b = call[h].sub /\ n = seq_[call[h].queue] + 1
  BY CallFields
<1>2. call'[h].sub = [b EXCEPT !.seq = n] /\ hpc[h] = "seq"
  BY <1>1, SubmitSeqCall
<1>3. [b EXCEPT !.seq = n].wait_semaphores = b.wait_semaphores /\ [b EXCEPT !.seq = n].signal_semaphores = b.signal_semaphores
  BY DEF CB_SUBMISSION
<1>4. SameOps(b, call[h].batches[1])
  BY <1>1, <1>2 DEF SubOps
<1> QED BY <1>2, <1>3, <1>4 DEF SameOps, OpOn, IsWait

\* The call begins, with semaphores that no other call names.
LEMMA StartLeft ==
    ASSUME TypeOK, TypeOK', SubOps, OneCall, NEW h \in Host, NEW q, NEW bs, QueueSubmit(h, q, bs)
    PROVE  SameLeft /\ SubOps' /\ OneCall'
<1>1. /\ OnlyHost(h) /\ hpc[h] = "idle" /\ hpc'[h] = "driver" /\ call'[h].idx = 0 /\ call'[h].batches = bs
  BY DEF QueueSubmit, OnlyHost, TypeOK, NoCall
<1>2. \A i \in DOMAIN call'[h].batches : i \in Nat /\ i > 0
  <2>1. call'[h].batches \in Seq(CB_SUBMISSION)
    BY DEF TypeOK, Call
  <2> QED BY <2>1, LenProperties
<1>3. ASSUME NEW g \in Host, NEW i, NEW k, NEW s, NEW w PROVE UntoldOp(g, i, k, s, w)' <=> UntoldOp(g, i, k, s, w)
  <2>1. CASE g # h
    BY <1>1, <2>1 DEF OnlyHost, UntoldOp
  <2>2. CASE g = h
    <3>1. ~UntoldOp(h, i, k, s, w)
      BY <1>1, SubmitPcOther DEF UntoldOp
    <3>2. ~UntoldOp(h, i, k, s, w)'
      BY <1>1, <1>2 DEF UntoldOp
    <3> QED BY <2>2, <3>1, <3>2
  <2> QED BY <2>1, <2>2
<1>4. SubOps'
  BY <1>1 DEF OnlyHost, SubOps
<1>5. OneCall'
  <2>1. \A g \in Host : BinarySem \cap SemsOf(call[g].batches) \cap SemsOf(bs) = {}
    BY DEF QueueSubmit, BinaryFree
  <2>2. \A g \in Host : g # h => hpc'[g] = hpc[g] /\ call'[g] = call[g]
    BY <1>1 DEF OnlyHost
  <2> SUFFICES ASSUME NEW g \in Host, NEW k \in Host, g # k, {hpc'[g], hpc'[k]} \subseteq SubmitPc
               PROVE  BinarySem \cap SemsOf(call'[g].batches) \cap SemsOf(call'[k].batches) = {}
    BY DEF OneCall, SemsOf, Elements
  <2>3. CASE g = h
    BY <1>1, <2>1, <2>2, <2>3
  <2>4. CASE k = h
    BY <1>1, <2>1, <2>2, <2>4
  <2>5. CASE g # h /\ k # h
    BY <2>2, <2>5 DEF OneCall
  <2> QED BY <2>3, <2>4, <2>5
<1> QED BY <1>3, <1>4, <1>5 DEF SameLeft

\* fence->EnqueueSignal() comes after the last semaphore.
LEMMA SubmitFenceLeft ==
    ASSUME TypeOK, SubOps, OneCall, NEW h \in Host, SubmitFence(h)
    PROVE  SameLeft /\ SubOps' /\ OneCall'
<1>1. OnlyHost(h) /\ hpc[h] = "enqueue" /\ hpc'[h] = "push" /\ call'[h].batches = call[h].batches
  BY SubmitFenceCall
<1>2. call[h].idx = Len(call[h].batches[1].wait_semaphores) + Len(call[h].batches[1].signal_semaphores) + 1
  <2>1. SameOps(call[h].sub, call[h].batches[1])
    BY <1>1 DEF SubOps
  <2> QED BY <2>1 DEF SubmitFence, SameOps
<1>3. \A k \in Ops(call[h].batches[1]) : ~(call[h].idx <= k)
  <2>1. call[h].batches[1] \in CB_SUBMISSION
    <3>1. 1 \in 1..Len(call[h].batches)
      BY <1>1, BatchOne, CallFields, LenProperties, SubmitPcOther
    <3> QED BY <3>1, CallFields, ElementOfSeq
  <2>2. Len(call[h].batches[1].wait_semaphores) \in Nat /\ Len(call[h].batches[1].signal_semaphores) \in Nat
    BY <2>1, LenProperties DEF CB_SUBMISSION
  <2>3. PICK m \in Nat, n \in Nat : m = Len(call[h].batches[1].wait_semaphores) /\ n = Len(call[h].batches[1].signal_semaphores)
    BY <2>2
  <2>4. Ops(call[h].batches[1]) = 1..(m + n) /\ call[h].idx = m + n + 1
    BY <1>2, <2>3 DEF Ops
  <2> QED BY <2>4
<1>4. ASSUME NEW g \in Host, NEW i, NEW k, NEW s, NEW w PROVE UntoldOp(g, i, k, s, w)' <=> UntoldOp(g, i, k, s, w)
  <2>1. CASE g # h
    BY <1>1, <2>1 DEF OnlyHost, UntoldOp
  <2>2. CASE g = h
    <3>1. \A j \in DOMAIN call[h].batches : j \in Nat /\ j > 0
      BY CallFields, LenProperties
    <3> QED BY <1>1, <1>3, <2>2, <3>1, SubmitPcOther DEF UntoldOp
  <2> QED BY <2>1, <2>2
<1>5. SubOps' /\ Shrink
  BY <1>1, SubmitPcOther DEF OnlyHost, SubOps, Shrink
<1> QED BY <1>4, <1>5, ShrinkOneCall DEF SameLeft

-----------------------------------------------------------------------------
(* The next batch, and the batch the driver accepts *)

\* The indices of what is left move up.
LEMMA PushLeft ==
    ASSUME TypeOK, NEW h \in Host, SubmitPush(h)
    PROVE  /\ \A i, k, s, w : UntoldOp(h, i, k, s, w)' => i \in Nat /\ UntoldOp(h, i + 1, k, s, w)
           /\ \A i, k, s, w : UntoldOp(h, i, k, s, w) => i \in Nat /\ UntoldOp(h, i - 1, k, s, w)'
           /\ hpc'[h] = "cbs" => SemsOf(call'[h].batches) \subseteq SemsOf(call[h].batches)
<1>1. OnlyHost(h) /\ hpc[h] = "push" /\ hpc'[h] \in {"idle", "qnotify", "cbs"}
  BY SubmitPushCall
<1>2. CASE hpc'[h] # "cbs"
  <2>1. \A i, k, s, w : ~UntoldOp(h, i, k, s, w)'
    BY <1>1, <1>2, SubmitPcOther DEF UntoldOp
  <2>2. DOMAIN call[h].batches = {1}
    <3>1. Len(call[h].batches) = 1
      BY <1>2, SubmitPushCall
    <3> QED BY <3>1, CallFields, LenProperties
  <2>3. \A i, k, s, w : ~UntoldOp(h, i, k, s, w)
    BY <1>1, <2>2 DEF UntoldOp
  <2> QED BY <1>2, <2>1, <2>3
<1>3. CASE hpc'[h] = "cbs"
  <2>1. PICK bs \in Seq(CB_SUBMISSION) : bs = call[h].batches
    BY CallFields
  <2>2. call'[h].batches = Tail(bs) /\ Len(bs) > 1 /\ Len(bs) \in Nat
    BY <1>3, <2>1, SubmitPushCall, LenProperties
  <2>3. bs # << >>
    BY <2>2, EmptySeq
  <2>4. /\ DOMAIN bs = 1..Len(bs) /\ DOMAIN Tail(bs) = 1..(Len(bs) - 1)
        /\ \A i \in 1..(Len(bs) - 1) : Tail(bs)[i] = bs[i + 1] /\ i + 1 \in 1..Len(bs)
    BY <2>2, <2>3, LenProperties, HeadTailProperties
  <2> DEFINE At(b, k, s, w) == k \in Ops(b) /\ s = OpOn(b, k) /\ w = IsWait(b, k)
  <2>5. \A i, k, s, w : UntoldOp(h, i, k, s, w) <=> i \in 1..Len(bs) /\ i > 1 /\ At(bs[i], k, s, w)
    BY <1>1, <2>1, <2>4, SubmitPcOther DEF UntoldOp
  <2>6. \A i, k, s, w : UntoldOp(h, i, k, s, w)' <=> i \in 1..(Len(bs) - 1) /\ At(bs[i + 1], k, s, w)
    BY <1>3, <2>2, <2>4, SubmitPcOther DEF UntoldOp
  <2> HIDE DEF At
  <2>7. ASSUME NEW i, NEW k, NEW s, NEW w, UntoldOp(h, i, k, s, w)' PROVE i \in Nat /\ UntoldOp(h, i + 1, k, s, w)
    BY <2>2, <2>5, <2>6, <2>7
  <2>8. ASSUME NEW i, NEW k, NEW s, NEW w, UntoldOp(h, i, k, s, w) PROVE i \in Nat /\ UntoldOp(h, i - 1, k, s, w)'
    <3>1. i \in 1..Len(bs) /\ i > 1 /\ At(bs[i], k, s, w)
      BY <2>5, <2>8
    <3>2. i \in Nat /\ i - 1 \in 1..(Len(bs) - 1) /\ (i - 1) + 1 = i
      BY <2>2, <3>1
    <3>3. At(bs[(i - 1) + 1], k, s, w)
      BY <3>1, <3>2
    <3> QED BY <2>6, <3>2, <3>3
  <2>9. SemsOf(Tail(bs)) \subseteq SemsOf(bs)
    <3>1. ASSUME NEW i \in 1..(Len(bs) - 1)
          PROVE  \E j \in DOMAIN bs : Tail(bs)[i] = bs[j]
      BY <2>4
    <3> QED BY <2>4, <3>1 DEF SemsOf
  <2> QED BY <1>3, <2>1, <2>2, <2>7, <2>8, <2>9
<1> QED BY <1>2, <1>3

LEMMA VerdictSubmitPush ==
    ASSUME TypeOK, VerdictInv, HostFrames', NEW h \in Host, SubmitPush(h)
    PROVE  VerdictInv'
<1>1. SubOps /\ OneCall /\ AllBelow /\ ToldRight /\ LeftRight
  BY VerdictIs
<1>2. OnlyHost(h) /\ hpc[h] = "push" /\ hpc'[h] \in {"idle", "qnotify", "cbs"} /\ sem' = sem /\ app_sem' = app_sem
  <2>1. sem' = sem /\ app_sem' = app_sem
    BY DEF SubmitPush, deviceVars
  <2>2. OnlyHost(h) /\ hpc[h] = "push" /\ hpc'[h] \in {"idle", "qnotify", "cbs"}
    BY SubmitPushCall
  <2> QED BY <2>1, <2>2
<1>3. \A g \in Host : \A i, k, s, w : g # h => (UntoldOp(g, i, k, s, w)' <=> UntoldOp(g, i, k, s, w))
  BY <1>2 DEF OnlyHost, UntoldOp
<1>4. SubOps' /\ Shrink
  <2>1. SubOps'
    BY <1>1, <1>2 DEF OnlyHost, SubOps
  <2>2. hpc'[h] \in SubmitPc => hpc[h] \in SubmitPc /\ SemsOf(call'[h].batches) \subseteq SemsOf(call[h].batches)
    BY <1>2, PushLeft, SubmitPcOther
  <2> QED BY <1>2, <2>1, <2>2 DEF OnlyHost, Shrink
<1>5. AllBelow'
  BY <1>1, <1>2 DEF AllBelow, Below
<1>6. ToldRight'
  <2> SUFFICES ASSUME NEW s \in BinarySem, NoneLeft(s)' PROVE CanBeWaited(sem[s]) <=> Raised(s)
    BY <1>2 DEF ToldRight, Raised
  <2>1. NoneLeft(s)
    BY <1>3, PushLeft DEF NoneLeft
  <2> QED BY <1>1, <2>1 DEF ToldRight
<1>7. LeftRight'
  <2> SUFFICES ASSUME NEW s \in BinarySem, NEW g \in Host, NEW i, NEW k, NEW w, UntoldOp(g, i, k, s, w)', LastBatch(g, i, s)'
               PROVE  w <=> ~Raised(s)
    BY <1>2 DEF LeftRight, Raised
  <2>1. CASE g # h
    <3>1. UntoldOp(g, i, k, s, w) /\ LastBatch(g, i, s)
      BY <1>3, <2>1 DEF LastBatch
    <3> QED BY <1>1, <3>1 DEF LeftRight
  <2>2. CASE g = h
    <3>1. i \in Nat /\ UntoldOp(h, i + 1, k, s, w)
      BY <2>2, PushLeft
    <3>2. ASSUME NEW j, NEW l, NEW v, UntoldOp(h, j, l, s, v) PROVE j <= i + 1
      <4>1. j \in Nat /\ UntoldOp(h, j - 1, l, s, v)'
        BY <3>2, PushLeft
      <4>2. j - 1 <= i
        BY <2>2, <4>1 DEF LastBatch
      <4> QED BY <3>1, <4>1, <4>2
    <3>3. LastBatch(h, i + 1, s)
      BY <3>2 DEF LastBatch
    <3> QED BY <1>1, <3>1, <3>3 DEF LeftRight
  <2> QED BY <2>1, <2>2
<1> QED BY <1>1, <1>4, <1>5, <1>6, <1>7, ShrinkOneCall, VerdictIsNext

-----------------------------------------------------------------------------
(* A semaphore is told *)

LEMMA SameLength ==
    ASSUME NEW S, NEW f \in Seq(S), NEW g \in Seq(S), DOMAIN f = DOMAIN g
    PROVE  Len(f) = Len(g)
<1>1. PICK m \in Nat : m = Len(f) /\ DOMAIN f = 1..m
  BY LenProperties
<1>2. PICK n \in Nat : n = Len(g) /\ DOMAIN g = 1..n
  BY LenProperties
<1>3. 1..m = 1..n
  BY <1>1, <1>2
<1>4. m = n
  BY <1>3
<1> QED BY <1>1, <1>2, <1>4

\* The payload of one operation is written.
PaysWait(b, k, p, c)   == c = [b EXCEPT !.wait_semaphores = [b.wait_semaphores EXCEPT ![k] = [b.wait_semaphores[k] EXCEPT !.payload = p]]]
PaysSignal(b, i, p, c) == c = [b EXCEPT !.signal_semaphores = [b.signal_semaphores EXCEPT ![i] = [b.signal_semaphores[i] EXCEPT !.payload = p]]]

LEMMA WaitPayload ==
    ASSUME NEW b \in CB_SUBMISSION, NEW c \in CB_SUBMISSION, NEW j \in 1..Len(b.wait_semaphores), NEW p,
           PaysWait(b, j, p, c)
    PROVE  SameOps(c, b)
<1>1. /\ b.wait_semaphores \in Seq(SemInfo) /\ c.wait_semaphores \in Seq(SemInfo)
      /\ c.wait_semaphores = [b.wait_semaphores EXCEPT ![j] = [b.wait_semaphores[j] EXCEPT !.payload = p]]
      /\ c.signal_semaphores = b.signal_semaphores
  BY DEF CB_SUBMISSION, PaysWait
<1>2. DOMAIN c.wait_semaphores = DOMAIN b.wait_semaphores
  BY <1>1
<1>3. Len(c.wait_semaphores) = Len(b.wait_semaphores)
  BY <1>1, <1>2, SameLength
<1>4. ASSUME NEW k \in Ops(b), IsWait(b, k) PROVE c.wait_semaphores[k].semaphore = b.wait_semaphores[k].semaphore
  <2>1. k \in 1..Len(b.wait_semaphores)
    BY <1>1, <1>4, LenProperties DEF Ops, IsWait
  <2>2. b.wait_semaphores[k] \in SemInfo /\ k \in DOMAIN b.wait_semaphores
    BY <1>1, <2>1, ElementOfSeq, LenProperties
  <2> QED BY <1>1, <2>2 DEF SemInfo
<1> QED BY <1>1, <1>3, <1>4 DEF SameOps, OpOn, IsWait

LEMMA SignalPayload ==
    ASSUME NEW b \in CB_SUBMISSION, NEW c \in CB_SUBMISSION, NEW j \in 1..Len(b.signal_semaphores), NEW p,
           PaysSignal(b, j, p, c)
    PROVE  SameOps(c, b)
<1>1. /\ b.signal_semaphores \in Seq(SemInfo) /\ c.signal_semaphores \in Seq(SemInfo) /\ b.wait_semaphores \in Seq(SemInfo)
      /\ c.signal_semaphores = [b.signal_semaphores EXCEPT ![j] = [b.signal_semaphores[j] EXCEPT !.payload = p]]
      /\ c.wait_semaphores = b.wait_semaphores
  BY DEF CB_SUBMISSION, PaysSignal
<1>2. DOMAIN c.signal_semaphores = DOMAIN b.signal_semaphores
  BY <1>1
<1>3. Len(c.signal_semaphores) = Len(b.signal_semaphores)
  BY <1>1, <1>2, SameLength
<1>4. ASSUME NEW k \in Ops(b), ~IsWait(b, k), NEW l, l = k - Len(b.wait_semaphores)
      PROVE  c.signal_semaphores[l].semaphore = b.signal_semaphores[l].semaphore
  <2>1. l \in 1..Len(b.signal_semaphores)
    <3>1. Len(b.wait_semaphores) \in Nat /\ Len(b.signal_semaphores) \in Nat
      BY <1>1, LenProperties
    <3>2. PICK m \in Nat, n \in Nat : m = Len(b.wait_semaphores) /\ n = Len(b.signal_semaphores)
      BY <3>1
    <3>3. k \in 1..(m + n) /\ ~(k <= m) /\ l = k - m
      BY <1>4, <3>2 DEF Ops, IsWait
    <3>4. l \in 1..n
      BY <3>3
    <3> QED BY <3>2, <3>4
  <2>2. b.signal_semaphores[l] \in SemInfo /\ l \in DOMAIN b.signal_semaphores
    BY <1>1, <2>1, ElementOfSeq, LenProperties
  <2> QED BY <1>1, <2>2 DEF SemInfo
<1> QED BY <1>1, <1>3, <1>4 DEF SameOps, OpOn, IsWait

LEMMA SubmitSignalOps ==
    ASSUME TypeOK, NEW h \in Host, SubmitSignal(h), NEW i, i = call[h].idx - Len(call[h].sub.wait_semaphores)
    PROVE  i \in 1..Len(call[h].sub.signal_semaphores) /\ call'[h].sub \in CB_SUBMISSION => SameOps(call'[h].sub, call[h].sub)
<1>1. PICK w, p : w = call[h].sub.signal_semaphores[i] /\ p = OpPayload(sem[w.semaphore], w.semaphore \in BinarySem, w.payload)
  OBVIOUS
<1> DEFINE sub2 == [call[h].sub EXCEPT !.signal_semaphores = [call[h].sub.signal_semaphores EXCEPT ![i] = [w EXCEPT !.payload = p]]]
           c == [call[h] EXCEPT !.idx = call[h].idx + 1, !.sub = sub2]
<1>2. call'[h].sub = sub2
  <2>1. call' = [call EXCEPT ![h] = c]
    <3>1. call' = SignalWritten(call, h, SignalAt(h), SignalPays(h))
      BY SubmitSignalWrites
    <3>2. SignalPays(h) = p /\ SignalAt(h) = i
      BY <1>1 DEF SignalPays, SignalAt
    <3> QED BY <1>1, <3>1, <3>2 DEF SignalWritten
  <2>2. call'[h] = c
    BY <2>1 DEF TypeOK
  <2> QED BY <2>2, CallFields DEF Call
<1>3. call[h].sub \in CB_SUBMISSION
  BY DEF TypeOK, Call
<1>4. PaysSignal(call[h].sub, i, p, call'[h].sub)
  BY <1>1, <1>2 DEF PaysSignal
<1> QED BY <1>3, <1>4, SignalPayload

LEMMA SameOpsTrans ==
    ASSUME NEW a, NEW b, NEW c, SameOps(a, b), SameOps(b, c)
    PROVE  SameOps(a, c)
BY DEF SameOps, Ops

\* One operation less is left to tell: the one at idx.
LEMMA TellLeft ==
    ASSUME TypeOK, TypeOK', SubOps, OneCall, NEW h \in Host, NEW m, m = Len(call[h].sub.wait_semaphores),
           SubmitWait(h) \/ SubmitSignal(h)
    PROVE  /\ OnlyHost(h) /\ hpc[h] = "enqueue" /\ call'[h].batches = call[h].batches /\ SubOps' /\ OneCall'
           /\ \A i, k, s, w : UntoldOp(h, i, k, s, w)' <=> UntoldOp(h, i, k, s, w) /\ ~(i = 1 /\ k = call[h].idx)
           /\ SubmitWait(h) => UntoldOp(h, 1, call[h].idx, call[h].sub.wait_semaphores[call[h].idx].semaphore, TRUE)
           /\ SubmitSignal(h) =>
                 UntoldOp(h, 1, call[h].idx, call[h].sub.signal_semaphores[call[h].idx - m].semaphore, FALSE)
<1>1. /\ OnlyHost(h) /\ hpc[h] = "enqueue" /\ hpc'[h] = "enqueue"
      /\ call'[h].batches = call[h].batches /\ call'[h].idx = call[h].idx + 1
  BY SubmitWaitCall, SubmitSignalCall
<1>2. PICK b \in CB_SUBMISSION, c \in CB_SUBMISSION, first \in CB_SUBMISSION :
         b = call[h].sub /\ c = call'[h].sub /\ first = call[h].batches[1]
  <2>1. call[h].batches[1] \in CB_SUBMISSION
    <3>1. 1 \in 1..Len(call[h].batches)
      BY <1>1, BatchOne, CallFields, LenProperties, SubmitPcOther
    <3> QED BY <3>1, CallFields, ElementOfSeq
  <2>2. call[h].sub \in CB_SUBMISSION /\ call'[h].sub \in CB_SUBMISSION
    BY DEF TypeOK, Call
  <2> QED BY <2>1, <2>2
<1>3. PICK n \in Nat, x \in Nat : n = Len(b.signal_semaphores) /\ x = call[h].idx /\ m \in Nat
  BY <1>2, CallFields, LenProperties DEF CB_SUBMISSION
<1>4. SameOps(b, first)
  BY <1>1, <1>2 DEF SubOps
<1>5. Ops(first) = 1..(m + n) /\ Len(first.wait_semaphores) = m
  BY <1>2, <1>3, <1>4 DEF SameOps, Ops
<1>6. ASSUME SubmitWait(h)
      PROVE  /\ SameOps(c, b) /\ x \in Ops(first) /\ IsWait(first, x) = TRUE /\ ~SubmitSignal(h)
             /\ OpOn(first, x) = b.wait_semaphores[x].semaphore
  <2>1. x \in 1..m
    BY <1>2, <1>3, <1>6 DEF SubmitWait
  <2>2. SameOps(c, b)
    <3>1. \E p : c = [b EXCEPT !.wait_semaphores = [b.wait_semaphores EXCEPT ![x] = [b.wait_semaphores[x] EXCEPT !.payload = p]]]
      <4>1. \E p : call'[h].sub = [call[h].sub EXCEPT !.wait_semaphores =
                        [call[h].sub.wait_semaphores EXCEPT ![call[h].idx] = [call[h].sub.wait_semaphores[call[h].idx] EXCEPT !.payload = p]]]
        BY <1>6, SubmitWaitCall
      <4> QED BY <1>2, <1>3, <4>1
    <3>2. PICK p : c = [b EXCEPT !.wait_semaphores = [b.wait_semaphores EXCEPT ![x] = [b.wait_semaphores[x] EXCEPT !.payload = p]]]
      BY <3>1
    <3>3. PaysWait(b, x, p, c)
      BY <3>2 DEF PaysWait
    <3> QED BY <1>2, <2>1, <3>3, WaitPayload
  <2>3. x \in Ops(first)
    <3>1. m \in Nat /\ n \in Nat /\ x \in 1..m => x \in 1..(m + n)
      OBVIOUS
    <3> QED BY <1>3, <1>5, <2>1, <3>1
  <2>4. IsWait(first, x) = TRUE /\ IsWait(b, x)
    BY <1>2, <1>3, <1>5, <2>1 DEF IsWait
  <2>5. OpOn(first, x) = b.wait_semaphores[x].semaphore
    <3>1. OpOn(b, x) = OpOn(first, x)
      BY <1>4, <2>3 DEF SameOps
    <3> QED BY <2>4, <3>1 DEF OpOn
  <2>6. ~SubmitSignal(h)
    <3>1. SubmitSignal(h) => x - m \in 1..n
      BY <1>2, <1>3 DEF SubmitSignal
    <3> QED BY <1>3, <2>1, <3>1
  <2> QED BY <2>2, <2>3, <2>4, <2>5, <2>6
<1>7. ASSUME SubmitSignal(h)
      PROVE  /\ SameOps(c, b) /\ x \in Ops(first) /\ IsWait(first, x) = FALSE /\ ~SubmitWait(h)
             /\ OpOn(first, x) = b.signal_semaphores[x - m].semaphore
  <2>1. x - m \in 1..n
    BY <1>2, <1>3, <1>7 DEF SubmitSignal
  <2>2. SameOps(c, b)
    <3>1. PICK i : i = call[h].idx - Len(call[h].sub.wait_semaphores)
      OBVIOUS
    <3>2. i \in 1..Len(call[h].sub.signal_semaphores)
      BY <1>2, <1>3, <2>1, <3>1
    <3> QED BY <1>2, <1>7, <3>1, <3>2, SubmitSignalOps
  <2>3. x \in Ops(first) /\ ~(x <= m)
    <3>1. m \in Nat /\ n \in Nat /\ x \in Nat /\ x - m \in 1..n => x \in 1..(m + n) /\ ~(x <= m)
      OBVIOUS
    <3> QED BY <1>3, <1>5, <2>1, <3>1
  <2>4. IsWait(first, x) = FALSE /\ ~IsWait(b, x)
    BY <1>2, <1>5, <2>3 DEF IsWait
  <2>5. OpOn(first, x) = b.signal_semaphores[x - m].semaphore
    <3>1. OpOn(b, x) = OpOn(first, x)
      BY <1>4, <2>3 DEF SameOps
    <3> QED BY <1>2, <2>4, <3>1 DEF OpOn
  <2>6. ~SubmitWait(h)
    <3>1. SubmitWait(h) => x \in 1..m
      BY <1>2, <1>3 DEF SubmitWait
    <3> QED BY <1>3, <2>1, <3>1
  <2> QED BY <2>2, <2>3, <2>4, <2>5, <2>6
<1>8. SameOps(c, b) /\ x \in Ops(first)
  BY <1>6, <1>7
<1>9. \A i, k, s, w : UntoldOp(h, i, k, s, w)' <=> UntoldOp(h, i, k, s, w) /\ ~(i = 1 /\ k = call[h].idx)
  <2> SUFFICES ASSUME NEW i, NEW k, NEW s, NEW w
               PROVE  UntoldOp(h, i, k, s, w)' <=> UntoldOp(h, i, k, s, w) /\ ~(i = 1 /\ k = x)
    BY <1>3
  <2> DEFINE At == /\ i \in DOMAIN call[h].batches /\ k \in Ops(call[h].batches[i])
                   /\ s = OpOn(call[h].batches[i], k) /\ w = IsWait(call[h].batches[i], k)
  <2>1. UntoldOp(h, i, k, s, w) <=> At /\ (i = 1 => x <= k)
    BY <1>1, <1>3, SubmitPcOther DEF UntoldOp
  <2>2. UntoldOp(h, i, k, s, w)' <=> At /\ (i = 1 => x + 1 <= k)
    BY <1>1, <1>3, SubmitPcOther DEF UntoldOp
  <2>3. ASSUME At, i = 1 PROVE (x + 1 <= k) <=> (x <= k /\ k # x)
    <3>1. k \in 1..(m + n)
      BY <1>2, <1>5, <2>3
    <3> QED BY <1>3, <3>1
  <2> HIDE DEF At
  <2> QED BY <2>1, <2>2, <2>3
<1>10. SubOps'
  <2>1. SameOps(c, first)
    BY <1>4, <1>8, SameOpsTrans
  <2> QED BY <1>1, <1>2, <2>1 DEF SubOps, OnlyHost
<1>11. OneCall'
  <2>1. Shrink
    BY <1>1 DEF OnlyHost, Shrink
  <2> QED BY <2>1, ShrinkOneCall
<1>12. \A s, w : s = OpOn(first, x) /\ w = IsWait(first, x) => UntoldOp(h, 1, x, s, w)
  BY <1>1, <1>2, <1>3, <1>8, BatchOne, SubmitPcOther DEF UntoldOp
<1> QED BY <1>1, <1>2, <1>3, <1>6, <1>7, <1>9, <1>10, <1>11, <1>12

\* The semaphore's last operation is the one it was told.
LEMMA TellSem ==
    ASSUME TypeOK, TypeOK', AllBelow, NEW h \in Host, SubmitWait(h) \/ SubmitSignal(h)
    PROVE  \E w \in BOOLEAN, s \in Sem :
              /\ SubmitWait(h) => w /\ s = call[h].sub.wait_semaphores[call[h].idx].semaphore
              /\ SubmitSignal(h) => ~w /\ s = call[h].sub.signal_semaphores[call[h].idx - Len(call[h].sub.wait_semaphores)].semaphore
              /\ app_sem' = app_sem
              /\ \A r \in Sem : r # s => sem'[r] = sem[r]
              /\ s \in BinarySem => Below(sem'[s]) /\ (CanBeWaited(sem'[s]) <=> ~w)
<1>1. PICK b \in CB_SUBMISSION, d \in Call : b = call[h].sub /\ d = call[h]
  BY CallFields
<1>2. b.wait_semaphores \in Seq(SemInfo) /\ b.signal_semaphores \in Seq(SemInfo) /\ b.seq \in Nat /\ d.queue \in Queue \cup {NoQueue}
  BY DEF CB_SUBMISSION, Call
<1>3. CASE SubmitWait(h)
  <2>1. PICK i \in 1..Len(b.wait_semaphores) : i = d.idx
    BY <1>1, <1>3 DEF SubmitWait
  <2>2. PICK v \in SemInfo : v = b.wait_semaphores[i]
    BY <1>2, <2>1, ElementOfSeq
  <2>3. PICK s \in Sem : s = v.semaphore /\ v.payload \in Nat
    BY <2>2 DEF SemInfo
  <2>4. sem' = [sem EXCEPT ![s] = SemEnqueueWait(sem[s], s \in BinarySem, d.queue, b.seq, v.payload)] /\ app_sem' = app_sem
    BY <1>1, <1>3, <2>1, <2>2, <2>3 DEF SubmitWait, deviceVars
  <2>5. \A r \in Sem : r # s => sem'[r] = sem[r]
    BY <2>4 DEF TypeOK
  <2>6. ASSUME s \in BinarySem PROVE Below(sem'[s]) /\ ~CanBeWaited(sem'[s])
    <3>1. sem'[s] = SemEnqueueWait(sem[s], TRUE, d.queue, b.seq, v.payload) /\ sem[s] \in SemRecord /\ Below(sem[s])
      <4>1. (s \in BinarySem) = TRUE
        BY <2>6
      <4>2. DOMAIN sem = Sem /\ sem[s] \in SemRecord
        BY DEF TypeOK
      <4>3. sem'[s] = SemEnqueueWait(sem[s], s \in BinarySem, d.queue, b.seq, v.payload)
        BY <2>4, <4>2
      <4>4. Below(sem[s])
        BY <2>6 DEF AllBelow
      <4> QED BY <4>1, <4>2, <4>3, <4>4
    <3>2. PICK r \in SemRecord, x \in Queue \cup {NoQueue}, n \in Nat, p \in Nat :
             r = sem[s] /\ x = d.queue /\ n = b.seq /\ p = v.payload
      BY <1>2, <2>3, <3>1
    <3>3. Below(r)
      BY <3>1, <3>2
    <3>4. ~CanBeWaited(SemEnqueueWait(r, TRUE, x, n, p)) /\ Below(SemEnqueueWait(r, TRUE, x, n, p))
      BY <3>3, EnqueueVerdict
    <3> QED BY <3>1, <3>2, <3>4
  <2>7. d.idx = i /\ s = call[h].sub.wait_semaphores[call[h].idx].semaphore
    BY <1>1, <2>1, <2>2, <2>3
  <2>8. ~SubmitSignal(h)
    <3>1. PICK m \in Nat, n \in Nat : m = Len(b.wait_semaphores) /\ n = Len(b.signal_semaphores)
      BY <1>2, LenProperties
    <3>2. SubmitSignal(h) => i - m \in 1..n
      BY <1>1, <2>1, <3>1 DEF SubmitSignal
    <3>3. i \in 1..m
      BY <2>1, <3>1
    <3> QED BY <3>1, <3>2, <3>3
  <2> QED BY <1>3, <2>4, <2>5, <2>6, <2>7, <2>8
<1>4. CASE SubmitSignal(h)
  <2>1. PICK i \in 1..Len(b.signal_semaphores) : i = d.idx - Len(b.wait_semaphores)
    BY <1>1, <1>4 DEF SubmitSignal
  <2>2. PICK v \in SemInfo : v = b.signal_semaphores[i]
    BY <1>2, <2>1, ElementOfSeq
  <2>3. PICK s \in Sem : s = v.semaphore /\ v.payload \in Nat
    BY <2>2 DEF SemInfo
  <2>4. sem' = [sem EXCEPT ![s] = SemEnqueueSignal(sem[s], s \in BinarySem, d.queue, b.seq, v.payload)] /\ app_sem' = app_sem
    BY <1>1, <1>4, <2>1, <2>2, <2>3 DEF SubmitSignal, deviceVars
  <2>5. \A r \in Sem : r # s => sem'[r] = sem[r]
    BY <2>4 DEF TypeOK
  <2>6. ASSUME s \in BinarySem PROVE Below(sem'[s]) /\ CanBeWaited(sem'[s])
    <3>1. sem'[s] = SemEnqueueSignal(sem[s], TRUE, d.queue, b.seq, v.payload) /\ sem[s] \in SemRecord /\ Below(sem[s])
      <4>1. (s \in BinarySem) = TRUE
        BY <2>6
      <4>2. DOMAIN sem = Sem /\ sem[s] \in SemRecord
        BY DEF TypeOK
      <4>3. sem'[s] = SemEnqueueSignal(sem[s], s \in BinarySem, d.queue, b.seq, v.payload)
        BY <2>4, <4>2
      <4>4. Below(sem[s])
        BY <2>6 DEF AllBelow
      <4> QED BY <4>1, <4>2, <4>3, <4>4
    <3>2. PICK r \in SemRecord, x \in Queue \cup {NoQueue}, n \in Nat, p \in Nat :
             r = sem[s] /\ x = d.queue /\ n = b.seq /\ p = v.payload
      BY <1>2, <2>3, <3>1
    <3>3. Below(r)
      BY <3>1, <3>2
    <3>4. CanBeWaited(SemEnqueueSignal(r, TRUE, x, n, p)) /\ Below(SemEnqueueSignal(r, TRUE, x, n, p))
      BY <3>3, EnqueueVerdict
    <3> QED BY <3>1, <3>2, <3>4
  <2>7. s = call[h].sub.signal_semaphores[call[h].idx - Len(call[h].sub.wait_semaphores)].semaphore
    BY <1>1, <2>1, <2>2, <2>3
  <2>8. ~SubmitWait(h)
    <3>1. PICK m \in Nat, n \in Nat : m = Len(b.wait_semaphores) /\ n = Len(b.signal_semaphores)
      BY <1>2, LenProperties
    <3>2. SubmitWait(h) => d.idx \in 1..m
      BY <1>1, <3>1 DEF SubmitWait
    <3>3. d.idx - m \in 1..n
      BY <2>1, <3>1
    <3> QED BY <3>1, <3>2, <3>3
  <2> QED BY <1>4, <2>4, <2>5, <2>6, <2>7, <2>8
<1> QED BY <1>3, <1>4

LEMMA VerdictTell ==
    ASSUME TypeOK, TypeOK', VerdictInv, HostFrames', NEW h \in Host, SubmitWait(h) \/ SubmitSignal(h)
    PROVE  VerdictInv'
<1>1. SubOps /\ OneCall /\ AllBelow /\ ToldRight /\ LeftRight
  BY VerdictIs
<1>2. PICK x, m : x = call[h].idx /\ m = Len(call[h].sub.wait_semaphores)
  OBVIOUS
<1>3. PICK w \in BOOLEAN, s \in Sem :
         /\ SubmitWait(h) => w /\ s = call[h].sub.wait_semaphores[x].semaphore
         /\ SubmitSignal(h) => ~w /\ s = call[h].sub.signal_semaphores[x - m].semaphore
         /\ app_sem' = app_sem
         /\ \A r \in Sem : r # s => sem'[r] = sem[r]
         /\ s \in BinarySem => Below(sem'[s]) /\ (CanBeWaited(sem'[s]) <=> ~w)
  BY <1>1, <1>2, TellSem
<1>4. /\ OnlyHost(h) /\ hpc[h] = "enqueue" /\ call'[h].batches = call[h].batches /\ SubOps' /\ OneCall'
      /\ \A i, k, r, v : UntoldOp(h, i, k, r, v)' <=> UntoldOp(h, i, k, r, v) /\ ~(i = 1 /\ k = x)
      /\ SubmitWait(h) => UntoldOp(h, 1, x, call[h].sub.wait_semaphores[x].semaphore, TRUE)
      /\ SubmitSignal(h) => UntoldOp(h, 1, x, call[h].sub.signal_semaphores[x - m].semaphore, FALSE)
  BY <1>1, <1>2, TellLeft
<1>5. UntoldOp(h, 1, x, s, w)
  <2>1. CASE SubmitWait(h)
    BY <1>3, <1>4, <2>1
  <2>2. CASE SubmitSignal(h)
    BY <1>3, <1>4, <2>2
  <2> QED BY <2>1, <2>2
<1>6. hpc'[h] = "enqueue"
  BY SubmitWaitCall, SubmitSignalCall
<1>7. \A g \in Host : \A i, k, r, v : g # h => (UntoldOp(g, i, k, r, v)' <=> UntoldOp(g, i, k, r, v))
  BY <1>4 DEF OnlyHost, UntoldOp
<1>8. \A r, v : UntoldOp(h, 1, x, r, v) => r = s
  BY <1>5 DEF UntoldOp
<1>9. BinarySem \subseteq Sem
  BY DEF Sem
<1>10. AllBelow'
  <2> SUFFICES ASSUME NEW r \in BinarySem PROVE Below(sem'[r])
    BY DEF AllBelow, Below
  <2> QED BY <1>1, <1>3, <1>9 DEF AllBelow
<1>11. ToldRight'
  <2> SUFFICES ASSUME NEW r \in BinarySem, NoneLeft(r)' PROVE CanBeWaited(sem'[r]) <=> Raised(r)
    BY <1>3 DEF ToldRight, Raised
  <2>1. CASE r # s
    <3>1. NoneLeft(r)
      BY <1>4, <1>7, <1>8, <2>1 DEF NoneLeft
    <3> QED BY <1>1, <1>3, <1>9, <2>1, <3>1 DEF ToldRight
  <2>2. CASE r = s
    <3>1. ASSUME NEW j, NEW l, NEW v, UntoldOp(h, j, l, s, v) PROVE j <= 1
      <4>1. j = 1
        BY <1>4, <2>2, <3>1 DEF NoneLeft
      <4> QED BY <4>1
    <3>2. LastBatch(h, 1, s)
      BY <3>1 DEF LastBatch
    <3>3. w <=> ~Raised(s)
      BY <1>1, <1>5, <2>2, <3>2 DEF LeftRight
    <3> QED BY <1>3, <2>2, <3>3
  <2> QED BY <2>1, <2>2
<1>12. LeftRight'
  <2> SUFFICES ASSUME NEW r \in BinarySem, NEW g \in Host, NEW i, NEW k, NEW v, UntoldOp(g, i, k, r, v)', LastBatch(g, i, r)'
               PROVE  v <=> ~Raised(r)
    BY <1>3 DEF LeftRight, Raised
  <2>1. UntoldOp(g, i, k, r, v)
    BY <1>4, <1>7
  <2>2. 1 <= i
    BY <2>1, CallFields, LenProperties DEF UntoldOp
  <2>3. LastBatch(g, i, r)
    BY <1>4, <1>7, <2>2 DEF LastBatch
  <2> QED BY <1>1, <2>1, <2>3 DEF LeftRight
<1> QED BY <1>4, <1>10, <1>11, <1>12, VerdictIsNext

-----------------------------------------------------------------------------
(* The driver accepts a batch *)

\* Operation k of a batch is about s, as a wait or a signal.
At(b, k, s, w) == k \in Ops(b) /\ s = OpOn(b, k) /\ w = IsWait(b, k)

LEMMA OpsAre ==
    ASSUME NEW b \in CB_SUBMISSION, NEW s
    PROVE  /\ \A k : At(b, k, s, TRUE) => \E v \in Elements(b.wait_semaphores) : v.semaphore = s
           /\ \A k : At(b, k, s, FALSE) => \E v \in Elements(b.signal_semaphores) : v.semaphore = s
           /\ (\E v \in Elements(b.wait_semaphores) \cup Elements(b.signal_semaphores) : v.semaphore = s)
                 => \E k, w : At(b, k, s, w)
<1>1. PICK m \in Nat, n \in Nat : m = Len(b.wait_semaphores) /\ n = Len(b.signal_semaphores)
  BY LenProperties DEF CB_SUBMISSION
<1>2. DOMAIN b.wait_semaphores = 1..m /\ DOMAIN b.signal_semaphores = 1..n /\ Ops(b) = 1..(m + n)
  BY <1>1, LenProperties DEF CB_SUBMISSION, Ops
<1>3. ASSUME NEW k, At(b, k, s, TRUE) PROVE \E v \in Elements(b.wait_semaphores) : v.semaphore = s
  <2>1. k \in 1..(m + n) /\ IsWait(b, k) /\ s = OpOn(b, k)
    BY <1>2, <1>3 DEF At
  <2>2. k \in 1..m /\ s = b.wait_semaphores[k].semaphore
    BY <1>1, <2>1 DEF IsWait, OpOn
  <2> QED BY <1>2, <2>2 DEF Elements
<1>4. ASSUME NEW k, At(b, k, s, FALSE) PROVE \E v \in Elements(b.signal_semaphores) : v.semaphore = s
  <2>1. k \in 1..(m + n) /\ ~IsWait(b, k) /\ s = OpOn(b, k)
    BY <1>2, <1>4 DEF At
  <2>2. ~(k <= m) /\ s = b.signal_semaphores[k - m].semaphore
    BY <1>1, <2>1 DEF IsWait, OpOn
  <2>3. k - m \in 1..n
    BY <2>1, <2>2
  <2> QED BY <1>2, <2>2, <2>3 DEF Elements
<1>5. ASSUME NEW i \in 1..m, b.wait_semaphores[i].semaphore = s PROVE At(b, i, s, TRUE)
  <2>1. i <= m /\ i \in 1..(m + n)
    OBVIOUS
  <2>2. IsWait(b, i) = TRUE /\ i \in Ops(b)
    BY <1>1, <1>2, <2>1 DEF IsWait
  <2> QED BY <1>5, <2>2 DEF At, OpOn
<1>6. ASSUME NEW i \in 1..n, b.signal_semaphores[i].semaphore = s PROVE At(b, m + i, s, FALSE)
  <2>1. ~(m + i <= m) /\ m + i \in 1..(m + n) /\ (m + i) - m = i
    OBVIOUS
  <2>2. IsWait(b, m + i) = FALSE
    BY <1>1, <2>1 DEF IsWait
  <2>3. m + i \in Ops(b)
    BY <1>2, <2>1
  <2> QED BY <1>1, <1>6, <2>1, <2>2, <2>3 DEF At, OpOn
<1>7. ASSUME NEW v \in Elements(b.wait_semaphores) \cup Elements(b.signal_semaphores), v.semaphore = s
      PROVE  \E k, w : At(b, k, s, w)
  BY <1>2, <1>5, <1>6, <1>7 DEF Elements
<1> QED BY <1>3, <1>4, <1>7

LEMMA UntoldAt ==
    ASSUME TypeOK, NEW h \in Host, NEW i, NEW k, NEW s, NEW w, UntoldOp(h, i, k, s, w)
    PROVE  hpc[h] \in SubmitPc /\ s \in SemsOf(call[h].batches)
<1>1. hpc[h] \in SubmitPc /\ i \in DOMAIN call[h].batches /\ At(call[h].batches[i], k, s, w) /\ w \in BOOLEAN
  BY DEF UntoldOp, At, IsWait
<1>2. PICK b \in CB_SUBMISSION : b = call[h].batches[i]
  <2>1. i \in 1..Len(call[h].batches)
    BY <1>1, CallFields, LenProperties
  <2> QED BY <2>1, CallFields, ElementOfSeq
<1>3. \E v \in Elements(b.wait_semaphores) \cup Elements(b.signal_semaphores) : v.semaphore = s
  <2>0. At(b, k, s, w)
    BY <1>1, <1>2
  <2>1. CASE w = TRUE
    BY <2>0, <2>1, OpsAre
  <2>2. CASE w = FALSE
    BY <2>0, <2>2, OpsAre
  <2> QED BY <1>1, <2>1, <2>2
<1>4. s \in {v.semaphore : v \in Elements(b.wait_semaphores) \cup Elements(b.signal_semaphores)}
  BY <1>3
<1> QED BY <1>1, <1>2, <1>4 DEF SemsOf

\* The operations of one batch more are left to tell.
LEMMA AcceptLeft ==
    ASSUME TypeOK, NEW h \in Host, DriverAccept(h), NEW n, n = call[h].idx + 1
    PROVE  /\ n \in DOMAIN call[h].batches /\ call[h].batches[n] \in CB_SUBMISSION
           /\ \A i, k, s, w : UntoldOp(h, i, k, s, w)' <=> UntoldOp(h, i, k, s, w) \/ (i = n /\ At(call[h].batches[n], k, s, w))
           /\ \A i, k, s, w : UntoldOp(h, i, k, s, w) => i <= n
<1>1. hpc[h] = "driver" /\ n \in Nat /\ n <= Len(call[h].batches) /\ n > 0 /\ n \in DOMAIN call[h].batches
  <2>1. hpc[h] = "driver" /\ call[h].idx < Len(call[h].batches)
    BY DEF DriverAccept
  <2>2. call[h].idx \in Nat /\ Len(call[h].batches) \in Nat /\ DOMAIN call[h].batches = 1..Len(call[h].batches)
    BY CallFields, LenProperties
  <2> QED BY <2>1, <2>2
<1>2. call[h].batches[n] \in CB_SUBMISSION
  <2>1. n \in 1..Len(call[h].batches)
    BY <1>1, CallFields, LenProperties
  <2> QED BY <2>1, CallFields, ElementOfSeq
<1>3. OnlyHost(h) /\ call'[h].batches = call[h].batches /\ (hpc'[h] = "driver" => call'[h].idx = n) /\ hpc'[h] \in {"driver", "cbs"}
  BY DriverAcceptCall
<1>4. hpc'[h] = "cbs" => n = Len(call[h].batches)
  BY DriverAcceptCall
<1>5. \A i \in DOMAIN call[h].batches : i \in Nat /\ i <= Len(call[h].batches)
  BY CallFields, LenProperties
<1>6. \A i, k, s, w : UntoldOp(h, i, k, s, w) <=> i \in DOMAIN call[h].batches /\ i <= n - 1 /\ At(call[h].batches[i], k, s, w)
  BY <1>1, CallFields, SubmitPcOther DEF UntoldOp, At
<1>7. \A i, k, s, w : UntoldOp(h, i, k, s, w)' <=> i \in DOMAIN call[h].batches /\ i <= n /\ At(call[h].batches[i], k, s, w)
  BY <1>3, <1>4, <1>5, SubmitPcOther DEF UntoldOp, At
<1>8. ASSUME NEW i, NEW k, NEW s, NEW w
      PROVE  /\ UntoldOp(h, i, k, s, w)' <=> UntoldOp(h, i, k, s, w) \/ (i = n /\ At(call[h].batches[n], k, s, w))
             /\ UntoldOp(h, i, k, s, w) => i <= n
  BY <1>1, <1>5, <1>6, <1>7
<1> QED BY <1>1, <1>2, <1>8

\* A semaphore of the batch alternates, one that it does not name is left alone.
LEMMA AcceptParity ==
    ASSUME TypeOK, NEW h \in Host, DriverAccept(h), NEW b \in CB_SUBMISSION, b = call[h].batches[call[h].idx + 1],
           NEW s \in BinarySem
    PROVE  /\ \A k, w : At(b, k, s, w) => (w <=> Raised(s)) /\ (Odd(app_sem'[s]) <=> ~Raised(s))
           /\ (\A k, w : ~At(b, k, s, w)) => app_sem'[s] = app_sem[s]
<1>1. ValidBatch(b) /\ app_sem' = AppEnqueue(b)
  BY DEF DriverAccept
<1>2. s \in Sem
  BY DEF Sem
<1>3. PICK n \in Nat : n = app_sem[s]
  BY <1>2 DEF TypeOK
<1> DEFINE Named == \E v \in Elements(b.wait_semaphores) \cup Elements(b.signal_semaphores) : v.semaphore = s
<1>4. app_sem'[s] = n + (IF Named THEN 1 ELSE 0)
  BY <1>1, <1>2, <1>3 DEF AppEnqueue
<1>5. \A v \in Elements(b.wait_semaphores) : v.semaphore = s => n % 2 = 1
  BY <1>1, <1>3 DEF ValidBatch, ValidWait
<1>6. \A v \in Elements(b.signal_semaphores) : v.semaphore = s => n % 2 = 0
  BY <1>1, <1>3 DEF ValidBatch, ValidSignal
<1>7. (n % 2 = 1 <=> ~((n + 1) % 2 = 1)) /\ ~(n % 2 = 0 /\ n % 2 = 1)
  BY <1>3
<1>8. ASSUME NEW k, NEW w, At(b, k, s, w) PROVE Named /\ (w <=> n % 2 = 1)
  <2>1. w \in BOOLEAN
    BY <1>8 DEF At, IsWait
  <2>2. CASE w = TRUE
    <3>1. At(b, k, s, TRUE)
      BY <1>8, <2>2
    <3>2. PICK v \in Elements(b.wait_semaphores) : v.semaphore = s
      BY <3>1, OpsAre
    <3> QED BY <1>5, <2>2, <3>2
  <2>3. CASE w = FALSE
    <3>1. At(b, k, s, FALSE)
      BY <1>8, <2>3
    <3>2. PICK v \in Elements(b.signal_semaphores) : v.semaphore = s
      BY <3>1, OpsAre
    <3>3. Named /\ ~(n % 2 = 1)
      BY <1>6, <1>7, <3>2
    <3> QED BY <2>3, <3>3
  <2> QED BY <2>1, <2>2, <2>3
<1>9. Named => \E k, w : At(b, k, s, w)
  BY OpsAre
<1> HIDE DEF Named
<1>10. \A k, w : At(b, k, s, w) => (w <=> Raised(s)) /\ (Odd(app_sem'[s]) <=> ~Raised(s))
  BY <1>3, <1>4, <1>7, <1>8 DEF Raised, Odd
<1>11. (\A k, w : ~At(b, k, s, w)) => app_sem'[s] = app_sem[s]
  BY <1>3, <1>4, <1>9
<1> QED BY <1>10, <1>11

LEMMA VerdictAccept ==
    ASSUME TypeOK, VerdictInv, HostFrames', NEW h \in Host, DriverAccept(h)
    PROVE  VerdictInv'
<1>1. SubOps /\ OneCall /\ AllBelow /\ ToldRight /\ LeftRight
  BY VerdictIs
<1>2. PICK n, b : n = call[h].idx + 1 /\ b = call[h].batches[n]
  OBVIOUS
<1>3. /\ n \in DOMAIN call[h].batches /\ b \in CB_SUBMISSION
      /\ \A i, k, s, w : UntoldOp(h, i, k, s, w)' <=> UntoldOp(h, i, k, s, w) \/ (i = n /\ At(b, k, s, w))
      /\ \A i, k, s, w : UntoldOp(h, i, k, s, w) => i <= n
  BY <1>2, AcceptLeft
<1>4. OnlyHost(h) /\ hpc[h] = "driver" /\ hpc'[h] \in {"driver", "cbs"} /\ call'[h].batches = call[h].batches
  BY DriverAcceptCall DEF DriverAccept
<1>5. sem' = sem
  BY DEF DriverAccept
<1>6. \A s \in BinarySem : /\ \A k, w : At(b, k, s, w) => (w <=> Raised(s)) /\ (Odd(app_sem'[s]) <=> ~Raised(s))
                           /\ (\A k, w : ~At(b, k, s, w)) => app_sem'[s] = app_sem[s]
  BY <1>2, <1>3, AcceptParity
<1>7. \A g \in Host : \A i, k, s, w : g # h => (UntoldOp(g, i, k, s, w)' <=> UntoldOp(g, i, k, s, w))
  BY <1>4 DEF OnlyHost, UntoldOp
<1>8. SubOps' /\ OneCall'
  <2>1. SubOps'
    BY <1>1, <1>4 DEF OnlyHost, SubOps
  <2>2. Shrink
    BY <1>4, SubmitPcOther DEF OnlyHost, Shrink
  <2> QED BY <1>1, <2>1, <2>2, ShrinkOneCall
<1>9. AllBelow'
  BY <1>1, <1>5 DEF AllBelow, Below
<1>10. ToldRight'
  <2> SUFFICES ASSUME NEW s \in BinarySem, NoneLeft(s)' PROVE CanBeWaited(sem[s]) <=> Odd(app_sem'[s])
    BY <1>5 DEF ToldRight, Raised
  <2>1. NoneLeft(s) /\ \A k, w : ~At(b, k, s, w)
    BY <1>3, <1>7 DEF NoneLeft
  <2>2. Odd(app_sem'[s]) <=> Raised(s)
    <3>1. app_sem'[s] = app_sem[s]
      BY <1>6, <2>1
    <3> QED BY <3>1 DEF Raised
  <2> QED BY <1>1, <2>1, <2>2 DEF ToldRight
<1>11. LeftRight'
  <2> SUFFICES ASSUME NEW s \in BinarySem, NEW g \in Host, NEW i, NEW k, NEW w, UntoldOp(g, i, k, s, w)', LastBatch(g, i, s)'
               PROVE  w <=> ~Odd(app_sem'[s])
    BY DEF LeftRight, Raised
  <2>1. CASE \A l, v : ~At(b, l, s, v)
    <3>1. UntoldOp(g, i, k, s, w) /\ LastBatch(g, i, s)
      BY <1>3, <1>7, <2>1 DEF LastBatch
    <3>2. Odd(app_sem'[s]) <=> Raised(s)
      <4>1. app_sem'[s] = app_sem[s]
        BY <1>6, <2>1
      <4> QED BY <4>1 DEF Raised
    <3> QED BY <1>1, <3>1, <3>2 DEF LeftRight
  <2>2. ASSUME NEW l, NEW v, At(b, l, s, v) PROVE w <=> ~Odd(app_sem'[s])
    <3>1. UntoldOp(h, n, l, s, v)'
      BY <1>3, <2>2
    <3>2. g = h
      <4> SUFFICES ASSUME g # h PROVE FALSE
        OBVIOUS
      <4>1. hpc[g] \in SubmitPc /\ s \in SemsOf(call[g].batches)
        BY <1>7, UntoldAt
      <4>2. s \in SemsOf(call[h].batches)
        <5>1. \E x \in Elements(b.wait_semaphores) \cup Elements(b.signal_semaphores) : x.semaphore = s
          <6>1. v \in BOOLEAN
            BY <2>2 DEF At, IsWait
          <6>2. CASE v = TRUE
            BY <1>3, <2>2, <6>2, OpsAre
          <6>3. CASE v = FALSE
            BY <1>3, <2>2, <6>3, OpsAre
          <6> QED BY <6>1, <6>2, <6>3
        <5>2. s \in {x.semaphore : x \in Elements(b.wait_semaphores) \cup Elements(b.signal_semaphores)}
          BY <5>1
        <5> QED BY <1>2, <1>3, <5>2 DEF SemsOf
      <4>3. hpc[h] \in SubmitPc
        BY <1>4, SubmitPcOther
      <4> QED BY <1>1, <4>1, <4>2, <4>3 DEF OneCall
    <3>3. i = n
      <4>1. n <= i
        BY <3>1, <3>2 DEF LastBatch
      <4>2. i <= n
        <5>1. i = n \/ UntoldOp(h, i, k, s, w)
          BY <1>3, <3>2
        <5> QED BY <1>3, <4>1, <5>1
      <4>3. i \in Nat /\ n \in Nat
        <5>1. i \in DOMAIN call[h].batches
          BY <1>4, <3>2 DEF UntoldOp
        <5> QED BY <1>3, <5>1, CallFields, LenProperties
      <4> QED BY <4>1, <4>2, <4>3
    <3>4. At(b, k, s, w)
      BY <1>2, <1>4, <3>2, <3>3 DEF UntoldOp, At
    <3>5. (w <=> Raised(s)) /\ (Odd(app_sem'[s]) <=> ~Raised(s))
      BY <1>6, <3>4, Zenon
    <3> QED BY <3>5, Zenon
  <2> QED BY <2>1, <2>2
<1> QED BY <1>8, <1>9, <1>10, <1>11, VerdictIsNext

-----------------------------------------------------------------------------
(* The other steps *)

\* No semaphore is told anything, by the layer or by the application.
SemSilent == sem' = sem /\ app_sem' = app_sem

LEMMA SilentUnchanged == ASSUME SemSilent PROVE Unchanged
BY DEF SemSilent, Unchanged, Below

\* A semaphore is told something that does not change what validation reads.
LEMMA OneUnchanged ==
    ASSUME TypeOK, NEW s \in Sem, NEW r, sem' = [sem EXCEPT ![s] = r], app_sem' = app_sem,
           s \in BinarySem => (CanBeWaited(r) <=> CanBeWaited(sem[s])) /\ (Below(sem[s]) => Below(r))
    PROVE  Unchanged
<1> SUFFICES ASSUME NEW x \in BinarySem
             PROVE  /\ app_sem'[x] = app_sem[x]
                    /\ CanBeWaited(sem'[x]) <=> CanBeWaited(sem[x])
                    /\ Below(sem[x]) => Below(sem'[x])
  BY DEF Unchanged, Below
<1>1. x \in Sem
  BY DEF Sem
<1>2. CASE x = s
  BY <1>1, <1>2 DEF TypeOK
<1>3. CASE x # s
  <2>1. sem'[x] = sem[x]
    BY <1>1, <1>3 DEF TypeOK
  <2> QED BY <2>1
<1> QED BY <1>2, <1>3

\* The frame of a host wait or signal is about the timeline semaphore of its call.
LEMMA FrameTimeline ==
    ASSUME TypeOK, HostFrames, NEW h \in Host, hpc[h] \in SemaphorePc
    PROVE  frame[h].semaphore \in Sem /\ frame[h].semaphore \notin BinarySem
BY QueueStateAssumption DEF HostFrames, Sem

LEMMA OtherStepUnchanged ==
    ASSUME TypeOK, HostFrames, NEW h \in Host, OtherStep(h)
    PROVE  Unchanged
<1>1. CASE SemaphoreWait(h)
  <2>1. hpc[h] \in SemaphorePc
    BY <1>1 DEF SemaphoreWait, SemaphorePc
  <2>2. PICK s \in Sem : s = frame[h].semaphore /\ s \notin BinarySem
    BY <2>1, FrameTimeline
  <2>3. CASE sem' = sem
    BY <1>1, <2>3, SilentUnchanged DEF SemaphoreWait, SemSilent, deviceVars
  <2>4. CASE \E p : sem' = [sem EXCEPT ![s] = SemWait(sem[s], p)]
    BY <1>1, <2>2, <2>4, OneUnchanged DEF SemaphoreWait, deviceVars
  <2> QED BY <1>1, <2>2, <2>3, <2>4 DEF SemaphoreWait
<1>2. CASE RetireTimelineEnqueue(h)
  <2>1. hpc[h] \in SemaphorePc
    BY <1>2 DEF RetireTimelineEnqueue, SemaphorePc
  <2>2. PICK s \in Sem : s = frame[h].semaphore /\ s \notin BinarySem
    BY <2>1, FrameTimeline
  <2>3. \E r : sem' = [sem EXCEPT ![s] = r]
    BY <1>2, <2>2 DEF RetireTimelineEnqueue
  <2> QED BY <1>2, <2>2, <2>3, OneUnchanged DEF RetireTimelineEnqueue, deviceVars
<1>3. CASE ~SemaphoreWait(h) /\ ~RetireTimelineEnqueue(h)
  <2>1. SemSilent
    BY <1>3 DEF OtherStep, QueueNotify, QueueWait, QueueWaitReady, FenceWaitReady, SemaphorePoke, SemaphoreReady,
                DestroyNotify, DestroyJoin, SemSilent, deviceVars
  <2> QED BY <2>1, SilentUnchanged
<1> QED BY <1>1, <1>2, <1>3

LEMMA OtherCallUnchanged ==
    ASSUME TypeOK, NEW h \in Host, OtherCall(h)
    PROVE  Unchanged
<1>1. ASSUME NEW s \in TimelineSem, NEW p, SignalSemaphore(h, s, p) PROVE Unchanged
  <2>1. sem' = sem /\ app_sem' = [app_sem EXCEPT ![s] = Max2(@, p)]
    BY <1>1 DEF SignalSemaphore
  <2>2. \A r \in BinarySem : r \in Sem /\ r # s
    BY QueueStateAssumption DEF Sem
  <2> QED BY <2>1, <2>2 DEF Unchanged, TypeOK, Below
<1>2. CASE \A s \in TimelineSem, p \in Payloads : ~SignalSemaphore(h, s, p)
  <2>1. SemSilent
    BY <1>2 DEF OtherCall, QueueWaitIdle, DeviceWaitIdle, DestroyDevice, WaitSemaphore, SemSilent, deviceVars
  <2> QED BY <2>1, SilentUnchanged
<1> QED BY <1>1, <1>2

LEMMA SemaphoreStepUnchanged ==
    ASSUME TypeOK, NEW h \in Host, SemaphoreStep(h)
    PROVE  Unchanged
<1>1. CASE RetireTimelineBegin(h)
  BY <1>1, SilentUnchanged DEF RetireTimelineBegin, SemSilent, deviceVars
<1>2. ASSUME NEW s \in Sem, NEW b \in BOOLEAN, ImportSemaphore(h, s, b) PROVE Unchanged
  <2>1. sem' = [sem EXCEPT ![s] = SemImport(sem[s], b)] /\ app_sem' = app_sem /\ sem[s] \in SemRecord
    BY <1>2 DEF ImportSemaphore, TypeOK, deviceVars
  <2> QED BY <2>1, ShareVerdict, OneUnchanged
<1>3. ASSUME NEW s \in Sem, NEW b \in BOOLEAN, ExportSemaphore(h, s, b) PROVE Unchanged
  <2>1. sem' = [sem EXCEPT ![s] = SemExport(sem[s], b)] /\ app_sem' = app_sem /\ sem[s] \in SemRecord
    BY <1>3 DEF ExportSemaphore, TypeOK, deviceVars
  <2> QED BY <2>1, ShareVerdict, OneUnchanged
<1> QED BY <1>1, <1>2, <1>3 DEF SemaphoreStep

LEMMA RetireUnchanged ==
    ASSUME TypeOK, NEW a \in Actor, Retire(a)
    PROVE  Unchanged
<1>1. CASE RetireAtOnce(a)
  <2>1. PICK s \in Sem : s = frame[a].semaphore
    BY <1>1 DEF RetireAtOnce, TypeOK, Frame
  <2>2. sem' = [sem EXCEPT ![s] = RetireHead(sem[s])] /\ app_sem' = app_sem /\ sem[s].operations # << >>
    BY <1>1, <2>1 DEF RetireAtOnce, RetireCovers, deviceVars
  <2>3. sem[s] \in SemRecord
    BY DEF TypeOK
  <2> QED BY <2>2, <2>3, RetireVerdict, OneUnchanged
<1>2. CASE ~RetireAtOnce(a)
  BY <1>2, SilentUnchanged DEF Retire, RetireWaitOther, RetireResume, RetireEnd, SemSilent, deviceVars
<1> QED BY <1>1, <1>2

\* vkAcquireNextImageKHR: the semaphore is in no call, and gets a signal.
LEMMA VerdictAcquire ==
    ASSUME TypeOK, VerdictInv, HostFrames', NEW h \in Host, NEW s \in BinarySem, NEW f \in Fence, AcquireNextImage(h, s, f)
    PROVE  VerdictInv'
<1>1. SubOps /\ OneCall /\ AllBelow /\ ToldRight /\ LeftRight
  BY VerdictIs
<1>2. PICK n \in Nat : n = app_sem[s] /\ n % 2 = 0 /\ s \in Sem
  <2>1. s \in Sem
    BY DEF Sem
  <2> QED BY <2>1 DEF AcquireNextImage, TypeOK
<1>3. /\ hpc' = hpc /\ call' = call /\ sem' = [sem EXCEPT ![s] = SemEnqueueAcquire(sem[s])]
      /\ app_sem' = [app_sem EXCEPT ![s] = n + 1] /\ BinaryFree(s)
  BY <1>2 DEF AcquireNextImage, hostVars
<1>4. SameLeft /\ SubOps' /\ OneCall'
  BY <1>1, <1>3, HostsLeft
<1>5. CanBeWaited(sem'[s]) /\ Below(sem'[s]) /\ Odd(app_sem'[s])
  <2>1. sem'[s] = SemEnqueueAcquire(sem[s]) /\ sem[s] \in SemRecord /\ Below(sem[s])
    BY <1>1, <1>2, <1>3 DEF TypeOK, AllBelow
  <2>2. CanBeWaited(SemEnqueueAcquire(sem[s])) /\ Below(SemEnqueueAcquire(sem[s]))
    <3>1. NoQueue \in Queue \cup {NoQueue} /\ 0 \in Nat
      OBVIOUS
    <3> QED BY <2>1, <3>1, EnqueueVerdict
  <2>3. app_sem'[s] = n + 1
    BY <1>2, <1>3 DEF TypeOK
  <2>4. n \in Nat /\ n % 2 = 0 => (n + 1) % 2 = 1
    OBVIOUS
  <2> QED BY <1>2, <2>1, <2>2, <2>3, <2>4 DEF Odd
<1>6. \A r \in BinarySem : r # s => sem'[r] = sem[r] /\ app_sem'[r] = app_sem[r]
  BY <1>3 DEF TypeOK, Sem
<1>7. \A g \in Host : \A i, k, w : ~UntoldOp(g, i, k, s, w)
  BY <1>3, UntoldAt DEF BinaryFree
<1>8. AllBelow'
  <2> SUFFICES ASSUME NEW r \in BinarySem PROVE Below(sem'[r])
    BY DEF AllBelow, Below
  <2> QED BY <1>1, <1>5, <1>6 DEF AllBelow
<1>9. ToldRight'
  <2> SUFFICES ASSUME NEW r \in BinarySem, NoneLeft(r)' PROVE CanBeWaited(sem'[r]) <=> Odd(app_sem'[r])
    BY DEF ToldRight, Raised
  <2>1. CASE r # s
    <3>1. NoneLeft(r)
      BY <1>4 DEF NoneLeft, SameLeft
    <3> QED BY <1>1, <1>6, <2>1, <3>1 DEF ToldRight, Raised
  <2>2. CASE r = s
    BY <1>5, <2>2
  <2> QED BY <2>1, <2>2
<1>10. LeftRight'
  <2> SUFFICES ASSUME NEW r \in BinarySem, NEW g \in Host, NEW i, NEW k, NEW w, UntoldOp(g, i, k, r, w)', LastBatch(g, i, r)'
               PROVE  w <=> ~Odd(app_sem'[r])
    BY DEF LeftRight, Raised
  <2>1. UntoldOp(g, i, k, r, w) /\ LastBatch(g, i, r)
    BY <1>4 DEF SameLeft, LastBatch
  <2>2. r # s
    BY <1>7, <2>1
  <2> QED BY <1>1, <1>6, <2>1, <2>2 DEF LeftRight, Raised
<1> QED BY <1>4, <1>8, <1>9, <1>10, VerdictIsNext

-----------------------------------------------------------------------------
(* Host waits and signals are about timeline semaphores *)

\* A call that was not one of those does not become one, and the semaphore is the same.
LEMMA FramesKept ==
    ASSUME HostFrames,
           \A h \in Host : hpc'[h] \in SemaphorePc => hpc[h] \in SemaphorePc /\ frame'[h].semaphore = frame[h].semaphore
    PROVE  HostFrames'
BY DEF HostFrames

LEMMA FramesHost ==
    ASSUME HostFrames, NEW h \in Host, OnlyHost(h), frame' = frame, hpc'[h] \in SemaphorePc => hpc[h] \in SemaphorePc
    PROVE  HostFrames'
BY DEF HostFrames, OnlyHost

LEMMA OtherStepFrames ==
    ASSUME TypeOK, HostFrames, NEW h \in Host, OtherStep(h)
    PROVE  HostFrames'
<1>1. OnlyHost(h)
  BY OtherStepElsewhere DEF Elsewhere
<1>2. ASSUME Return(h) PROVE hpc'[h] = "idle"
  BY <1>2 DEF Return, TypeOK
<1>3. ASSUME QueueWaitDone(h) PROVE hpc'[h] \in {"idle", "qnotify"}
  <2>1. CASE \E c : hpc' = [hpc EXCEPT ![h] = "qnotify"] /\ call' = [call EXCEPT ![h] = c]
    BY <2>1 DEF TypeOK
  <2> QED BY <1>2, <1>3, <2>1 DEF QueueWaitDone
<1>4. CASE QueueNotify(h) \/ DestroyNotify(h)
  <2>1. frame' = frame /\ hpc'[h] \in {"qwait", "qjoin"}
    BY <1>4 DEF QueueNotify, DestroyNotify, TypeOK, retireVars
  <2> QED BY <1>1, <2>1, FramesHost DEF SemaphorePc
<1>5. CASE QueueWait(h) \/ QueueWaitReady(h)
  <2>1. frame' = frame
    BY <1>5 DEF QueueWait, QueueWaitReady, retireVars
  <2>2. QueueWaitDone(h) \/ hpc' = [hpc EXCEPT ![h] = "qblock"]
    BY <1>5 DEF QueueWait, QueueWaitReady
  <2>3. hpc'[h] \in {"idle", "qnotify", "qblock"}
    BY <1>3, <2>2 DEF TypeOK
  <2> QED BY <1>1, <2>1, <2>3, FramesHost DEF SemaphorePc
<1>6. CASE FenceWaitReady(h) \/ SemaphoreReady(h)
  <2>1. frame' = frame /\ hpc'[h] = "idle"
    BY <1>2, <1>6 DEF FenceWaitReady, SemaphoreReady, retireVars
  <2> QED BY <1>1, <2>1, FramesHost DEF SemaphorePc
<1>7. CASE SemaphorePoke(h) \/ RetireTimelineEnqueue(h)
  <2>1. frame' = frame /\ hpc[h] \in {"spoke", "sblock", "senqueue"}
    BY <1>7 DEF SemaphorePoke, RetireTimelineEnqueue, retireVars
  <2> QED BY <1>1, <2>1, FramesHost DEF SemaphorePc
<1>8. CASE SemaphoreWait(h)
  <2>1. hpc[h] = "swait" /\ (frame' = frame \/ \E e : frame' = [frame EXCEPT ![h].entry = e])
    BY <1>8 DEF SemaphoreWait
  <2>2. frame[h] \in Frame /\ h \in Actor
    BY <2>1 DEF TypeOK, SemaphorePc, Actor
  <2>3. \A g \in Host : frame'[g].semaphore = frame[g].semaphore
    <3>1. \A g \in Host : g \in Actor
      BY DEF Actor
    <3>2. \A e : [frame[h] EXCEPT !.entry = e].semaphore = frame[h].semaphore
      BY <2>2 DEF Frame
    <3>3. ASSUME NEW e, frame' = [frame EXCEPT ![h].entry = e], NEW g \in Host PROVE frame'[g].semaphore = frame[g].semaphore
      <4>1. frame' = [frame EXCEPT ![h] = [frame[h] EXCEPT !.entry = e]]
        BY <3>3
      <4>2. g = h => frame'[g] = [frame[h] EXCEPT !.entry = e]
        BY <2>2, <4>1 DEF TypeOK
      <4>3. g # h => frame'[g] = frame[g]
        BY <3>1, <4>1 DEF TypeOK
      <4>4. CASE g = h
        <5>1. frame'[g] = [frame[h] EXCEPT !.entry = e]
          BY <4>2, <4>4
        <5> QED BY <3>2, <4>4, <5>1
      <4> QED BY <4>3, <4>4
    <3> QED BY <2>1, <3>3
  <2> QED BY <1>1, <2>1, <2>3, FramesKept DEF OnlyHost, SemaphorePc
<1>9. CASE DestroyJoin(h)
  <2>1. frame' = frame
    BY <1>9 DEF DestroyJoin, retireVars
  <2>2. Return(h) \/ hpc' = [hpc EXCEPT ![h] = "qexit"]
    BY <1>9 DEF DestroyJoin
  <2>3. hpc'[h] \in {"idle", "qexit"}
    BY <1>2, <2>2 DEF TypeOK
  <2> QED BY <1>1, <2>1, <2>3, FramesHost DEF SemaphorePc
<1> QED BY <1>4, <1>5, <1>6, <1>7, <1>8, <1>9 DEF OtherStep

LEMMA OtherCallFrames ==
    ASSUME TypeOK, HostFrames, NEW h \in Host, OtherCall(h)
    PROVE  HostFrames'
<1>1. OnlyHost(h)
  BY OtherCallElsewhere DEF Elsewhere
<1>2. ASSUME NEW q, QueueWaitIdle(h, q) \/ DeviceWaitIdle(h, q) \/ DestroyDevice(h, q) PROVE HostFrames'
  <2>1. frame' = frame /\ hpc'[h] \in {"qnotify", "qexit"}
    BY <1>2 DEF QueueWaitIdle, DeviceWaitIdle, DestroyDevice, TypeOK, retireVars
  <2> QED BY <1>1, <2>1, FramesHost DEF SemaphorePc
<1>3. ASSUME NEW s \in TimelineSem, NEW p, WaitSemaphore(h, s, p) \/ SignalSemaphore(h, s, p) PROVE HostFrames'
  <2>1. frame' = [frame EXCEPT ![h] = [semaphore |-> s, payload |-> p, entry |-> NoEntry]]
    BY <1>3 DEF WaitSemaphore, SignalSemaphore, StartSemaphoreCall
  <2>2. h \in Actor /\ frame'[h].semaphore = s
    BY <2>1 DEF TypeOK, Actor
  <2>3. \A g \in Host : g # h => frame'[g] = frame[g]
    BY <2>1 DEF TypeOK, Actor
  <2> QED BY <1>1, <2>2, <2>3 DEF HostFrames, OnlyHost
<1> QED BY <1>2, <1>3 DEF OtherCall

LEMMA SubmitFrames ==
    ASSUME TypeOK, HostFrames, NEW h \in Host, SubmitStep(h) \/ DriverAccept(h) \/ SubmitFence(h) \/ SubmitPush(h)
    PROVE  HostFrames'
<1>1. frame' = frame
  BY DEF SubmitStep, QueueSubmit, SubmitCbs, SubmitSeq, SubmitWait, SubmitSignal, DriverAccept, SubmitFence, SubmitPush, retireVars
<1>2. ASSUME NEW q, NEW bs, QueueSubmit(h, q, bs) PROVE OnlyHost(h) /\ hpc'[h] = "driver"
  BY <1>2 DEF QueueSubmit, OnlyHost, TypeOK
<1>3. SubmitCbs(h) => OnlyHost(h) /\ hpc'[h] = "seq"
  BY DEF SubmitCbs, OnlyHost, TypeOK
<1>4. SubmitSeq(h) => OnlyHost(h) /\ hpc'[h] = "enqueue"
  BY SubmitSeqCall
<1>5. SubmitWait(h) \/ SubmitSignal(h) => OnlyHost(h) /\ hpc'[h] = "enqueue"
  BY SubmitWaitCall, SubmitSignalCall
<1>6. DriverAccept(h) => OnlyHost(h) /\ hpc'[h] \in {"driver", "cbs"}
  BY DriverAcceptCall
<1>7. SubmitFence(h) => OnlyHost(h) /\ hpc'[h] = "push"
  BY SubmitFenceCall
<1>8. SubmitPush(h) => OnlyHost(h) /\ hpc'[h] \in {"idle", "qnotify", "cbs"}
  BY SubmitPushCall
<1>9. OnlyHost(h) /\ hpc'[h] \in {"idle", "qnotify", "driver", "cbs", "seq", "enqueue", "push"}
  BY <1>2, <1>3, <1>4, <1>5, <1>6, <1>7, <1>8 DEF SubmitStep
<1> QED BY <1>1, <1>9, FramesHost DEF SemaphorePc

LEMMA FenceFrames ==
    ASSUME TypeOK, HostFrames, NEW h \in Host, NEW f \in Fence, WaitForFence(h, f) \/ FenceCall(h, f)
    PROVE  HostFrames'
<1>1. CASE WaitForFence(h, f)
  <2>1. frame' = frame /\ OnlyHost(h)
    BY <1>1, WaitForFenceIs DEF WaitForFence, Elsewhere, retireVars
  <2>2. hpc'[h] \in {"idle", "fblock"}
    <3>1. hpc[h] = "idle" /\ (hpc' = hpc \/ hpc' = [hpc EXCEPT ![h] = "fblock"])
      BY <1>1 DEF WaitForFence, hostVars
    <3> QED BY <3>1 DEF TypeOK
  <2> QED BY <2>1, <2>2, FramesHost DEF SemaphorePc
<1>2. CASE FenceCall(h, f)
  <2>1. frame' = frame
    BY <1>2 DEF FenceCall, ResetFence, ImportFence, ExportFence, AcquireNextImage, retireVars
  <2>2. hpc' = hpc
    BY <1>2, FenceCallIs
  <2> QED BY <2>1, <2>2 DEF HostFrames
<1> QED BY <1>1, <1>2

LEMMA RetireFrames ==
    ASSUME IInv, HostFrames, NEW a \in Actor, Retire(a)
    PROVE  HostFrames'
<1>1. TypeOK
  BY DEF IInv
<1>2. \A h \in Host : hpc'[h] = hpc[h] \/ hpc'[h] = "idle"
  <2>1. CASE RetireEnd(a) /\ a \notin Queue
    BY <1>1, <2>1 DEF RetireEnd, Return, TypeOK
  <2>2. CASE ~(RetireEnd(a) /\ a \notin Queue)
    BY <2>2 DEF Retire, RetireAtOnce, RetireWaitOther, RetireResume, RetireEnd, hostVars
  <2> QED BY <2>1, <2>2
<1>3. \A h \in Host : hpc[h] \in SemaphorePc => frame'[h].semaphore = frame[h].semaphore
  <2>1. CASE RetireWaitOther(a)
    <3>1. \E e : frame' = [frame EXCEPT ![a].entry = e]
      BY <2>1 DEF RetireWaitOther
    <3>2. frame[a] \in Frame
      BY <1>1, <2>1 DEF RetireWaitOther, TypeOK
    <3>3. \A e : [frame[a] EXCEPT !.entry = e].semaphore = frame[a].semaphore
      BY <3>2 DEF Frame
    <3>4. \A h \in Host : h \in Actor
      BY DEF Actor
    <3> QED BY <1>1, <3>1, <3>3, <3>4 DEF TypeOK
  <2>2. CASE ~RetireWaitOther(a)
    BY <2>2 DEF Retire, RetireAtOnce, RetireResume, RetireEnd, retireVars
  <2> QED BY <2>1, <2>2
<1>4. \A h \in Host : hpc'[h] \in SemaphorePc => hpc'[h] = hpc[h]
  BY <1>2 DEF SemaphorePc
<1> QED BY <1>3, <1>4, FramesKept

LEMMA ThreadFrames ==
    ASSUME TypeOK, HostFrames, NEW q \in Queue, ThreadStep(q) \/ ThreadRetireFence(q) \/ DeviceExecute(q)
    PROVE  HostFrames'
<1>1. hpc' = hpc
  BY DEF ThreadStep, ThreadSleep, ThreadPop, ThreadExit, ThreadEndUse, ThreadRetireSemaphore, ThreadLoopDone,
         ThreadRetireCbs, ThreadComplete, ThreadRetireFence, DeviceExecute, hostVars
<1>2. frame' = frame \/ \E r : frame' = [frame EXCEPT ![q] = r]
  BY DEF ThreadStep, ThreadSleep, ThreadPop, ThreadExit, ThreadEndUse, ThreadRetireSemaphore, ThreadLoopDone,
         ThreadRetireCbs, ThreadComplete, ThreadRetireFence, DeviceExecute, retireVars
<1>3. \A h \in Host : h # q /\ h \in Actor
  BY QueueStateAssumption DEF Actor
<1>4. \A h \in Host : frame'[h] = frame[h]
  BY <1>2, <1>3 DEF TypeOK
<1> QED BY <1>1, <1>4 DEF HostFrames

-----------------------------------------------------------------------------
(* Every step, and the verdict *)

LEMMA SubmitStepVerdict ==
    ASSUME TypeOK, TypeOK', VerdictInv, HostFrames', NEW h \in Host, SubmitStep(h)
    PROVE  VerdictInv'
<1>1. SubOps /\ OneCall
  BY DEF VerdictInv
<1>2. CASE SubmitWait(h) \/ SubmitSignal(h)
  BY <1>2, VerdictTell
<1>3. ASSUME ~(SubmitWait(h) \/ SubmitSignal(h)) PROVE Unchanged
  BY <1>3, SilentUnchanged DEF SubmitStep, QueueSubmit, SubmitCbs, SubmitSeq, SemSilent, deviceVars
<1>4. ASSUME NEW q, NEW bs, QueueSubmit(h, q, bs) PROVE SameLeft /\ SubOps' /\ OneCall'
  BY <1>1, <1>4, StartLeft
<1>5. ASSUME SubmitCbs(h) PROVE SameLeft /\ SubOps' /\ OneCall'
  <2>1. OnlyHost(h) /\ hpc[h] = "cbs" /\ hpc'[h] = "seq"
    BY <1>5 DEF SubmitCbs, OnlyHost, TypeOK
  <2>2. call'[h].batches = call[h].batches /\ call'[h].sub = call[h].batches[1]
    BY <1>5, CallFields DEF SubmitCbs, TypeOK, Call
  <2> QED BY <1>1, <2>1, <2>2, BetweenLeft, SameOpsWhole
<1>6. ASSUME SubmitSeq(h) PROVE SameLeft /\ SubOps' /\ OneCall'
  BY <1>1, <1>6, SubmitSeqOps, SubmitSeqCall, BetweenLeft
<1>7. CASE ~(SubmitWait(h) \/ SubmitSignal(h))
  <2>1. SameLeft /\ SubOps' /\ OneCall'
    BY <1>4, <1>5, <1>6, <1>7 DEF SubmitStep
  <2> QED BY <1>3, <1>7, <2>1, QuietVerdict
<1> QED BY <1>2, <1>7

LEMMA NextVerdict ==
    ASSUME IInv, IInv', VerdictInv, [Next]_vars
    PROVE  VerdictInv'
<1>1. TypeOK /\ TypeOK' /\ SubOps /\ OneCall /\ HostFrames
  BY DEF IInv, VerdictInv
<1>2. ASSUME NEW h \in Host, Elsewhere(h), Unchanged, HostFrames' PROVE VerdictInv'
  BY <1>1, <1>2, ElsewhereLeft, QuietVerdict
<1>3. ASSUME hpc' = hpc, call' = call, Unchanged, HostFrames' PROVE VerdictInv'
  BY <1>1, <1>3, HostsLeft, QuietVerdict
<1>4. CASE Next
  <2>1. ASSUME NEW h \in Host, OtherStep(h) PROVE VerdictInv'
    BY <1>1, <1>2, <2>1, OtherStepElsewhere, OtherStepUnchanged, OtherStepFrames
  <2>2. ASSUME NEW h \in Host, OtherCall(h) PROVE VerdictInv'
    BY <1>1, <1>2, <2>2, OtherCallElsewhere, OtherCallUnchanged, OtherCallFrames
  <2>3. ASSUME NEW h \in Host, SubmitStep(h) PROVE VerdictInv'
    BY <1>1, <2>3, SubmitFrames, SubmitStepVerdict
  <2>4. ASSUME NEW h \in Host, SemaphoreStep(h) PROVE VerdictInv'
    <3>1. hpc' = hpc /\ call' = call
      BY <2>4, StillSteps DEF Still
    <3>2. frame' = frame
      BY <2>4 DEF SemaphoreStep, RetireTimelineBegin, ImportSemaphore, ExportSemaphore, retireVars
    <3>3. HostFrames'
      BY <1>1, <3>1, <3>2 DEF HostFrames
    <3> QED BY <1>1, <1>3, <2>4, <3>1, <3>3, SemaphoreStepUnchanged
  <2>5. ASSUME NEW h \in Host, DriverAccept(h) PROVE VerdictInv'
    BY <1>1, <2>5, SubmitFrames, VerdictAccept
  <2>6. ASSUME NEW h \in Host, SubmitFence(h) PROVE VerdictInv'
    <3>1. Unchanged
      BY <2>6, SilentUnchanged DEF SubmitFence, SemSilent, deviceVars
    <3> QED BY <1>1, <2>6, <3>1, SubmitFrames, SubmitFenceLeft, QuietVerdict
  <2>7. ASSUME NEW h \in Host, SubmitPush(h) PROVE VerdictInv'
    BY <1>1, <2>7, SubmitFrames, VerdictSubmitPush
  <2>8. ASSUME NEW h \in Host, NEW f \in Fence, WaitForFence(h, f) PROVE VerdictInv'
    <3>1. Unchanged
      BY <2>8, SilentUnchanged DEF WaitForFence, SemSilent
    <3> QED BY <1>1, <1>2, <2>8, <3>1, WaitForFenceIs, FenceFrames
  <2>9. ASSUME NEW h \in Host, NEW f \in Fence, FenceCall(h, f) PROVE VerdictInv'
    <3>1. ASSUME NEW s \in BinarySem, AcquireNextImage(h, s, f) PROVE VerdictInv'
      BY <1>1, <2>9, <3>1, FenceFrames, VerdictAcquire
    <3>2. CASE \A s \in BinarySem : ~AcquireNextImage(h, s, f)
      <4>1. SemSilent
        BY <2>9, <3>2 DEF FenceCall, ResetFence, ImportFence, ExportFence, SemSilent
      <4> QED BY <1>1, <1>3, <2>9, <4>1, SilentUnchanged, FenceCallIs, FenceFrames
    <3> QED BY <3>1, <3>2
  <2>10. ASSUME NEW a \in Actor, Retire(a) PROVE VerdictInv'
    BY <1>1, <1>2, <1>3, <2>10, RetireElsewhere, RetireUnchanged, RetireFrames
  <2>11. ASSUME NEW q \in Queue, ThreadStep(q) \/ ThreadRetireFence(q) \/ DeviceExecute(q) PROVE VerdictInv'
    <3>1. SemSilent /\ hpc' = hpc /\ call' = call
      BY <2>11 DEF ThreadStep, ThreadSleep, ThreadPop, ThreadExit, ThreadEndUse, ThreadRetireSemaphore, ThreadLoopDone,
                   ThreadRetireCbs, ThreadComplete, ThreadRetireFence, DeviceExecute, SemSilent, hostVars, deviceVars
    <3> QED BY <1>1, <1>3, <2>11, <3>1, SilentUnchanged, ThreadFrames
  <2> QED BY <1>4, <2>1, <2>2, <2>3, <2>4, <2>5, <2>6, <2>7, <2>8, <2>9, <2>10, <2>11, NextCases
<1>5. CASE UNCHANGED vars
  <2>1. SemSilent /\ hpc' = hpc /\ call' = call /\ frame' = frame
    BY <1>5 DEF vars, SemSilent, hostVars, deviceVars, retireVars
  <2>2. HostFrames'
    BY <1>1, <2>1 DEF HostFrames
  <2> QED BY <1>3, <2>1, <2>2, SilentUnchanged
<1> QED BY <1>4, <1>5

LEMMA InitVerdict == Init => VerdictInv
<1> SUFFICES ASSUME Init PROVE VerdictInv
  OBVIOUS
<1>1. \A h \in Host : hpc[h] = "idle"
  BY DEF Init
<1>2. \A s \in BinarySem : sem[s] = NewSemaphore(0) /\ app_sem[s] = 0
  BY DEF Init, Sem
<1>3. \A h \in Host : \A i, k, s, w : ~UntoldOp(h, i, k, s, w)
  BY <1>1, SubmitPcOther DEF UntoldOp
<1>4. ~CanBeWaited(NewSemaphore(0)) /\ Below(NewSemaphore(0))
  <2>1. NewSemaphore(0).operations = << >> /\ NewSemaphore(0).completed.op_type = "kNone"
    BY DEF NewSemaphore, NewOp
  <2> QED BY <2>1 DEF CanBeWaited, LastSemOp, Below
<1>5. ~Odd(0)
  BY DEF Odd
<1>6. SubOps /\ OneCall /\ HostFrames
  BY <1>1, SubmitPcOther DEF SubOps, OneCall, HostFrames, SemaphorePc
<1>7. AllBelow /\ ToldRight /\ LeftRight
  BY <1>2, <1>3, <1>4, <1>5 DEF AllBelow, ToldRight, LeftRight, Raised
<1> QED BY <1>6, <1>7, VerdictIs

\* Behind SemaphoreVerdictExact: between the driver's acceptance of a batch and the step of
\* QUEUE_STATE::Submit() that tells a semaphore of it, the call under way accounts for it,
\* and no two calls under way are about the same binary semaphore.
THEOREM VerdictAlways == Spec => []VerdictInv
<1>1. IInv /\ [Next]_vars => IInv'
  BY NextKeeps
<1>2. IInv /\ VerdictInv /\ [Next]_vars => VerdictInv'
  BY <1>1, NextVerdict
<1>3. Init => VerdictInv
  BY InitVerdict
<1> QED BY <1>2, <1>3, Invariance, PTL DEF Spec

\* What CanBeWaited() and CanBeSignaled() read of a binary semaphore when no submission is
\* under way is the truth, whatever the queue threads have retired meanwhile.
THEOREM SemaphoreVerdict == Spec => []SemaphoreVerdictExact
<1>1. TypeOK /\ VerdictInv => SemaphoreVerdictExact
  <2> SUFFICES ASSUME TypeOK, VerdictInv, \A h \in Host : hpc[h] \notin SubmitPc, NEW s \in BinarySem
               PROVE  /\ CanBeWaited(sem[s])   <=> app_sem[s] % 2 = 1
                      /\ CanBeSignaled(sem[s]) <=> app_sem[s] % 2 = 0
    BY DEF SemaphoreVerdictExact
  <2>1. NoneLeft(s)
    BY DEF NoneLeft, UntoldOp
  <2>2. CanBeWaited(sem[s]) <=> app_sem[s] % 2 = 1
    BY <2>1, VerdictIs DEF ToldRight, Raised, Odd
  <2>3. sem[s] \in SemRecord /\ app_sem[s] \in Nat
    BY DEF TypeOK, Sem
  <2>4. LastSemOp(sem[s]) \in SemOp
    <3>1. PICK ops \in Seq(SemOp) : ops = sem[s].operations
      BY <2>3 DEF SemRecord
    <3>2. CASE ops = << >>
      BY <2>3, <3>1, <3>2 DEF LastSemOp, SemRecord
    <3>3. CASE ops # << >>
      <4>1. Len(ops) \in 1..Len(ops)
        BY <3>3, EmptySeq, LenProperties
      <4>2. ops[Len(ops)] \in SemOp
        BY <4>1, ElementOfSeq
      <4> QED BY <3>1, <3>3, <4>2 DEF LastSemOp
    <3> QED BY <3>2, <3>3
  <2>5. CanBeSignaled(sem[s]) <=> ~CanBeWaited(sem[s])
    BY <2>4 DEF CanBeSignaled, CanBeWaited, SemOp, OpType
  <2>6. app_sem[s] % 2 = 0 <=> ~(app_sem[s] % 2 = 1)
    BY <2>3
  <2> QED BY <2>2, <2>5, <2>6
<1> QED BY <1>1, TypeCorrect, VerdictAlways, PTL
=============================================================================
