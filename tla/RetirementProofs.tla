-------------------------- MODULE RetirementProofs --------------------------
(* A queue's state never runs ahead of the device: ProgressInv and Retiring   *)
(* are inductive, for any number of queues, host threads, fences and binary   *)
(* semaphores.  And QueueState implements the safety part of Retirement:      *)
(* OrderInv is inductive, and every step is a step of Retirement or changes   *)
(* none of its state.                                                         *)
EXTENDS DeviceProofs

-----------------------------------------------------------------------------
(* Which operations the layer's semaphores know of *)

LEMMA OpInSems ==
    ASSUME NEW bs, NEW i \in DOMAIN bs, bs[i] \in CB_SUBMISSION, NEW k \in Ops(bs[i])
    PROVE  OpOn(bs[i], k) \in SemsOf(bs)
<1>1. PICK s : s = OpOn(bs[i], k)
  OBVIOUS
<1>2. At(bs[i], k, s, TRUE) \/ At(bs[i], k, s, FALSE)
  BY <1>1 DEF At, IsWait
<1>3. \E v \in Elements(bs[i].wait_semaphores) \cup Elements(bs[i].signal_semaphores) : v.semaphore = s
  BY <1>2, OpsAre
<1> QED BY <1>1, <1>3 DEF SemsOf

LEMMA SameOpOn ==
    ASSUME NEW x \in IssuedOps, TypeOK, NEW b, SameOps(issued[x[1]][x[2]], b)
    PROVE  x[3] \in Ops(b) /\ OpOn(b, x[3]) = SemOf(x)
<1>1. /\ x[1] \in Queue /\ x[2] \in DOMAIN issued[x[1]] /\ x[3] \in Ops(issued[x[1]][x[2]])
  BY IssuedOpIs
<1>2. issued[x[1]][x[2]] \in CB_SUBMISSION
  BY <1>1, IssuedType
<1>3. OpOn(issued[x[1]][x[2]], x[3]) = SemOf(x)
  BY <1>1, <1>2, OpInfoType DEF SemOf
<1>4. x[3] \in Ops(b)
  BY <1>1 DEF SameOps, Ops
<1> QED BY <1>3, <1>4 DEF SameOps

\* An operation that no semaphore knows of is one of a call under way.
LEMMA Undertold ==
    ASSUME IInv, SubOps, CallInv, NEW x \in IssuedOps, ~Told(x)
    PROVE  \E h \in Host : /\ hpc[h] \in SubmitPc /\ call[h].queue = x[1] /\ SemOf(x) \in SemsOf(call[h].batches)
                           /\ x[2] >= seq_[x[1]]
                           /\ x[2] = seq_[x[1]] => hpc[h] = "enqueue" /\ ~(x[3] < call[h].idx)
<1>1. CallsIssued /\ SubIssued /\ Room /\ TypeOK
  BY DEF CallInv, IInv
<1>2. PICK q \in Queue, n \in Nat, N \in Nat, m \in Nat :
          q = x[1] /\ n = x[2] /\ N = Len(issued[q]) /\ m = seq_[q] /\ n \in 1..N
  BY <1>1, IssuedOpType, QueueLengths
<1>3. CASE n <= m
  <2>1. PICK h \in Host : hpc[h] = "enqueue" /\ call[h].queue = q /\ n = m /\ ~(x[3] < call[h].idx)
    BY <1>2, <1>3 DEF Told
  <2>2. call[h].sub.seq = n /\ hpc[h] \in SubmitPc
    BY <1>2, <2>1, PositiveSeq DEF PushPc, SubmitPc
  <2>3. SameOps(issued[q][n], call[h].batches[1])
    <3>1. SameOps(issued[q][n], call[h].sub)
      BY <1>1, <2>1, <2>2 DEF SubIssued, SubIs, SameBatch
    <3>2. SameOps(call[h].sub, call[h].batches[1])
      BY <2>1 DEF SubOps
    <3> QED BY <3>1, <3>2, SameOpsTrans
  <2>4. 1 \in DOMAIN call[h].batches /\ call[h].batches[1] \in CB_SUBMISSION
    <3>1. 1 \in DOMAIN call[h].batches
      BY <1>1, <2>2, BatchOne
    <3> QED BY <1>1, <3>1, CallFields, ElementOfSeq, LenProperties
  <2>5. x[3] \in Ops(call[h].batches[1]) /\ OpOn(call[h].batches[1], x[3]) = SemOf(x)
    BY <1>1, <1>2, <2>3, SameOpOn
  <2>6. SemOf(x) \in SemsOf(call[h].batches)
    BY <2>4, <2>5, OpInSems
  <2>7. x[2] >= seq_[x[1]]
    BY <1>2, <2>1
  <2> QED BY <1>2, <2>1, <2>2, <2>6, <2>7
<1>4. CASE ~(n <= m)
  <2>1. PICK i \in Nat : n = m + i /\ i >= 1 /\ i <= N - m
    <3>1. n <= N
      BY <1>2
    <3>2. n - m \in Nat /\ n = m + (n - m) /\ n - m >= 1 /\ n - m <= N - m
      BY <1>4, <3>1
    <3> QED BY <3>2
  <2>2. Ahead(q) = N - m /\ Ahead(q) # 0
    <3>1. N - m # 0
      BY <1>2, <2>1
    <3> QED BY <1>2, <3>1 DEF Ahead
  <2>3. PICK h \in Host : hpc[h] \in SubmitPc /\ call[h].queue = q
    BY <1>1, <2>2 DEF CallsIssued
  <2>4. CallIssued(h) /\ i \in 1..Accepted(h)
    <3>1. CallIssued(h) /\ Accepted(h) = N - m
      BY <1>1, <2>2, <2>3 DEF CallsIssued, CallIssued
    <3>2. i \in 1..(N - m)
      BY <1>2, <2>1
    <3> QED BY <3>1, <3>2
  <2>5. PICK bs \in Seq(CB_SUBMISSION), L \in Nat : bs = call[h].batches /\ L = Len(bs) /\ DOMAIN bs = 1..L
    BY <1>1, CallFields, LenProperties
  <2>6. PICK j : j = i + Skip(h)
    OBVIOUS
  <2>7. j \in DOMAIN bs
    <3>1. Skip(h) \in {0, 1} /\ (hpc[h] = "driver" => Skip(h) = 0)
      BY DEF Skip, PushPc
    <3>2. CASE hpc[h] = "driver"
      <4>1. call[h].idx < L /\ Accepted(h) = call[h].idx /\ call[h].idx \in Nat
        BY <1>1, <2>5, <3>2, CallFields DEF Room, Accepted
      <4> QED BY <2>4, <2>5, <2>6, <3>1, <3>2, <4>1
    <3>3. CASE hpc[h] # "driver"
      <4>1. Accepted(h) = L - Skip(h)
        BY <2>5, <3>3 DEF Accepted
      <4> QED BY <2>1, <2>4, <2>5, <2>6, <3>1, <4>1
    <3> QED BY <3>2, <3>3
  <2>8. SameOps(issued[q][n], bs[j])
    BY <1>2, <2>1, <2>3, <2>4, <2>5, <2>6 DEF CallIssued, SameBatch
  <2>9. bs[j] \in CB_SUBMISSION
    BY <2>5, <2>7, ElementOfSeq
  <2>10. x[3] \in Ops(bs[j]) /\ OpOn(bs[j], x[3]) = SemOf(x)
    BY <1>1, <1>2, <2>8, SameOpOn
  <2>11. SemOf(x) \in SemsOf(bs)
    BY <2>7, <2>9, <2>10, OpInSems
  <2>12. x[2] >= seq_[x[1]] /\ x[2] # seq_[x[1]]
    <3>1. n >= m /\ n # m
      BY <1>4
    <3> QED BY <1>2, <3>1
  <2> QED BY <1>2, <2>3, <2>5, <2>11, <2>12
<1> QED BY <1>3, <1>4

\* The operation that a semaphore is told of has, on the device, the number it gets.
LEMMA TellNumber ==
    ASSUME IInv, VerdictInv, OpsNumbered, CallInv, Telling,
           NEW h \in Host, NEW q, NEW b, NEW k, NEW s, NEW p, TellsOp(h, q, b, k, s, p), NEW y, y = <<q, b.seq, k>>
    PROVE  /\ y \in IssuedOps /\ SemOf(y) = s /\ Number(y) = p /\ ~Told(y)
           /\ b.seq \in DOMAIN issued[q] /\ b.seq = seq_[q]
<1>1. CallsIssued /\ SubIssued /\ CallsOnce /\ TypeOK /\ SubOps /\ OneCall
  BY DEF CallInv, IInv, VerdictInv
<1>2. /\ hpc[h] = "enqueue" /\ q \in Queue /\ call[h].queue = q /\ b \in CB_SUBMISSION /\ call[h].sub = b
      /\ k \in Ops(b) /\ k \in Nat /\ call[h].idx = k /\ s \in BinarySem /\ s = OpOn(b, k) /\ p \in Nat /\ sem[s].next_payload = p
  BY DEF TellsOp
<1>3. hpc[h] \in SubmitPc /\ hpc[h] \in PushPc
  BY <1>2 DEF SubmitPc, PushPc
<1>4. PICK n \in Nat, N \in Nat : n = b.seq /\ n = seq_[q] /\ N = Len(issued[q]) /\ n >= 1 /\ DOMAIN issued[q] = 1..N
  BY <1>1, <1>2, <1>3, PositiveSeq, QueueLengths, IssuedType
<1>5. n \in 1..N
  <2>1. PICK L \in Nat : L = Len(call[h].batches) /\ L >= 1
    BY <1>1, <1>3, BatchOne, CallFields, LenProperties
  <2>2. N - n = L - 1
    BY <1>1, <1>2, <1>3, <1>4, <2>1 DEF CallsIssued, CallIssued, Accepted, Skip, PushPc, Ahead
  <2> QED BY <1>4, <2>1, <2>2
<1>6. SameOps(issued[q][n], b) /\ SameOps(b, call[h].batches[1])
  BY <1>1, <1>2, <1>4 DEF SubIssued, SubIs, SameBatch, SubOps
<1>7. y \in IssuedOps /\ y[1] = q /\ y[2] = n /\ y[3] = k
  <2>1. k \in Ops(issued[q][n])
    BY <1>2, <1>6 DEF SameOps, Ops
  <2> QED BY <1>2, <1>4, <1>5, <2>1, IssuedOpIs
<1>8. SemOf(y) = s
  BY <1>1, <1>2, <1>6, <1>7, SameOpOn
<1>9. ~Told(y)
  BY <1>2, <1>4, <1>7 DEF Told
<1>10. PICK v \in Nat, a \in Nat : v = Number(y) /\ a = app_sem[s] /\ v <= a /\ ~(v < p)
  <2>1. Number(y) \in Nat /\ app_sem[s] \in Nat
    BY <1>1, <1>2, <1>7, IssuedOpType DEF TypeOK, Sem
  <2>2. Number(y) <= app_sem[s]
    BY <1>7, <1>8 DEF OpsNumbered
  <2>3. ~(Number(y) < p)
    BY <1>2, <1>7, <1>8, <1>9 DEF Telling
  <2> QED BY <2>1, <2>2, <2>3
<1>11. ASSUME v # p PROVE FALSE
  <2>1. p \in p..a
    BY <1>2, <1>10
  <2>2. PICK x \in IssuedOps : SemOf(x) = s /\ Number(x) = p
    BY <1>2, <1>10, <2>1 DEF Telling
  <2>3. ~Told(x)
    <3>1. ~(p < p)
      BY <1>2
    <3> QED BY <1>2, <2>2, <3>1 DEF Telling
  <2>4. PICK g \in Host : /\ hpc[g] \in SubmitPc /\ call[g].queue = x[1] /\ SemOf(x) \in SemsOf(call[g].batches)
                          /\ x[2] >= seq_[x[1]]
                          /\ x[2] = seq_[x[1]] => hpc[g] = "enqueue" /\ ~(x[3] < call[g].idx)
    BY <1>1, <2>3, Undertold
  <2>5. 1 \in DOMAIN call[h].batches /\ call[h].batches[1] \in CB_SUBMISSION
    <3>1. 1 \in DOMAIN call[h].batches
      BY <1>1, <1>3, BatchOne
    <3> QED BY <1>1, <3>1, CallFields, ElementOfSeq, LenProperties
  <2>6. s \in SemsOf(call[h].batches)
    <3>1. k \in Ops(call[h].batches[1]) /\ s = OpOn(call[h].batches[1], k)
      BY <1>2, <1>6 DEF SameOps, Ops
    <3> QED BY <2>5, <3>1, OpInSems
  <2>7. g = h
    BY <1>1, <1>2, <1>3, <2>2, <2>4, <2>6 DEF OneCall
  <2>8. PICK m \in Nat : x[1] = q /\ x[2] = m /\ m >= n
    BY <1>1, <1>2, <1>4, <2>4, <2>7, IssuedOpType
  <2>9. CASE m # n
    <3>1. n < m
      BY <2>8, <2>9
    <3>2. Number(y) < Number(x)
      BY <1>7, <1>8, <2>2, <2>8, <3>1 DEF OpsNumbered
    <3> QED BY <1>2, <1>10, <2>2, <3>2
  <2>10. CASE m = n
    <3>1. x[3] \in Ops(b) /\ OpOn(b, x[3]) = s
      BY <1>1, <1>6, <2>2, <2>8, <2>10, SameOpOn
    <3>2. NamesOnce(b)
      <4>1. NamesOnce(call[h].batches[1])
        BY <1>1, <1>3, <2>5 DEF CallsOnce
      <4>2. Ops(b) = Ops(call[h].batches[1])
        BY <1>6 DEF SameOps, Ops
      <4> QED BY <1>6, <4>1, <4>2 DEF NamesOnce, SameOps
    <3>3. x[3] = k
      BY <1>2, <3>1, <3>2 DEF NamesOnce
    <3>4. x = <<x[1], x[2], x[3]>>
      BY IssuedOpIs
    <3>5. x = y
      BY <1>4, <2>8, <2>10, <3>3, <3>4
    <3> QED BY <1>10, <1>11, <2>2, <3>5
  <2> QED BY <2>9, <2>10
<1> QED BY <1>4, <1>5, <1>7, <1>8, <1>9, <1>10, <1>11

-----------------------------------------------------------------------------
(* What the layer was told *)

ToldSame == \A x \in IssuedOps : Told(x)' <=> Told(x)

LEMMA StillTold ==
    ASSUME CallsStill
    PROVE  ToldSame
BY DEF CallsStill, ToldSame, Told, SubmitPc

\* A thread that is not in the loops over semaphores before or after a step.
LEMMA OutsideTold ==
    ASSUME NEW h \in Host, OnlyHost(h), hpc[h] # "enqueue", hpc'[h] # "enqueue", seq_' = seq_
    PROVE  ToldSame
BY DEF OnlyHost, ToldSame, Told

LEMMA SubmitSeqTold ==
    ASSUME IInv, NEW h \in Host, SubmitSeq(h)
    PROVE  ToldSame
<1>1. TypeOK
  BY DEF IInv
<1>2. hpc[h] = "seq" /\ hpc'[h] = "enqueue" /\ hpc[h] \in SubmitPc /\ hpc[h] # "enqueue"
  BY <1>1 DEF SubmitSeq, TypeOK, SubmitPc
<1>3. PICK q \in Queue : q = call[h].queue /\ \A g \in Host : hpc[g] \in SubmitPc => call[g].queue # q \/ g = h
  BY <1>1, <1>2, SubmitCallIs
<1>4. PICK n \in Nat : n = seq_[q]
  BY <1>1, QueueLengths
<1>5. /\ OnlyHost(h) /\ call'[h].queue = q /\ call'[h].idx = 1
      /\ seq_'[q] = n + 1 /\ \A p \in Queue : p # q => seq_'[p] = seq_[p]
  <2>1. OnlyHost(h) /\ call'[h].queue = q
    BY <1>1, <1>3, SubmitSeqCall
  <2>2. call'[h].idx = 1
    BY <1>1 DEF SubmitSeq, TypeOK, Call
  <2>3. seq_' = [seq_ EXCEPT ![q] = @ + 1]
    BY <1>3 DEF SubmitSeq
  <2> QED BY <1>1, <1>4, <2>1, <2>2, <2>3 DEF TypeOK
<1> SUFFICES ASSUME NEW x \in IssuedOps PROVE Told(x)' <=> Told(x)
  BY DEF ToldSame
<1>6. x[1] \in Queue /\ x[2] \in Nat /\ x[3] \in Nat /\ x[3] >= 1
  <2>1. x[1] \in Queue /\ x[2] \in DOMAIN issued[x[1]] /\ x[3] \in Ops(issued[x[1]][x[2]]) /\ x[2] \in Nat
    BY <1>1, IssuedOpType, IssuedOpIs
  <2>2. issued[x[1]][x[2]] \in CB_SUBMISSION
    BY <1>1, <2>1, IssuedType
  <2> QED BY <2>1, <2>2, OpInfoType
<1>7. CASE x[1] # q
  <2>1. \A g \in Host : hpc'[g] = "enqueue" /\ call'[g].queue = x[1] <=> hpc[g] = "enqueue" /\ call[g].queue = x[1]
    BY <1>2, <1>3, <1>5, <1>7 DEF OnlyHost
  <2>2. \A g \in Host : hpc[g] = "enqueue" => call'[g] = call[g]
    BY <1>2, <1>5 DEF OnlyHost
  <2> QED BY <1>5, <1>6, <1>7, <2>1, <2>2 DEF Told
<1>8. CASE x[1] = q
  <2>1. Told(x) <=> x[2] <= n
    BY <1>2, <1>3, <1>4, <1>8 DEF Told, SubmitPc
  <2>2. Told(x)' <=> x[2] <= n + 1 /\ (x[2] = n + 1 => x[3] < 1)
    <3>1. \A g \in Host : hpc'[g] = "enqueue" /\ call'[g].queue = q => g = h
      BY <1>2, <1>3, <1>5 DEF OnlyHost, SubmitPc
    <3> QED BY <1>2, <1>5, <1>8, <3>1 DEF Told
  <2> QED BY <1>6, <2>1, <2>2
<1> QED BY <1>7, <1>8

LEMMA SubmitFenceTold ==
    ASSUME IInv, CallInv, NEW h \in Host, SubmitFence(h)
    PROVE  ToldSame
<1>1. TypeOK /\ SubIssued
  BY DEF IInv, CallInv
<1>2. OnlyHost(h) /\ hpc[h] = "enqueue" /\ hpc'[h] = "push" /\ seq_' = seq_ /\ hpc[h] \in SubmitPc /\ hpc[h] \in PushPc
  BY <1>1, SubmitFenceCall DEF SubmitFence, queueVars, SubmitPc, PushPc
<1>3. PICK q \in Queue : q = call[h].queue /\ \A g \in Host : hpc[g] \in SubmitPc => call[g].queue # q \/ g = h
  BY <1>1, <1>2, SubmitCallIs
<1>4. PICK b \in CB_SUBMISSION : b = call[h].sub
  BY <1>1 DEF TypeOK, Call
<1>5. PICK n \in Nat : n = Len(b.wait_semaphores) + Len(b.signal_semaphores)
  BY LenProperties DEF CB_SUBMISSION
<1>6. call[h].idx = n + 1
  BY <1>4, <1>5 DEF SubmitFence
<1>7. SameBatch(issued[q][seq_[q]], b)
  BY <1>1, <1>2, <1>3, <1>4, PositiveSeq DEF SubIssued, SubIs
<1> SUFFICES ASSUME NEW x \in IssuedOps PROVE Told(x)' <=> Told(x)
  BY DEF ToldSame
<1>8. CASE x[1] # q
  BY <1>2, <1>3, <1>8 DEF Told, OnlyHost
<1>9. CASE x[1] = q
  <2>1. Told(x) <=> x[2] <= seq_[q] /\ (x[2] = seq_[q] => x[3] < n + 1)
    BY <1>2, <1>3, <1>6, <1>9 DEF Told, SubmitPc
  <2>2. Told(x)' <=> x[2] <= seq_[q]
    <3>1. \A g \in Host : ~(hpc'[g] = "enqueue" /\ call'[g].queue = q)
      BY <1>2, <1>3 DEF OnlyHost, SubmitPc
    <3> QED BY <1>2, <1>9, <3>1 DEF Told
  <2>3. ASSUME x[2] = seq_[q] PROVE x[3] < n + 1
    <3>1. x[3] \in Ops(b)
      BY <1>7, <1>9, <2>3, IssuedOpIs DEF SameBatch, SameOps, Ops
    <3>2. x[3] \in 1..n
      BY <1>5, <3>1 DEF Ops
    <3> QED BY <3>2
  <2> QED BY <2>1, <2>2, <2>3
<1> QED BY <1>8, <1>9

LEMMA KeepTelling ==
    ASSUME TypeOK, TimelineSem = {}, Telling, issued' = issued, app_sem' = app_sem, ToldSame,
           \A s \in BinarySem : sem'[s].next_payload = sem[s].next_payload
    PROVE  Telling'
<1>1. \A x \in IssuedOps : SemOf(x) \in BinarySem
  BY IssuedOpType DEF Sem
<1>2. IssuedOps' = IssuedOps /\ \A x : SemOf(x)' = SemOf(x) /\ Number(x)' = Number(x)
  BY IssuedSame
<1>3. \A x \in IssuedOps : Told(x)' <=> Number(x) < sem'[SemOf(x)].next_payload
  BY <1>1 DEF Telling, ToldSame
<1>4. \A x \in IssuedOps' : Told(x)' <=> Number(x)' < sem'[SemOf(x)'].next_payload
  BY <1>2, <1>3
<1>5. \A s \in BinarySem : \A p \in sem'[s].next_payload..app_sem'[s] : \E x \in IssuedOps' : SemOf(x)' = s /\ Number(x)' = p
  BY <1>2 DEF Telling
<1> QED BY <1>4, <1>5 DEF Telling

\* The driver accepts operations that the layer does not know of.
LEMMA TellingAccept ==
    ASSUME IInv, TimelineSem = {}, CallInv, OpsNumbered, Telling, NEW h \in Host, DriverAccept(h)
    PROVE  Telling'
<1>1. TypeOK /\ CallsIssued
  BY DEF IInv, CallInv
<1>2. sem' = sem /\ seq_' = seq_ /\ OnlyHost(h) /\ hpc[h] = "driver" /\ hpc'[h] \in {"driver", "cbs"}
  BY <1>1, DriverAcceptCall DEF DriverAccept, queueVars, TypeOK
<1>3. ToldSame
  BY <1>2, OutsideTold
<1>4. PICK q, b, n : q = call[h].queue /\ b = call[h].batches[call[h].idx + 1] /\ n = Len(issued[q]) + 1
  OBVIOUS
<1>5. /\ q \in Queue /\ n \in Nat /\ n > 0 /\ b \in CB_SUBMISSION
      /\ \A k \in Ops(b) : <<q, n, k>> \in IssuedOps'
      /\ \A x \in IssuedOps : x \in IssuedOps' /\ SemOf(x)' = SemOf(x) /\ Number(x)' = Number(x)
      /\ \A x \in IssuedOps' : x \notin IssuedOps =>
            /\ x[1] = q /\ x[2] = n /\ x[3] \in Ops(b) /\ x = <<q, n, x[3]>>
            /\ SemOf(x)' = OpOn(b, x[3]) /\ Number(x)' = app_sem[OpOn(b, x[3])] + 1
  <2>1. AcceptOf(h, q, b, n)
    BY <1>1, <1>4 DEF AcceptOf
  <2>2. BatchAdded(q, b, n) /\ OpsAdded(q, b, n)
    BY <1>1, <1>4, <2>1, AcceptIssued
  <2> QED BY <1>1, <1>4, <2>2 DEF BatchAdded, OpsAdded
<1>6. \A s \in BinarySem : s \in Sem /\ app_sem[s] \in Nat /\ sem[s].next_payload \in Nat
  BY <1>1 DEF TypeOK, Sem, SemRecord
<1>7. \A k \in Ops(b) : OpOn(b, k) \in BinarySem
  BY <1>5, OpInfoType DEF Sem, SemInfo
<1>8. \A s \in BinarySem : app_sem'[s] \in {app_sem[s], app_sem[s] + 1}
  <2> SUFFICES ASSUME NEW s \in BinarySem PROVE app_sem'[s] \in {app_sem[s], app_sem[s] + 1}
    OBVIOUS
  <2>1. /\ (\E k \in Ops(b) : OpOn(b, k) = s) => app_sem'[s] = app_sem[s] + 1
        /\ (\A k \in Ops(b) : OpOn(b, k) # s) => app_sem'[s] = app_sem[s]
    BY <1>1, <1>4, <1>6, AcceptSems
  <2> QED BY <2>1
<1>9. \A s \in BinarySem : sem'[s].next_payload <= app_sem'[s] + 1
  <2> SUFFICES ASSUME NEW s \in BinarySem PROVE sem'[s].next_payload <= app_sem'[s] + 1
    OBVIOUS
  <2>1. \A v, a, c \in Nat : c \in {a, a + 1} /\ v <= a + 1 => v <= c + 1
    OBVIOUS
  <2>2. sem[s].next_payload <= app_sem[s] + 1
    BY DEF Telling
  <2> QED BY <1>2, <1>6, <1>8, <2>1, <2>2
<1>10. \A x \in IssuedOps' : Told(x)' <=> Number(x)' < sem'[SemOf(x)'].next_payload
  <2> SUFFICES ASSUME NEW x \in IssuedOps' PROVE Told(x)' <=> Number(x)' < sem'[SemOf(x)'].next_payload
    OBVIOUS
  <2>1. CASE x \in IssuedOps
    <3>1. Told(x)' <=> Number(x) < sem[SemOf(x)].next_payload
      BY <1>3, <2>1 DEF ToldSame, Telling
    <3> QED BY <1>2, <1>5, <2>1, <3>1
  <2>2. CASE x \notin IssuedOps
    <3>1. ~Told(x)'
      <4>1. PICK m \in Nat : m = seq_[q]
        BY <1>1, <1>5, QueueLengths
      <4>2. n > m
        <5>1. Ahead(q) \in Nat
          <6>1. Ahead(q) = call[h].idx
            BY <1>1, <1>2, <1>4 DEF CallsIssued, CallIssued, Accepted, SubmitPc
          <6> QED BY <1>1, <6>1, CallFields
        <5>2. Len(issued[q]) \in Nat
          BY <1>1, <1>5, QueueLengths
        <5> QED BY <1>4, <4>1, <5>1, <5>2 DEF Ahead
      <4>3. x[1] = q /\ x[2] = n
        BY <1>5, <2>2
      <4>4. ~(n <= m)
        BY <1>5, <4>1, <4>2
      <4> QED BY <1>2, <4>1, <4>3, <4>4 DEF Told
    <3>2. PICK s \in BinarySem : s = OpOn(b, x[3]) /\ SemOf(x)' = s /\ Number(x)' = app_sem[s] + 1
      BY <1>5, <1>7, <2>2
    <3>3. \A v, a \in Nat : v <= a + 1 => ~(a + 1 < v)
      OBVIOUS
    <3>4. ~(app_sem[s] + 1 < sem[s].next_payload)
      BY <1>6, <3>3 DEF Telling
    <3> QED BY <1>2, <3>1, <3>2, <3>4
  <2> QED BY <2>1, <2>2
<1>11. \A s \in BinarySem : \A p \in sem'[s].next_payload..app_sem'[s] : \E x \in IssuedOps' : SemOf(x)' = s /\ Number(x)' = p
  <2> SUFFICES ASSUME NEW s \in BinarySem, NEW p \in sem[s].next_payload..app_sem'[s]
               PROVE  \E x \in IssuedOps' : SemOf(x)' = s /\ Number(x)' = p
    BY <1>2
  <2>1. PICK a \in Nat, v \in Nat, c \in Nat : a = app_sem[s] /\ v = sem[s].next_payload /\ c = app_sem'[s] /\ c \in {a, a + 1}
    BY <1>6, <1>8
  <2>2. p \in v..c
    BY <2>1
  <2>3. CASE p <= a
    <3>1. p \in v..a
      BY <2>1, <2>2, <2>3
    <3>2. PICK x \in IssuedOps : SemOf(x) = s /\ Number(x) = p
      BY <2>1, <3>1 DEF Telling
    <3> QED BY <1>5, <3>2
  <2>4. CASE ~(p <= a)
    <3>1. p = a + 1 /\ c # a
      BY <2>1, <2>2, <2>4
    <3>2. PICK k \in Ops(b) : OpOn(b, k) = s
      BY <1>1, <1>4, <1>6, <2>1, <3>1, AcceptSems
    <3>3. PICK x \in IssuedOps' : x = <<q, n, k>>
      BY <1>5
    <3>4. x \notin IssuedOps
      <4>1. AcceptOf(h, q, b, n)
        BY <1>1, <1>4, <3>3 DEF AcceptOf
      <4>2. BatchAdded(q, b, n) /\ OpsAdded(q, b, n)
        BY <1>1, <1>4, <3>3, <4>1, AcceptIssued
      <4>3. \A y \in IssuedOps : y[1] = q => y[2] < n
        BY <4>2 DEF OpsAdded
      <4>4. x[1] = q /\ x[2] = n /\ ~(n < n)
        BY <1>5, <3>3
      <4> QED BY <4>3, <4>4
    <3> QED BY <1>5, <2>1, <3>1, <3>2, <3>3, <3>4
  <2> QED BY <2>3, <2>4
<1> QED BY <1>9, <1>10, <1>11 DEF Telling

\* The layer's semaphore is told of an operation.
LEMMA TellTold ==
    ASSUME IInv, seq_' = seq_, NEW h \in Host, NEW q, NEW b, NEW k, NEW s, NEW p, TellsOp(h, q, b, k, s, p), b.seq = seq_[q],
           NEW x \in IssuedOps
    PROVE  Told(x)' <=> Told(x) \/ x = <<q, b.seq, k>>
<1>1. TypeOK
  BY DEF IInv
<1>2. /\ OnlyHost(h) /\ hpc[h] = "enqueue" /\ hpc'[h] = "enqueue" /\ q \in Queue /\ call[h].queue = q /\ call'[h].queue = q
      /\ k \in Nat /\ call[h].idx = k /\ call'[h].idx = k + 1
  BY DEF TellsOp
<1>3. \A g \in Host : hpc[g] = "enqueue" => call[g].queue # q \/ g = h
  BY <1>2, SubmitCallIs DEF SubmitPc
<1>4. PICK n \in Nat : n = seq_[q]
  BY <1>1, <1>2, QueueLengths
<1>5. PICK m \in Nat, l \in Nat : m = x[2] /\ l = x[3]
  <2>1. x[1] \in Queue /\ x[2] \in DOMAIN issued[x[1]] /\ x[3] \in Ops(issued[x[1]][x[2]]) /\ x[2] \in Nat
    BY <1>1, IssuedOpType, IssuedOpIs
  <2>2. issued[x[1]][x[2]] \in CB_SUBMISSION
    BY <1>1, <2>1, IssuedType
  <2> QED BY <2>1, <2>2, OpInfoType
<1>6. CASE x[1] # q
  <2>1. Told(x)' <=> Told(x)
    BY <1>2, <1>6 DEF Told, OnlyHost
  <2> QED BY <1>6, <2>1
<1>7. CASE x[1] = q
  <2>1. Told(x) <=> m <= n /\ (m = n => l < k)
    BY <1>2, <1>3, <1>4, <1>5, <1>7 DEF Told
  <2>2. Told(x)' <=> m <= n /\ (m = n => l < k + 1)
    <3>1. \A g \in Host : hpc'[g] = "enqueue" /\ call'[g].queue = q => g = h
      BY <1>2, <1>3 DEF OnlyHost
    <3> QED BY <1>2, <1>4, <1>5, <1>7, <3>1 DEF Told
  <2>3. x = <<q, b.seq, k>> <=> m = n /\ l = k
    <3>1. x = <<x[1], x[2], x[3]>>
      BY IssuedOpIs
    <3> QED BY <1>4, <1>5, <1>7, <3>1
  <2> QED BY <1>2, <1>4, <1>5, <2>1, <2>2, <2>3
<1> QED BY <1>6, <1>7

LEMMA TellingTell ==
    ASSUME IInv, TimelineSem = {}, VerdictInv, OpsNumbered, CallInv, Telling, issued' = issued, app_sem' = app_sem, seq_' = seq_,
           NEW h \in Host, NEW q, NEW b, NEW k, NEW s, NEW p, TellsOp(h, q, b, k, s, p)
    PROVE  Telling'
<1>1. TypeOK
  BY DEF IInv
<1> PICK y : y = <<q, b.seq, k>>
  OBVIOUS
<1>2. y = <<q, b.seq, k>> /\ y \in IssuedOps /\ SemOf(y) = s /\ Number(y) = p /\ b.seq = seq_[q]
  BY TellNumber
<1>3. /\ s \in BinarySem /\ p \in Nat /\ sem[s].next_payload = p /\ sem'[s].next_payload = p + 1
      /\ \A r \in BinarySem : r # s => sem'[r].next_payload = sem[r].next_payload
  BY DEF TellsOp, Sem
<1>4. \A r \in BinarySem : app_sem[r] \in Nat /\ sem[r].next_payload \in Nat
  BY <1>1 DEF TypeOK, Sem, SemRecord
<1>5. p \in 1..app_sem[s]
  BY <1>2 DEF OpsNumbered
<1>6. \A r \in BinarySem : sem'[r].next_payload <= app_sem'[r] + 1
  <2> SUFFICES ASSUME NEW r \in BinarySem PROVE sem'[r].next_payload <= app_sem[r] + 1
    OBVIOUS
  <2>1. CASE r = s
    BY <1>3, <1>4, <1>5, <2>1
  <2>2. CASE r # s
    BY <1>3, <2>2 DEF Telling
  <2> QED BY <2>1, <2>2
<1>7. \A x \in IssuedOps : Told(x)' <=> Number(x) < sem'[SemOf(x)].next_payload
  <2> SUFFICES ASSUME NEW x \in IssuedOps PROVE Told(x)' <=> Number(x) < sem'[SemOf(x)].next_payload
    OBVIOUS
  <2>1. Told(x)' <=> Told(x) \/ x = y
    BY <1>2, TellTold
  <2>2. Told(x) <=> Number(x) < sem[SemOf(x)].next_payload
    BY DEF Telling
  <2>3. SemOf(x) \in BinarySem /\ Number(x) \in Nat
    BY <1>1, IssuedOpType DEF Sem
  <2>4. CASE SemOf(x) # s
    <3>1. x # y /\ sem'[SemOf(x)].next_payload = sem[SemOf(x)].next_payload
      BY <1>2, <1>3, <2>3, <2>4
    <3> QED BY <2>1, <2>2, <3>1
  <2>5. CASE SemOf(x) = s
    <3>1. x = y <=> Number(x) = p
      BY <1>2, <2>5 DEF OpsNumbered
    <3>2. \A v \in Nat : v < p + 1 <=> v < p \/ v = p
      BY <1>3
    <3> QED BY <1>3, <2>1, <2>2, <2>3, <2>5, <3>1, <3>2
  <2> QED BY <2>4, <2>5
<1>8. \A r \in BinarySem : \A v \in sem'[r].next_payload..app_sem'[r] : \E x \in IssuedOps : SemOf(x) = r /\ Number(x) = v
  <2> SUFFICES ASSUME NEW r \in BinarySem, NEW v \in sem'[r].next_payload..app_sem[r]
               PROVE  \E x \in IssuedOps : SemOf(x) = r /\ Number(x) = v
    OBVIOUS
  <2>1. v \in sem[r].next_payload..app_sem[r]
    <3>1. CASE r = s
      BY <1>3, <1>4, <3>1
    <3>2. CASE r # s
      BY <1>3, <3>2
    <3> QED BY <3>1, <3>2
  <2> QED BY <2>1 DEF Telling
<1> QED BY <1>6, <1>7, <1>8, IssuedSame DEF Telling

\* A semaphore that is in no call knows of all operations on it.
LEMMA FreeTold ==
    ASSUME IInv, SubOps, CallInv, Telling, NEW s \in BinarySem, BinaryFree(s)
    PROVE  sem[s].next_payload = app_sem[s] + 1
<1>1. TypeOK
  BY DEF IInv
<1>2. PICK v \in Nat, a \in Nat : v = sem[s].next_payload /\ a = app_sem[s] /\ v <= a + 1
  BY <1>1 DEF TypeOK, Sem, SemRecord, Telling
<1>3. ASSUME v # a + 1 PROVE FALSE
  <2>1. v \in v..a
    BY <1>2, <1>3
  <2>2. PICK x \in IssuedOps : SemOf(x) = s /\ Number(x) = v
    BY <1>2, <2>1 DEF Telling
  <2>3. ~(v < v)
    BY <1>2
  <2>4. ~Told(x)
    BY <1>2, <2>2, <2>3 DEF Telling
  <2>5. \E g \in Host : SemOf(x) \in SemsOf(call[g].batches)
    BY <2>4, Undertold
  <2> QED BY <2>2, <2>5 DEF BinaryFree
<1> QED BY <1>2, <1>3

LEMMA TellingAcquire ==
    ASSUME IInv, SubOps, TimelineSem = {}, OpsNumbered, CallInv, Telling,
           NEW h \in Host, NEW s \in BinarySem, NEW f \in Fence, AcquireNextImage(h, s, f)
    PROVE  Telling'
<1>1. TypeOK
  BY DEF IInv
<1>2. issued' = issued /\ CallsStill
  BY DEF AcquireNextImage, CallsStill, hostVars, queueVars
<1>3. PICK a \in Nat : a = app_sem[s] /\ sem[s].next_payload = a + 1
  <2>1. sem[s].next_payload = app_sem[s] + 1
    BY FreeTold DEF AcquireNextImage
  <2> QED BY <1>1, <2>1 DEF TypeOK, Sem
<1>4. /\ app_sem'[s] = a + 1 /\ sem'[s].next_payload = a + 2
      /\ \A r \in BinarySem : r # s => app_sem'[r] = app_sem[r] /\ sem'[r] = sem[r]
  <2>1. app_sem' = [app_sem EXCEPT ![s] = @ + 1] /\ sem' = [sem EXCEPT ![s] = SemEnqueueAcquire(sem[s])]
    BY DEF AcquireNextImage
  <2>2. SemEnqueueAcquire(sem[s]).next_payload = sem[s].next_payload + 1
    BY <1>1 DEF SemEnqueueAcquire, SemEnqueue, TypeOK, Sem, SemRecord
  <2> QED BY <1>1, <1>3, <2>1, <2>2 DEF TypeOK, Sem
<1>5. \A r \in BinarySem : sem'[r].next_payload <= app_sem'[r] + 1
  BY <1>3, <1>4 DEF Telling
<1>6. \A x \in IssuedOps : Told(x)' <=> Number(x) < sem'[SemOf(x)].next_payload
  <2> SUFFICES ASSUME NEW x \in IssuedOps PROVE Told(x)' <=> Number(x) < sem'[SemOf(x)].next_payload
    OBVIOUS
  <2>1. Told(x)' <=> Number(x) < sem[SemOf(x)].next_payload
    BY <1>2, StillTold DEF ToldSame, Telling
  <2>2. SemOf(x) \in BinarySem /\ Number(x) \in Nat
    BY <1>1, IssuedOpType DEF Sem
  <2>3. CASE SemOf(x) # s
    BY <1>4, <2>1, <2>2, <2>3
  <2>4. CASE SemOf(x) = s
    <3>1. Number(x) <= a
      BY <1>3, <2>4 DEF OpsNumbered
    <3> QED BY <1>3, <1>4, <2>1, <2>2, <2>4, <3>1
  <2> QED BY <2>3, <2>4
<1>7. \A r \in BinarySem : \A v \in sem'[r].next_payload..app_sem'[r] : \E x \in IssuedOps : SemOf(x) = r /\ Number(x) = v
  <2> SUFFICES ASSUME NEW r \in BinarySem, NEW v \in sem'[r].next_payload..app_sem'[r]
               PROVE  \E x \in IssuedOps : SemOf(x) = r /\ Number(x) = v
    OBVIOUS
  <2>1. CASE r # s
    BY <1>4, <2>1 DEF Telling
  <2>2. CASE r = s
    BY <1>3, <1>4, <2>2
  <2> QED BY <2>1, <2>2
<1> QED BY <1>2, <1>5, <1>6, <1>7, IssuedSame DEF Telling

\* What a step does to the layer's semaphores.
SemsStill ==
    \A s \in BinarySem : sem'[s].next_payload = sem[s].next_payload /\ sem'[s].operations = sem[s].operations

LEMMA ShareStill ==
    ASSUME TypeOK, NEW s \in Sem, NEW h \in Host, NEW b \in BOOLEAN, ImportSemaphore(h, s, b) \/ ExportSemaphore(h, s, b)
    PROVE  SemsStill
<1>1. PICK r : sem' = [sem EXCEPT ![s] = r] /\ r.next_payload = sem[s].next_payload /\ r.operations = sem[s].operations
  <2>1. sem[s] \in SemRecord
    BY DEF TypeOK
  <2>2. CASE ImportSemaphore(h, s, b)
    <3>1. sem' = [sem EXCEPT ![s] = SemImport(sem[s], b)]
      BY <2>2 DEF ImportSemaphore
    <3>2. SemImport(sem[s], b).next_payload = sem[s].next_payload /\ SemImport(sem[s], b).operations = sem[s].operations
      BY <2>1 DEF SemImport, SemRecord
    <3> QED BY <3>1, <3>2
  <2>3. CASE ExportSemaphore(h, s, b)
    <3>1. sem' = [sem EXCEPT ![s] = SemExport(sem[s], b)]
      BY <2>3 DEF ExportSemaphore
    <3>2. SemExport(sem[s], b).next_payload = sem[s].next_payload /\ SemExport(sem[s], b).operations = sem[s].operations
      BY <2>1 DEF SemExport, SemRecord
    <3> QED BY <3>1, <3>2
  <2> QED BY <2>2, <2>3
<1>2. \A x \in BinarySem : x \in Sem
  BY DEF Sem
<1> QED BY <1>1, <1>2 DEF TypeOK, SemsStill

LEMMA NextSems ==
    ASSUME IInv, HostFrames, TimelineSem = {}, [Next]_vars
    PROVE  \/ SemsStill
           \/ \E h \in Host : SubmitWait(h) \/ SubmitSignal(h)
           \/ \E h \in Host, s \in BinarySem, f \in Fence : AcquireNextImage(h, s, f)
           \/ \E q \in Queue : RetireAtOnce(q)
<1>1. TypeOK
  BY DEF IInv
<1>2. ASSUME sem' = sem PROVE SemsStill
  BY <1>2 DEF SemsStill
<1>3. ASSUME NEW h \in Host, OtherStep(h) PROVE SemsStill
  <2>1. ~SemaphoreWait(h) /\ ~SemaphorePoke(h) /\ ~SemaphoreReady(h) /\ ~RetireTimelineEnqueue(h)
    BY NoSemaphoreCall DEF SemaphoreWait, SemaphorePoke, SemaphoreReady, RetireTimelineEnqueue, SemaphorePc
  <2> QED BY <1>2, <1>3, <2>1 DEF OtherStep, QueueNotify, QueueWait, QueueWaitReady, FenceWaitReady, DestroyNotify, DestroyJoin
<1>4. ASSUME NEW h \in Host, OtherCall(h) PROVE SemsStill
  BY <1>2, <1>4 DEF OtherCall, QueueWaitIdle, DeviceWaitIdle, DestroyDevice, WaitSemaphore, SignalSemaphore
<1>5. ASSUME NEW h \in Host, SubmitStep(h), ~SubmitWait(h), ~SubmitSignal(h) PROVE SemsStill
  BY <1>2, <1>5 DEF SubmitStep, QueueSubmit, SubmitCbs, SubmitSeq
<1>6. ASSUME NEW h \in Host, SemaphoreStep(h) PROVE SemsStill
  BY <1>1, <1>2, <1>6, ShareStill DEF SemaphoreStep, RetireTimelineBegin
<1>7. ASSUME NEW h \in Host, DriverAccept(h) \/ SubmitFence(h) \/ SubmitPush(h) PROVE SemsStill
  BY <1>2, <1>7 DEF DriverAccept, SubmitFence, SubmitPush
<1>8. ASSUME NEW h \in Host, NEW f \in Fence, WaitForFence(h, f) \/ FenceCall(h, f), \A s \in BinarySem : ~AcquireNextImage(h, s, f)
      PROVE  SemsStill
  BY <1>2, <1>8 DEF WaitForFence, FenceCall, ResetFence, ImportFence, ExportFence
<1>9. ASSUME NEW a \in Actor, Retire(a) PROVE SemsStill \/ \E q \in Queue : RetireAtOnce(q)
  <2>1. a \in Queue
    BY <1>9, NoSemaphoreCall
  <2>2. CASE ~RetireAtOnce(a)
    BY <1>2, <1>9, <2>2 DEF Retire, RetireWaitOther, RetireResume, RetireEnd
  <2> QED BY <2>1, <2>2
<1>10. ASSUME NEW q \in Queue, ThreadStep(q) \/ ThreadRetireFence(q) \/ DeviceExecute(q) PROVE SemsStill
  BY <1>2, <1>10 DEF ThreadStep, ThreadSleep, ThreadPop, ThreadExit, ThreadEndUse, ThreadRetireSemaphore, ThreadLoopDone,
              ThreadRetireCbs, ThreadComplete, ThreadRetireFence, DeviceExecute
<1>11. CASE UNCHANGED vars
  BY <1>2, <1>11 DEF vars
<1>12. CASE Next
  <2>1. CASE \E h \in Host : OtherStep(h) \/ OtherCall(h) \/ SubmitStep(h) \/ SemaphoreStep(h)
    BY <1>3, <1>4, <1>5, <1>6, <2>1
  <2>2. CASE \E h \in Host : DriverAccept(h) \/ SubmitFence(h) \/ SubmitPush(h)
    BY <1>7, <2>2
  <2>3. CASE \E h \in Host, f \in Fence : WaitForFence(h, f) \/ FenceCall(h, f)
    BY <1>8, <2>3
  <2>4. CASE \E a \in Actor : Retire(a)
    BY <1>9, <2>4
  <2>5. CASE \E q \in Queue : ThreadStep(q) \/ ThreadRetireFence(q) \/ DeviceExecute(q)
    BY <1>10, <2>5
  <2> QED BY <1>12, <2>1, <2>2, <2>3, <2>4, <2>5, NextCases
<1> QED BY <1>11, <1>12

\* What a queue's Retire() does when it retires an entry of s at once.
RetiresHead(q, s, ops) ==
    /\ s \in Sem /\ frame[q] \in Frame /\ s = frame[q].semaphore
    /\ ops \in Seq(SemOp) /\ ops # << >> /\ sem[s].operations = ops
    /\ Head(ops).payload <= frame[q].payload /\ Head(ops).queue \in {NoQueue, q}
    /\ sem'[s].operations = Tail(ops) /\ sem'[s].next_payload = sem[s].next_payload
    /\ \A r \in Sem : r # s => sem'[r] = sem[r]

LEMMA RetireAtOnceIs ==
    ASSUME TypeOK, NEW q \in Queue, RetireAtOnce(q)
    PROVE  /\ \E s, ops : RetiresHead(q, s, ops)
           /\ hostVars' = hostVars /\ deviceVars' = deviceVars /\ seq_' = seq_ /\ fence' = fence
<1>1. q \in Actor /\ rpc[q] = "loop"
  BY DEF Actor, RetireAtOnce
<1> PICK s : s = frame[q].semaphore
  OBVIOUS
<1> PICK ops : ops = sem[s].operations
  OBVIOUS
<1>2. frame[q] \in Frame /\ s \in Sem
  BY <1>1 DEF TypeOK, Frame
<1>3. sem[s] \in SemRecord /\ ops \in Seq(SemOp)
  BY <1>2 DEF TypeOK, SemRecord
<1>4. ops # << >> /\ Head(ops).payload <= frame[q].payload
  BY DEF RetireAtOnce, RetireCovers
<1>5. Head(ops).queue \in {NoQueue, q}
  BY DEF RetireAtOnce, RetiresAtOnce, CurrentQueue
<1>6. sem' = [sem EXCEPT ![s] = RetireHead(sem[s])]
  BY DEF RetireAtOnce
<1>7. RetireHead(sem[s]).operations = Tail(ops) /\ RetireHead(sem[s]).next_payload = sem[s].next_payload
  BY <1>3 DEF RetireHead, SemRecord
<1>8. sem'[s] = RetireHead(sem[s]) /\ \A r \in Sem : r # s => sem'[r] = sem[r]
  BY <1>2, <1>6 DEF TypeOK
<1>9. hostVars' = hostVars /\ deviceVars' = deviceVars /\ seq_' = seq_ /\ fence' = fence
  BY DEF RetireAtOnce, hostVars, deviceVars
<1>10. RetiresHead(q, s, ops)
  BY <1>2, <1>3, <1>4, <1>5, <1>7, <1>8 DEF RetiresHead
<1> QED BY <1>9, <1>10

\* No other step gives out a number.
LEMMA NextPayloads ==
    ASSUME IInv, HostFrames, TimelineSem = {}, [Next]_vars, \A h \in Host : ~SubmitWait(h) /\ ~SubmitSignal(h),
           \A h \in Host, s \in BinarySem, f \in Fence : ~AcquireNextImage(h, s, f)
    PROVE  \A s \in BinarySem : sem'[s].next_payload = sem[s].next_payload
<1>1. CASE SemsStill
  BY <1>1 DEF SemsStill
<1>2. ASSUME NEW q \in Queue, RetireAtOnce(q) PROVE \A s \in BinarySem : sem'[s].next_payload = sem[s].next_payload
  <2>1. TypeOK /\ \A s \in BinarySem : s \in Sem
    BY DEF IInv, Sem
  <2>2. PICK r, ops : RetiresHead(q, r, ops)
    BY <1>2, <2>1, RetireAtOnceIs
  <2> QED BY <2>1, <2>2 DEF RetiresHead
<1> QED BY <1>1, <1>2, NextSems

LEMMA NextCalls ==
    ASSUME IInv, IInv', VerdictInv, SubIsFirst, Tracked, TimelineSem = {}, NoSharing, CallsNameOnce, DeviceInv, CallInv, Telling,
           [Next]_vars
    PROVE  CallInv' /\ Telling'
<1>1. TypeOK /\ TypeOK' /\ HostFrames /\ SubOps /\ AllBelow /\ OpsNumbered
  BY DEF IInv, VerdictInv, DeviceInv
<1>2. ASSUME NEW h \in Host, SubmitWait(h) \/ SubmitSignal(h) PROVE CallInv' /\ Telling'
  <2>1. PICK q, b, k, s, p : TellsOp(h, q, b, k, s, p)
    BY <1>1, <1>2, TellIs
  <2>2. issued' = issued /\ app_sem' = app_sem /\ seq_' = seq_
    BY <1>1, <1>2, TellIs DEF queueVars
  <2>3. PICK y : y = <<q, b.seq, k>>
    OBVIOUS
  <2>4. Number(y) = p /\ b.seq \in DOMAIN issued[q]
    BY <1>1, <2>1, <2>3, TellNumber
  <2>5. CallInv'
    BY <2>1, <2>2, <2>3, <2>4, CallsTell
  <2>6. Telling'
    BY <1>1, <2>1, <2>2, TellingTell
  <2> QED BY <2>5, <2>6
<1>3. ASSUME NEW h \in Host, NEW s \in BinarySem, NEW f \in Fence, AcquireNextImage(h, s, f) PROVE CallInv' /\ Telling'
  <2>1. issued' = issued /\ CallsStill
    BY <1>3 DEF AcquireNextImage, CallsStill, hostVars, queueVars
  <2> QED BY <1>1, <1>3, <2>1, CallsKept, TellingAcquire
<1>4. ASSUME NEW h \in Host, DriverAccept(h) PROVE CallInv' /\ Telling'
  BY <1>1, <1>4, CallsAccept, TellingAccept
<1>5. ASSUME \A h \in Host : ~SubmitWait(h) /\ ~SubmitSignal(h) /\ ~DriverAccept(h),
             \A h \in Host, s \in BinarySem, f \in Fence : ~AcquireNextImage(h, s, f)
      PROVE  CallInv' /\ Telling'
  <2>1. \A s \in BinarySem : sem'[s].next_payload = sem[s].next_payload
    BY <1>1, <1>5, NextPayloads
  <2>2. ASSUME issued' = issued, app_sem' = app_sem, ToldSame PROVE Telling'
    BY <1>1, <2>1, <2>2, KeepTelling
  <2>3. CASE DeviceStill /\ CallsStill
    BY <2>2, <2>3, CallsKept, StillTold DEF DeviceStill
  <2>4. ASSUME NEW h \in Host, NEW q \in Queue, NEW bs \in Calls[q], QueueSubmit(h, q, bs) PROVE CallInv' /\ Telling'
    <3>1. issued' = issued /\ app_sem' = app_sem /\ seq_' = seq_
      BY <2>4 DEF QueueSubmit, deviceVars, queueVars
    <3>2. OnlyHost(h) /\ hpc[h] # "enqueue" /\ hpc'[h] # "enqueue"
      BY <1>1, <2>4 DEF QueueSubmit, OnlyHost, TypeOK
    <3> QED BY <2>2, <2>4, <3>1, <3>2, OutsideTold, CallsStart
  <2>5. ASSUME NEW h \in Host, SubmitCbs(h) PROVE CallInv' /\ Telling'
    <3>1. issued' = issued /\ app_sem' = app_sem /\ seq_' = seq_
      BY <2>5 DEF SubmitCbs, deviceVars, queueVars
    <3>2. OnlyHost(h) /\ hpc[h] # "enqueue" /\ hpc'[h] # "enqueue"
      BY <1>1, <2>5, SubmitCbsCall
    <3> QED BY <2>2, <2>5, <3>1, <3>2, OutsideTold, CallsCbs
  <2>6. ASSUME NEW h \in Host, SubmitSeq(h) PROVE CallInv' /\ Telling'
    <3>1. issued' = issued /\ app_sem' = app_sem
      BY <2>6 DEF SubmitSeq, deviceVars
    <3> QED BY <2>2, <2>6, <3>1, SubmitSeqTold, CallsSeq
  <2>7. ASSUME NEW h \in Host, SubmitFence(h) PROVE CallInv' /\ Telling'
    <3>1. issued' = issued /\ app_sem' = app_sem
      BY <2>7 DEF SubmitFence, deviceVars
    <3> QED BY <2>2, <2>7, <3>1, SubmitFenceTold, CallsFence
  <2>8. ASSUME NEW h \in Host, SubmitPush(h) PROVE CallInv' /\ Telling'
    <3>1. issued' = issued /\ app_sem' = app_sem /\ seq_' = seq_ /\ hpc[h] = "push"
      BY <2>8 DEF SubmitPush, deviceVars
    <3>2. OnlyHost(h) /\ hpc'[h] # "enqueue"
      BY <1>1, <2>8 DEF SubmitPush, Return, OnlyHost, TypeOK
    <3> QED BY <2>2, <2>8, <3>1, <3>2, OutsideTold, CallsPush
  <2>9. ASSUME NEW q \in Queue, DeviceExecute(q) PROVE CallInv' /\ Telling'
    <3>1. issued' = issued /\ app_sem' = app_sem /\ CallsStill
      BY <2>9 DEF DeviceExecute, CallsStill, hostVars, queueVars
    <3> QED BY <2>2, <3>1, CallsKept, StillTold
  <2> QED BY <1>1, <1>5, <2>3, <2>4, <2>5, <2>6, <2>7, <2>8, <2>9, StepKinds DEF SubmitStep
<1> QED BY <1>2, <1>3, <1>4, <1>5

-----------------------------------------------------------------------------
(* What the layer keeps of submissions *)

\* What the driver has accepted stays.
IssuedStays ==
    /\ \A q \in Queue : \A n \in DOMAIN issued[q] : n \in DOMAIN issued'[q] /\ issued'[q][n] = issued[q][n]
    /\ \A x \in IssuedOps : /\ x \in IssuedOps' /\ SemOf(x)' = SemOf(x) /\ Number(x)' = Number(x)
                            /\ Signals(x)' <=> Signals(x)

LEMMA NextIssued ==
    ASSUME IInv, HostFrames, TimelineSem = {}, NoSharing, [Next]_vars
    PROVE  IssuedStays /\ (issued' = issued \/ \E h \in Host : DriverAccept(h))
<1>1. TypeOK
  BY DEF IInv
<1>2. ASSUME issued' = issued PROVE IssuedStays
  BY <1>2, IssuedSame DEF IssuedStays
<1>3. ASSUME NEW h \in Host, DriverAccept(h) PROVE IssuedStays
  <2>1. PICK q, b, n : q = call[h].queue /\ b = call[h].batches[call[h].idx + 1] /\ n = Len(issued[q]) + 1
    OBVIOUS
  <2>2. /\ q \in Queue /\ n \in Nat /\ n > 0 /\ DOMAIN issued'[q] = 1..n
        /\ \A m \in 1..(n - 1) : m \in DOMAIN issued[q] /\ issued'[q][m] = issued[q][m]
        /\ \A p \in Queue : p # q => issued'[p] = issued[p]
        /\ \A x \in IssuedOps : /\ x \in IssuedOps' /\ SemOf(x)' = SemOf(x) /\ Number(x)' = Number(x)
                                /\ Signals(x)' <=> Signals(x)
    <3>1. AcceptOf(h, q, b, n)
      BY <1>1, <1>3, <2>1 DEF AcceptOf
    <3>2. BatchAdded(q, b, n) /\ OpsAdded(q, b, n)
      BY <1>1, <1>3, <2>1, <3>1, AcceptIssued
    <3> QED BY <1>1, <1>3, <2>1, <3>2 DEF BatchAdded, OpsAdded
  <2>3. DOMAIN issued[q] = 1..(n - 1)
    BY <1>1, <2>1, <2>2, IssuedType
  <2>4. \A m \in DOMAIN issued[q] : m \in DOMAIN issued'[q] /\ issued'[q][m] = issued[q][m]
    BY <2>2, <2>3
  <2> QED BY <2>2, <2>4 DEF IssuedStays
<1>4. CASE \E h \in Host : DriverAccept(h)
  BY <1>3, <1>4
<1>5. CASE \A h \in Host : ~DriverAccept(h)
  <2>1. CASE DeviceStill
    BY <1>2, <2>1 DEF DeviceStill
  <2>2. CASE \E h \in Host : SubmitStep(h) \/ SubmitFence(h) \/ SubmitPush(h)
    BY <1>2, <2>2, SubmitDevice DEF DeviceStill
  <2>3. CASE \E h \in Host, s \in BinarySem, f \in Fence : AcquireNextImage(h, s, f)
    BY <1>2, <2>3 DEF AcquireNextImage
  <2>4. CASE \E q \in Queue : DeviceExecute(q)
    BY <1>2, <2>4 DEF DeviceExecute
  <2> QED BY <1>5, <2>1, <2>2, <2>3, <2>4, StepKinds
<1> QED BY <1>4, <1>5

LEMMA NextPendingFor ==
    ASSUME IInv, VerdictInv, TimelineSem = {}, NoSharing, DeviceInv, CallInv, Telling, PendingFor, [Next]_vars
    PROVE  PendingFor'
<1>1. TypeOK /\ HostFrames /\ AllBelow /\ OpsNumbered
  BY DEF IInv, VerdictInv, DeviceInv
<1>2. IssuedStays
  BY <1>1, NextIssued
<1>3. \A s \in BinarySem : s \in Sem /\ sem[s].operations \in Seq(SemOp)
  BY <1>1 DEF TypeOK, Sem, SemRecord
<1>4. ASSUME NEW s \in BinarySem, NEW op \in Pending(sem'[s]), op.queue # NoQueue, op \in Pending(sem[s])
      PROVE  \E x \in IssuedOps' : SemOf(x)' = s /\ IsFor(op, x)'
  <2>1. PICK x \in IssuedOps : SemOf(x) = s /\ IsFor(op, x)
    BY <1>4 DEF PendingFor
  <2> QED BY <1>2, <2>1 DEF IssuedStays, IsFor
<1>5. ASSUME \A s \in BinarySem : \A op \in Pending(sem'[s]) : op \in Pending(sem[s]) \/ op.queue = NoQueue
      PROVE  PendingFor'
  BY <1>4, <1>5 DEF PendingFor
<1>6. CASE SemsStill
  BY <1>5, <1>6 DEF SemsStill, Pending
<1>7. ASSUME NEW h \in Host, SubmitWait(h) \/ SubmitSignal(h) PROVE PendingFor'
  <2>1. TypeOK'
    BY NextKeeps DEF IInv
  <2>2. PICK q, b, k, s, p : TellsOp(h, q, b, k, s, p)
    BY <1>1, <1>7, <2>1, TellIs
  <2>3. PICK y : y = <<q, b.seq, k>>
    OBVIOUS
  <2>4. y \in IssuedOps /\ SemOf(y) = s /\ Number(y) = p
    BY <1>1, <2>2, <2>3, TellNumber
  <2>5. PICK op \in SemOp : op.queue = q /\ op.seq = b.seq /\ op.payload = p /\ Appended(sem[s].operations, op, sem'[s].operations)
    BY <2>2 DEF TellsOp
  <2>6. IsFor(op, y)
    BY <2>3, <2>4, <2>5 DEF IsFor
  <2>7. \A o \in Pending(sem'[s]) : o \in Pending(sem[s]) \/ o = op
    <3>1. PICK L \in Nat : L = Len(sem[s].operations) /\ DOMAIN sem[s].operations = 1..L
      BY <1>3, <2>2, LenProperties DEF TellsOp
    <3>2. DOMAIN sem'[s].operations = 1..(L + 1) /\ sem'[s].operations[L + 1] = op
          /\ \A i \in 1..L : sem'[s].operations[i] = sem[s].operations[i]
      BY <2>5, <3>1 DEF Appended
    <3>3. \A i \in 1..(L + 1) : i \in 1..L \/ i = L + 1
      BY <3>1
    <3> QED BY <3>1, <3>2, <3>3 DEF Pending
  <2>8. \A r \in BinarySem : r # s => sem'[r] = sem[r]
    BY <2>2 DEF TellsOp, Sem
  <2> SUFFICES ASSUME NEW r \in BinarySem, NEW o \in Pending(sem'[r]), o.queue # NoQueue
               PROVE  \E x \in IssuedOps' : SemOf(x)' = r /\ IsFor(o, x)'
    BY DEF PendingFor
  <2>9. CASE o \in Pending(sem[r])
    BY <1>4, <2>9
  <2>10. CASE o \notin Pending(sem[r])
    <3>1. r = s /\ o = op
      BY <2>7, <2>8, <2>10
    <3> QED BY <1>2, <2>4, <2>6, <3>1 DEF IssuedStays, IsFor
  <2> QED BY <2>9, <2>10
<1>8. ASSUME NEW h \in Host, NEW s \in BinarySem, NEW f \in Fence, AcquireNextImage(h, s, f) PROVE PendingFor'
  <2>1. sem' = [sem EXCEPT ![s] = SemEnqueueAcquire(sem[s])] /\ sem[s] \in SemRecord
    BY <1>1, <1>8 DEF AcquireNextImage, TypeOK, Sem
  <2>2. PICK v \in Nat : Pending(SemEnqueueAcquire(sem[s])) \subseteq Pending(sem[s]) \cup {NewOp("kBinaryAcquire", NoQueue, 0, v)}
    <3>1. TRUE \in BOOLEAN /\ NoQueue \in Queue \cup {NoQueue} /\ 0 \in Nat
      OBVIOUS
    <3> QED BY <2>1, <3>1, PendingTypes
  <2>3. NewOp("kBinaryAcquire", NoQueue, 0, v).queue = NoQueue
    BY DEF NewOp
  <2>4. sem'[s] = SemEnqueueAcquire(sem[s]) /\ \A r \in BinarySem : r # s => sem'[r] = sem[r]
    BY <1>1, <2>1 DEF TypeOK, Sem
  <2> QED BY <1>5, <2>2, <2>3, <2>4
<1>9. ASSUME NEW q \in Queue, RetireAtOnce(q) PROVE PendingFor'
  <2>1. PICK s, ops : RetiresHead(q, s, ops)
    BY <1>1, <1>9, RetireAtOnceIs
  <2>2. /\ ops \in Seq(SemOp) /\ ops # << >> /\ ops = sem[s].operations /\ sem'[s].operations = Tail(ops)
        /\ \A r \in Sem : r # s => sem'[r] = sem[r]
    BY <2>1 DEF RetiresHead
  <2>3. \A o \in Pending(sem'[s]) : o \in Pending(sem[s])
    <3>1. PICK L \in Nat : L = Len(ops) /\ DOMAIN ops = 1..L /\ L >= 1
      BY <2>2, LenProperties, EmptySeq
    <3>2. DOMAIN Tail(ops) = 1..(L - 1) /\ \A i \in 1..(L - 1) : Tail(ops)[i] = ops[i + 1]
      BY <2>2, <3>1, HeadTailProperties, LenProperties
    <3>3. \A i \in 1..(L - 1) : i + 1 \in 1..L
      BY <3>1
    <3> QED BY <2>2, <3>1, <3>2, <3>3 DEF Pending
  <2> QED BY <1>3, <1>5, <2>2, <2>3
<1> QED BY <1>1, <1>6, <1>7, <1>8, <1>9, NextSems

\* The numbers the layer has given out are those of accepted batches.
LEMMA NumbersIssued ==
    ASSUME IInv, CallsIssued, NEW q \in Queue
    PROVE  /\ seq_[q] <= Len(issued[q])
           /\ \A i \in DOMAIN submissions_[q] : submissions_[q][i].seq \in DOMAIN issued[q]
           /\ InThread(q) => tcur[q].seq \in DOMAIN issued[q]
<1>1. TypeOK /\ Numbering
  BY DEF IInv, Order
<1>2. PICK n \in Nat, N \in Nat : n = seq_[q] /\ N = Len(issued[q]) /\ DOMAIN issued[q] = 1..N
  BY <1>1, QueueLengths, IssuedType
<1>3. N - n \in Nat
  <2>1. CASE \A h \in Host : hpc[h] \in SubmitPc => call[h].queue # q
    BY <1>2, <2>1 DEF CallsIssued, Ahead
  <2>2. ASSUME NEW h \in Host, hpc[h] \in SubmitPc, call[h].queue = q PROVE N - n \in Nat
    <3>1. N - n = Accepted(h)
      BY <1>2, <2>2 DEF CallsIssued, CallIssued, Ahead
    <3>2. CASE hpc[h] = "driver"
      BY <1>1, <3>1, <3>2, CallFields DEF Accepted
    <3>3. CASE hpc[h] # "driver"
      <4>1. PICK L \in Nat : L = Len(call[h].batches) /\ L >= 1
        BY <1>1, <2>2, BatchOne, CallFields, LenProperties
      <4> QED BY <3>1, <3>3, <4>1 DEF Accepted, Skip
    <3> QED BY <3>2, <3>3
  <2> QED BY <2>1, <2>2
<1>4. n <= N
  BY <1>2, <1>3
<1>5. PICK P \in Nat, L \in Nat : P = Popped(q) /\ L = Len(submissions_[q]) /\ DOMAIN submissions_[q] = 1..L
  BY <1>1, LenProperties DEF TypeOK, Popped, CB_SUBMISSION
<1>6. P + L <= n
  <2>1. P + L + (IF Pushing(q) THEN 1 ELSE 0) = n
    BY <1>1, <1>2, <1>5 DEF Numbering
  <2> QED BY <1>2, <1>5, <2>1
<1>7. ASSUME NEW i \in 1..L PROVE submissions_[q][i].seq \in 1..N
  <2>1. submissions_[q][i].seq = P + i
    BY <1>1, <1>5, <1>7 DEF Numbering
  <2> QED BY <1>2, <1>4, <1>5, <1>6, <1>7, <2>1
<1>8. ASSUME InThread(q) PROVE tcur[q].seq \in 1..N
  <2>1. PICK d \in Nat : d = done_[q]
    BY <1>1 DEF TypeOK
  <2>2. tcur[q].seq = d + 1 /\ P = tcur[q].seq
    BY <1>1, <1>5, <1>8, <2>1 DEF Numbering, Popped
  <2> QED BY <1>2, <1>4, <1>5, <1>6, <2>1, <2>2
<1> QED BY <1>2, <1>4, <1>5, <1>7, <1>8

\* The deques and the threads keep their submissions.
ThreadsKeep == submissions_' = submissions_ /\ tcur' = tcur /\ \A q \in Queue : InThread(q)' => InThread(q)

LEMMA NextThreads ==
    ASSUME TypeOK, TypeOK', [Next]_vars
    PROVE  ThreadsKeep \/ (\E h \in Host : SubmitPush(h)) \/ (\E q \in Queue : ThreadPop(q))
<1>1. ASSUME ThreadsStay PROVE ThreadsKeep
  BY <1>1, OutIs DEF ThreadsStay, ThreadsKeep, InThread, OutPc
<1>2. ASSUME NEW h \in Host, OtherStep(h) \/ OtherCall(h) \/ SubmitStep(h) \/ SemaphoreStep(h) \/ DriverAccept(h) \/ SubmitFence(h)
      PROVE  ThreadsKeep
  BY <1>1, <1>2, OtherStepStays, OtherCallStays, SubmitStays
<1>3. ASSUME NEW h \in Host, NEW f \in Fence, WaitForFence(h, f) \/ FenceCall(h, f) PROVE ThreadsKeep
  BY <1>1, <1>3, FenceCallStays
<1>4. ASSUME NEW a \in Actor, Retire(a) PROVE ThreadsKeep
  BY <1>1, <1>4, RetireStays
<1>5. ASSUME NEW q \in Queue, ThreadSleep(q) \/ ThreadExit(q) \/ ThreadRetireSemaphore(q) \/ DeviceExecute(q) PROVE ThreadsKeep
  BY <1>1, <1>5, ThreadStays
<1>6. ASSUME NEW q \in Queue, ThreadEndUse(q) \/ ThreadLoopDone(q) \/ ThreadRetireCbs(q) \/ ThreadRetireFence(q) \/ ThreadComplete(q)
      PROVE  ThreadsKeep
  <2>1. submissions_' = submissions_ /\ tcur' = tcur
    BY <1>6 DEF ThreadEndUse, ThreadLoopDone, ThreadRetireCbs, ThreadRetireFence, ThreadComplete, queueVars
  <2>2. InThread(q)
    BY <1>6 DEF ThreadEndUse, ThreadLoopDone, ThreadRetireCbs, ThreadRetireFence, ThreadComplete, InThread
  <2>3. \A p \in Queue : p # q => tpc'[p] = tpc[p]
    BY <1>6 DEF ThreadEndUse, ThreadLoopDone, ThreadRetireCbs, ThreadRetireFence, ThreadComplete, TypeOK
  <2> QED BY <2>1, <2>2, <2>3 DEF ThreadsKeep, InThread
<1>7. CASE UNCHANGED vars
  BY <1>7 DEF vars, queueVars, threadVars, ThreadsKeep, InThread
<1>8. CASE Next
  <2>1. CASE \E h \in Host : OtherStep(h) \/ OtherCall(h) \/ SubmitStep(h) \/ SemaphoreStep(h)
    BY <1>2, <2>1
  <2>2. CASE \E h \in Host : DriverAccept(h) \/ SubmitFence(h) \/ SubmitPush(h)
    BY <1>2, <2>2
  <2>3. CASE \E h \in Host, f \in Fence : WaitForFence(h, f) \/ FenceCall(h, f)
    BY <1>3, <2>3
  <2>4. CASE \E a \in Actor : Retire(a)
    BY <1>4, <2>4
  <2>5. CASE \E q \in Queue : ThreadStep(q) \/ ThreadRetireFence(q) \/ DeviceExecute(q)
    BY <1>5, <1>6, <2>5 DEF ThreadStep
  <2> QED BY <1>8, <2>1, <2>2, <2>3, <2>4, <2>5, NextCases
<1> QED BY <1>7, <1>8

LEMMA NextThreadFor ==
    ASSUME IInv, IInv', HostFrames, TimelineSem = {}, NoSharing, CallInv, DequeFor, ThreadFor, [Next]_vars
    PROVE  DequeFor' /\ ThreadFor'
<1>1. TypeOK /\ TypeOK' /\ CallsIssued /\ SubIssued
  BY DEF IInv, CallInv
<1>2. IssuedStays
  BY NextIssued
<1>3. /\ \A q \in Queue : \A i \in DOMAIN submissions_[q] :
            SameSems(submissions_[q][i], issued'[q][submissions_[q][i].seq])
      /\ \A q \in Queue : InThread(q) => SameSems(tcur[q], issued'[q][tcur[q].seq])
  BY <1>1, <1>2, NumbersIssued DEF DequeFor, ThreadFor, IssuedStays
<1>4. CASE ThreadsKeep
  BY <1>3, <1>4 DEF ThreadsKeep, DequeFor, ThreadFor
<1>5. ASSUME NEW h \in Host, SubmitPush(h) PROVE DequeFor' /\ ThreadFor'
  <2>1. PICK q, b : q \in Queue /\ q = call[h].queue /\ b = call[h].sub /\ seq_[q] = b.seq
    BY <1>1, <1>5, PositiveSeq DEF SubmitPush, PushPc
  <2>2. SameSems(b, issued[q][b.seq])
    BY <1>1, <1>5, <2>1 DEF SubmitPush, SubIssued, SubIs
  <2>3. issued' = issued /\ submissions_' = [submissions_ EXCEPT ![q] = Append(@, b)] /\ tcur' = tcur
    BY <1>5, <2>1 DEF SubmitPush, deviceVars
  <2>4. \A p \in Queue : InThread(p)' => InThread(p)
    BY <1>1, <1>5 DEF SubmitPush, InThread, TypeOK
  <2>5. ASSUME NEW i \in DOMAIN submissions_'[q] PROVE SameSems(submissions_'[q][i], issued[q][submissions_'[q][i].seq])
    <3>1. submissions_[q] \in Seq(CB_SUBMISSION) /\ b \in CB_SUBMISSION /\ submissions_'[q] = Append(submissions_[q], b)
      BY <1>1, <2>1, <2>3, CallFields DEF TypeOK
    <3>2. PICK L \in Nat : L = Len(submissions_[q]) /\ DOMAIN submissions_[q] = 1..L
      BY <3>1, LenProperties
    <3>3. /\ DOMAIN submissions_'[q] = 1..(L + 1) /\ submissions_'[q][L + 1] = b
          /\ \A j \in 1..L : submissions_'[q][j] = submissions_[q][j]
      BY <3>1, <3>2, AppendProperties, LenProperties
    <3>4. i \in 1..L \/ i = L + 1
      BY <2>5, <3>2, <3>3
    <3>5. CASE i \in 1..L
      <4>1. i \in DOMAIN submissions_[q] /\ submissions_'[q][i] = submissions_[q][i]
        BY <3>2, <3>3, <3>5
      <4> QED BY <2>1, <4>1 DEF DequeFor
    <3>6. CASE i = L + 1
      <4>1. submissions_'[q][i] = b
        BY <3>3, <3>6
      <4> QED BY <2>2, <4>1
    <3> QED BY <3>4, <3>5, <3>6
  <2>6. \A p \in Queue : p # q => submissions_'[p] = submissions_[p]
    BY <1>1, <2>3 DEF TypeOK
  <2>7. DequeFor'
    BY <2>3, <2>5, <2>6 DEF DequeFor
  <2>8. ThreadFor'
    BY <2>3, <2>4 DEF ThreadFor
  <2> QED BY <2>7, <2>8
<1>6. ASSUME NEW q \in Queue, ThreadPop(q) PROVE DequeFor' /\ ThreadFor'
  <2>1. PICK s : s = submissions_[q] /\ s \in Seq(CB_SUBMISSION) /\ s # << >>
    BY <1>1, <1>6 DEF TypeOK, ThreadPop, NothingToRetire
  <2>2. /\ issued' = issued /\ tcur'[q] = Head(s) /\ submissions_'[q] = Tail(s)
        /\ \A p \in Queue : p # q => submissions_'[p] = submissions_[p] /\ tcur'[p] = tcur[p] /\ tpc'[p] = tpc[p]
    BY <1>1, <1>6, <2>1 DEF ThreadPop, TypeOK, deviceVars
  <2>3. PICK L \in Nat : /\ DOMAIN s = 1..L /\ L >= 1 /\ Head(s) = s[1] /\ DOMAIN Tail(s) = 1..(L - 1)
                         /\ \A i \in 1..(L - 1) : Tail(s)[i] = s[i + 1]
    BY <2>1, HeadTailProperties, EmptySeq, LenProperties
  <2>4. \A i \in 1..L : SameSems(s[i], issued[q][s[i].seq])
    BY <2>1, <2>3 DEF DequeFor
  <2>5. 1 \in 1..L /\ \A i \in 1..(L - 1) : i + 1 \in 1..L
    BY <2>3
  <2>6. DequeFor'
    BY <2>2, <2>3, <2>4, <2>5 DEF DequeFor
  <2>7. \A p \in Queue : InThread(p)' => p = q \/ InThread(p)
    BY <2>2 DEF InThread
  <2>8. ThreadFor'
    BY <2>2, <2>3, <2>4, <2>5, <2>7 DEF ThreadFor
  <2> QED BY <2>6, <2>8
<1> QED BY <1>1, <1>4, <1>5, <1>6, NextThreads

\* A fence in flight for a queue is told by SubmitFence() only.
LEMMA NextFenceFor ==
    ASSUME IInv, FenceTruth, HostFrames, TimelineSem = {}, NoSharing, CallInv, FenceFor, [Next]_vars
    PROVE  FenceFor'
<1>1. TypeOK /\ SubIssued /\ CallsIssued
  BY DEF IInv, CallInv
<1>2. IssuedStays
  BY NextIssued
<1>3. ASSUME \A f \in Fence : fence'[f].state = "FENCE_INFLIGHT" /\ fence'[f].queue # NoQueue => fence'[f] = fence[f]
      PROVE  FenceFor'
  <2> SUFFICES ASSUME NEW f \in Fence, fence'[f].state = "FENCE_INFLIGHT", fence'[f].queue # NoQueue
               PROVE  /\ fence'[f].seq \in DOMAIN issued'[fence'[f].queue]
                      /\ issued'[fence'[f].queue][fence'[f].seq].fence = f
    BY DEF FenceFor
  <2>1. fence'[f] = fence[f]
    BY <1>3
  <2>2. fence[f].queue \in Queue
    BY <1>1, <2>1 DEF TypeOK, FenceRecord
  <2> QED BY <1>2, <2>1, <2>2 DEF FenceFor, IssuedStays
<1>4. ASSUME Silent PROVE FenceFor'
  BY <1>3, <1>4 DEF Silent
<1>5. \A f \in Fence : fence[f] \in FenceRecord
  BY <1>1 DEF TypeOK
<1>6. \A r \in FenceRecord : FenceRetire(r).state = "FENCE_INFLIGHT" => FenceRetire(r) = r
  BY DEF FenceRetire, FenceRecord
<1>7. ASSUME NEW h \in Host, OtherStep(h) \/ OtherCall(h) \/ SubmitStep(h) \/ SemaphoreStep(h) PROVE FenceFor'
  <2>1. IInv'
    BY NextKeeps
  <2> QED BY <1>1, <1>4, <1>7, <2>1, OtherStepElsewhere, OtherCallElsewhere, SubmitStepSilent, StillSteps DEF Still
<1>8. ASSUME NEW h \in Host, DriverAccept(h) \/ SubmitPush(h) PROVE FenceFor'
  BY <1>3, <1>8 DEF DriverAccept, SubmitPush
<1>9. ASSUME NEW h \in Host, SubmitFence(h) PROVE FenceFor'
  <2>1. hpc[h] \in PushPc /\ hpc[h] = "enqueue" /\ issued' = issued
    BY <1>9, SubmitFenceCall DEF PushPc, SubmitFence, deviceVars
  <2>2. PICK q, b : q \in Queue /\ q = call[h].queue /\ b = call[h].sub /\ seq_[q] = b.seq /\ seq_[q] >= 1
    BY <1>1, <2>1, PositiveSeq
  <2>3. b.seq \in DOMAIN issued[q] /\ issued[q][b.seq].fence = b.fence
    <3>1. PICK n \in Nat, N \in Nat : n = seq_[q] /\ N = Len(issued[q]) /\ DOMAIN issued[q] = 1..N
      BY <1>1, <2>2, QueueLengths, IssuedType
    <3>2. n <= N
      BY <1>1, <2>2, <3>1, NumbersIssued
    <3> QED BY <1>1, <2>1, <2>2, <3>1, <3>2 DEF SubIssued, SubIs, SameBatch
  <2> SUFFICES ASSUME NEW f \in Fence, fence'[f].state = "FENCE_INFLIGHT", fence'[f].queue # NoQueue
               PROVE  /\ fence'[f].seq \in DOMAIN issued[fence'[f].queue]
                      /\ issued[fence'[f].queue][fence'[f].seq].fence = f
    BY <2>1 DEF FenceFor
  <2>4. CASE fence'[f] = fence[f]
    BY <2>4 DEF FenceFor
  <2>5. CASE fence'[f] # fence[f]
    <3>1. f = b.fence /\ fence'[f] = FenceEnqueueSignal(fence[f], q, b.seq)
      BY <1>1, <1>9, <2>2, <2>5, SubmitFenceIs
    <3>2. fence'[f].queue = q /\ fence'[f].seq = b.seq
      BY <1>5, <2>5, <3>1 DEF FenceEnqueueSignal, FenceRecord
    <3> QED BY <2>3, <3>1, <3>2
  <2> QED BY <2>4, <2>5
<1>10. ASSUME NEW h \in Host, NEW f \in Fence, WaitForFence(h, f) PROVE FenceFor'
  <2>1. \A e \in Fence : e # f => fence'[e] = fence[e]
    BY <1>1, <1>10, WaitForFenceIs
  <2>2. fence'[f] = FenceNotify(fence[f])
    BY <1>1, <1>10, WaitForFenceIs
  <2>3. fence'[f].state = "FENCE_INFLIGHT" => fence'[f] = fence[f]
    BY <1>5, <1>6, <2>2 DEF FenceNotify
  <2> QED BY <1>3, <2>1, <2>3
<1>11. ASSUME NEW h \in Host, NEW f \in Fence, FenceCall(h, f) PROVE FenceFor'
  <2>1. \A e \in Fence : e # f => fence'[e] = fence[e]
    BY <1>1, <1>11, FenceCallIs
  <2>2. CASE ResetFence(h, f)
    <3>1. fence'[f] = FenceReset(fence[f])
      BY <1>1, <2>2 DEF ResetFence, TypeOK
    <3>2. fence'[f].queue = NoQueue
      BY <3>1 DEF FenceReset
    <3> QED BY <1>3, <2>1, <3>2
  <2>3. ASSUME NEW s \in BinarySem, AcquireNextImage(h, s, f) PROVE FenceFor'
    <3>1. fence'[f] = FenceEnqueueSignal(fence[f], NoQueue, 0)
      BY <1>1, <2>3 DEF AcquireNextImage, TypeOK
    <3>2. fence'[f] = fence[f] \/ fence'[f].queue = NoQueue
      BY <1>5, <3>1 DEF FenceEnqueueSignal, FenceRecord
    <3> QED BY <1>3, <2>1, <3>2
  <2> QED BY <1>11, <2>2, <2>3 DEF FenceCall, NoSharing
<1>12. ASSUME NEW a \in Actor, Retire(a) PROVE FenceFor'
  BY <1>4, <1>12, RetireElsewhere
<1>13. ASSUME NEW q \in Queue, ThreadStep(q) \/ DeviceExecute(q) PROVE FenceFor'
  <2>1. CASE DeviceExecute(q)
    BY <1>3, <2>1 DEF DeviceExecute
  <2>2. CASE ThreadStep(q)
    BY <1>4, <2>2, StillSteps DEF Still
  <2> QED BY <1>13, <2>1, <2>2
<1>14. ASSUME NEW q \in Queue, ThreadRetireFence(q) PROVE FenceFor'
  <2>1. \A f \in Fence : f # tcur[q].fence => fence'[f] = fence[f]
    BY <1>1, <1>5, <1>14, ThreadRetireFenceIs
  <2>2. tcur[q].fence \in Fence => fence'[tcur[q].fence] = FenceRetire(fence[tcur[q].fence])
    BY <1>1, <1>14, ThreadRetireFenceIs
  <2>3. \A f \in Fence : fence'[f].state = "FENCE_INFLIGHT" => fence'[f] = fence[f]
    BY <1>5, <1>6, <2>1, <2>2
  <2> QED BY <1>3, <2>3
<1>15. CASE UNCHANGED vars
  BY <1>4, <1>15 DEF vars, deviceVars, Silent
<1>16. CASE Next
  <2>1. CASE \E h \in Host : OtherStep(h) \/ OtherCall(h) \/ SubmitStep(h) \/ SemaphoreStep(h)
    BY <1>7, <2>1
  <2>2. CASE \E h \in Host : DriverAccept(h) \/ SubmitFence(h) \/ SubmitPush(h)
    BY <1>8, <1>9, <2>2
  <2>3. CASE \E h \in Host, f \in Fence : WaitForFence(h, f) \/ FenceCall(h, f)
    BY <1>10, <1>11, <2>3
  <2>4. CASE \E a \in Actor : Retire(a)
    BY <1>12, <2>4
  <2>5. CASE \E q \in Queue : ThreadStep(q) \/ ThreadRetireFence(q) \/ DeviceExecute(q)
    BY <1>13, <1>14, <2>5
  <2> QED BY <1>16, <2>1, <2>2, <2>3, <2>4, <2>5, NextCases
<1> QED BY <1>15, <1>16

-----------------------------------------------------------------------------
(* What is asked for *)

\* No thread comes to wait for a queue to be idle.
IdleKept ==
    /\ issued' = issued /\ executed' = executed
    /\ \A h \in Host : hpc'[h] \in IdlePc => hpc[h] \in IdlePc /\ \A q : Claims(call'[h], q) => Claims(call[h], q)

LEMMA KeepIdleFor == ASSUME IdleFor, IdleKept PROVE IdleFor'
BY DEF IdleFor, IdleKept, DeviceIdle

LEMMA HostIdle ==
    ASSUME NEW h \in Host, OnlyHost(h), hpc'[h] \notin IdlePc, issued' = issued, executed' = executed
    PROVE  IdleKept
BY DEF OnlyHost, IdleKept

LEMMA HostsIdle ==
    ASSUME hostVars' = hostVars, issued' = issued, executed' = executed
    PROVE  IdleKept
BY DEF hostVars, IdleKept

LEMMA WaitDoneIdle ==
    ASSUME TypeOK, NEW h \in Host, hpc[h] \in IdlePc, QueueWaitDone(h), issued' = issued, executed' = executed
    PROVE  IdleKept
<1>1. CASE call[h].todo = {}
  BY <1>1, HostIdle DEF QueueWaitDone, Return, OnlyHost, TypeOK, IdlePc
<1>2. CASE call[h].todo # {}
  <2>1. PICK q \in call[h].todo :
           /\ hpc' = [hpc EXCEPT ![h] = "qnotify"]
           /\ call' = [call EXCEPT ![h] = [NoCall EXCEPT !.queue = q, !.todo = call[h].todo \ {q}, !.until = AllSeq]]
    BY <1>2 DEF QueueWaitDone
  <2>2. call'[h].queue = q /\ call'[h].todo = call[h].todo \ {q}
    BY <2>1 DEF TypeOK, NoCall
  <2>3. OnlyHost(h)
    BY <2>1 DEF TypeOK, OnlyHost
  <2> QED BY <2>2, <2>3 DEF IdleKept, OnlyHost, Claims
<1> QED BY <1>1, <1>2

LEMMA OtherStepIdle ==
    ASSUME IInv, HostFrames, TimelineSem = {}, NEW h \in Host, OtherStep(h)
    PROVE  IdleKept
<1>1. TypeOK
  BY DEF IInv
<1>2. ~SemaphoreWait(h) /\ ~SemaphorePoke(h) /\ ~SemaphoreReady(h) /\ ~RetireTimelineEnqueue(h)
  BY NoSemaphoreCall DEF SemaphoreWait, SemaphorePoke, SemaphoreReady, RetireTimelineEnqueue, SemaphorePc
<1>3. issued' = issued /\ executed' = executed
  BY <1>2 DEF OtherStep, QueueNotify, QueueWait, QueueWaitReady, FenceWaitReady, DestroyNotify, DestroyJoin, deviceVars
<1>4. CASE QueueNotify(h)
  <2>1. hpc[h] \in IdlePc /\ OnlyHost(h)
    BY <1>1, <1>4 DEF QueueNotify, IdlePc, OnlyHost, TypeOK
  <2>2. call'[h].queue = call[h].queue /\ call'[h].todo = call[h].todo
    BY <1>1, <1>4 DEF QueueNotify, TypeOK, Call
  <2> QED BY <1>3, <2>1, <2>2 DEF IdleKept, OnlyHost, Claims
<1>5. CASE QueueWait(h)
  <2>1. hpc[h] \in IdlePc
    BY <1>5 DEF QueueWait, IdlePc
  <2>2. CASE QueueWaitDone(h)
    BY <1>1, <1>3, <2>1, <2>2, WaitDoneIdle
  <2>3. CASE hpc' = [hpc EXCEPT ![h] = "qblock"] /\ call' = call
    BY <1>1, <1>3, <2>1, <2>3 DEF IdleKept, TypeOK
  <2> QED BY <1>5, <2>2, <2>3 DEF QueueWait
<1>6. CASE QueueWaitReady(h)
  BY <1>1, <1>3, <1>6, WaitDoneIdle DEF QueueWaitReady, IdlePc
<1>7. CASE FenceWaitReady(h) \/ DestroyNotify(h) \/ DestroyJoin(h)
  <2>1. OnlyHost(h) /\ hpc'[h] \in {"idle", "qjoin", "qexit"}
    BY <1>1, <1>7 DEF FenceWaitReady, DestroyNotify, DestroyJoin, Return, OnlyHost, TypeOK
  <2> QED BY <1>3, <2>1, HostIdle DEF IdlePc
<1> QED BY <1>2, <1>4, <1>5, <1>6, <1>7 DEF OtherStep

LEMMA SubmitIdle ==
    ASSUME IInv, IInv', NEW h \in Host, SubmitStep(h) \/ DriverAccept(h) \/ SubmitFence(h)
    PROVE  OnlyHost(h) /\ hpc'[h] \notin IdlePc
<1>1. TypeOK /\ TypeOK'
  BY DEF IInv
<1>2. CASE SubmitStep(h) /\ ~SubmitWait(h) /\ ~SubmitSignal(h)
  <2>1. ASSUME NEW q, NEW bs, QueueSubmit(h, q, bs) PROVE OnlyHost(h) /\ hpc'[h] = "driver"
    BY <1>1, <2>1 DEF QueueSubmit, OnlyHost, TypeOK
  <2>2. CASE SubmitCbs(h)
    BY <1>1, <2>2, SubmitCbsCall DEF IdlePc
  <2>3. CASE SubmitSeq(h)
    <3>1. hpc' = [hpc EXCEPT ![h] = "enqueue"]
      BY <2>3 DEF SubmitSeq
    <3> QED BY <1>1, <2>3, <3>1, SubmitSeqCall DEF IdlePc, TypeOK
  <2> QED BY <1>2, <2>1, <2>2, <2>3 DEF SubmitStep, IdlePc
<1>3. CASE SubmitWait(h) \/ SubmitSignal(h)
  BY <1>1, <1>3, SubmitWaitCall, SubmitSignalCall DEF IdlePc, OnlyHost
<1>4. CASE DriverAccept(h)
  BY <1>1, <1>4, DriverAcceptCall DEF DriverAccept, IdlePc, TypeOK
<1>5. CASE SubmitFence(h)
  BY <1>1, <1>5, SubmitFenceCall DEF IdlePc
<1> QED BY <1>2, <1>3, <1>4, <1>5

LEMMA NextIdleFor ==
    ASSUME IInv, IInv', HostFrames, TimelineSem = {}, NoSharing, CallsIssued, IdleFor, [Next]_vars
    PROVE  IdleFor'
<1>1. TypeOK /\ TypeOK'
  BY DEF IInv
<1>2. ASSUME NEW h \in Host, OtherStep(h) PROVE IdleFor'
  BY <1>2, OtherStepIdle, KeepIdleFor
<1>3. ASSUME NEW h \in Host, OtherCall(h) PROVE IdleFor'
  <2>1. PICK q \in Queue : QueueWaitIdle(h, q) \/ DeviceWaitIdle(h, q) \/ DestroyDevice(h, q)
    BY <1>3 DEF OtherCall
  <2>2. issued' = issued /\ executed' = executed /\ OnlyHost(h)
    BY <1>1, <2>1 DEF QueueWaitIdle, DeviceWaitIdle, DestroyDevice, deviceVars, OnlyHost, TypeOK
  <2>3. CASE DestroyDevice(h, q)
    BY <1>1, <2>2, <2>3, HostIdle, KeepIdleFor DEF DestroyDevice, TypeOK, IdlePc
  <2>4. CASE QueueWaitIdle(h, q)
    <3>1. call'[h].queue = q /\ call'[h].todo = {} /\ DeviceIdle(q)
      BY <1>1, <2>4 DEF QueueWaitIdle, TypeOK, NoCall
    <3> QED BY <2>2, <3>1 DEF IdleFor, OnlyHost, Claims, DeviceIdle
  <2>5. CASE DeviceWaitIdle(h, q)
    <3>1. \A p \in Queue : DeviceIdle(p)
      BY <2>5 DEF DeviceWaitIdle
    <3> QED BY <2>2, <3>1 DEF IdleFor, DeviceIdle
  <2> QED BY <2>1, <2>3, <2>4, <2>5
<1>4. ASSUME NEW h \in Host, SubmitStep(h) \/ SubmitFence(h) PROVE IdleFor'
  <2>1. issued' = issued /\ executed' = executed
    BY <1>4, SubmitDevice DEF DeviceStill
  <2> QED BY <1>4, <2>1, SubmitIdle, HostIdle, KeepIdleFor
<1>5. ASSUME NEW h \in Host, DriverAccept(h) PROVE IdleFor'
  <2>1. executed' = executed /\ hpc[h] \in QueuePc /\ OnlyHost(h) /\ hpc'[h] \notin IdlePc
    BY <1>5, SubmitIdle DEF DriverAccept, QueuePc, SubmitPc
  <2>2. PICK q : q = call[h].queue
    OBVIOUS
  <2>3. \A p \in Queue : p # q => issued'[p] = issued[p]
    BY <1>1, <1>5, <2>2 DEF DriverAccept, TypeOK
  <2>4. \A g \in Host : g # h => ~Claims(call[g], q)
    BY <2>1, <2>2, OneHost
  <2> QED BY <2>1, <2>3, <2>4 DEF IdleFor, OnlyHost, DeviceIdle
<1>6. ASSUME NEW h \in Host, SubmitPush(h) PROVE IdleFor'
  <2>1. call[h].early = 0 /\ issued' = issued /\ executed' = executed
    BY <1>6 DEF SubmitPush, CallsIssued, CallIssued, SubmitPc, deviceVars
  <2>2. OnlyHost(h) /\ hpc'[h] \in {"cbs", "idle"}
    BY <1>1, <1>6, <2>1 DEF SubmitPush, Return, OnlyHost, TypeOK
  <2> QED BY <2>1, <2>2, HostIdle, KeepIdleFor DEF IdlePc
<1>7. ASSUME NEW h \in Host, NEW f \in Fence, WaitForFence(h, f) PROVE IdleFor'
  <2>1. issued' = issued /\ executed' = executed
    BY <1>7 DEF WaitForFence
  <2>2. hostVars' = hostVars \/ (OnlyHost(h) /\ hpc'[h] = "fblock")
    BY <1>1, <1>7 DEF WaitForFence, OnlyHost, TypeOK, hostVars
  <2> QED BY <2>1, <2>2, HostIdle, HostsIdle, KeepIdleFor DEF IdlePc
<1>8. ASSUME hostVars' = hostVars, issued' = issued, executed' = executed PROVE IdleFor'
  BY <1>8, HostsIdle, KeepIdleFor
<1>9. ASSUME NEW h \in Host, SemaphoreStep(h) PROVE IdleFor'
  <2>1. hostVars' = hostVars /\ issued' = issued /\ executed' = executed
    BY <1>9 DEF SemaphoreStep, RetireTimelineBegin, ImportSemaphore, ExportSemaphore, deviceVars
  <2> QED BY <1>8, <2>1
<1>10. ASSUME NEW h \in Host, NEW f \in Fence, FenceCall(h, f) PROVE IdleFor'
  <2>1. hostVars' = hostVars /\ issued' = issued /\ executed' = executed
    BY <1>10 DEF FenceCall, ResetFence, ImportFence, ExportFence, AcquireNextImage
  <2> QED BY <1>8, <2>1
<1>11. ASSUME NEW a \in Actor, Retire(a) PROVE IdleFor'
  <2>1. a \in Queue
    BY <1>11, NoSemaphoreCall
  <2>2. hostVars' = hostVars /\ issued' = issued /\ executed' = executed
    BY <1>11, <2>1 DEF Retire, RetireAtOnce, RetireWaitOther, RetireResume, RetireEnd, deviceVars
  <2> QED BY <1>8, <2>2
<1>12. ASSUME NEW q \in Queue, ThreadStep(q) \/ ThreadRetireFence(q) PROVE IdleFor'
  <2>1. hostVars' = hostVars /\ issued' = issued /\ executed' = executed
    BY <1>12 DEF ThreadStep, ThreadSleep, ThreadPop, ThreadExit, ThreadEndUse, ThreadRetireSemaphore, ThreadLoopDone,
                 ThreadRetireCbs, ThreadComplete, ThreadRetireFence, deviceVars
  <2> QED BY <1>8, <2>1
<1>13. ASSUME NEW q \in Queue, DeviceExecute(q) PROVE IdleFor'
  <2>1. hpc' = hpc /\ call' = call /\ issued' = issued
    BY <1>13 DEF DeviceExecute, hostVars
  <2>2. ~DeviceIdle(q)
    <3>1. Len(issued[q]) \in Nat /\ executed[q] \in Nat
      BY <1>1, QueueLengths
    <3> QED BY <1>13, <3>1 DEF DeviceExecute, DeviceIdle
  <2>3. \A p \in Queue : p # q => executed'[p] = executed[p]
    BY <1>1, <1>13 DEF DeviceExecute, TypeOK
  <2> QED BY <2>1, <2>2, <2>3 DEF IdleFor, DeviceIdle
<1>14. CASE UNCHANGED vars
  BY <1>8, <1>14 DEF vars, deviceVars
<1>15. CASE Next
  <2>1. CASE \E h \in Host : OtherStep(h) \/ OtherCall(h) \/ SubmitStep(h) \/ SemaphoreStep(h)
    BY <1>2, <1>3, <1>4, <1>9, <2>1
  <2>2. CASE \E h \in Host : DriverAccept(h) \/ SubmitFence(h) \/ SubmitPush(h)
    BY <1>4, <1>5, <1>6, <2>2
  <2>3. CASE \E h \in Host, f \in Fence : WaitForFence(h, f) \/ FenceCall(h, f)
    BY <1>7, <1>10, <2>3
  <2>4. CASE \E a \in Actor : Retire(a)
    BY <1>11, <2>4
  <2>5. CASE \E q \in Queue : ThreadStep(q) \/ ThreadRetireFence(q) \/ DeviceExecute(q)
    BY <1>12, <1>13, <2>5
  <2> QED BY <1>15, <2>1, <2>2, <2>3, <2>4, <2>5, NextCases
<1> QED BY <1>14, <1>15

\* A queue in the middle of a Retire() stays there, with the same semaphore.
RetireKept(q) ==
    rpc'[q] # "idle" =>
        /\ rpc[q] # "idle" /\ tpc'[q] = tpc[q] /\ tcur'[q] = tcur[q] /\ tidx'[q] = tidx[q]
        /\ frame'[q].semaphore = frame[q].semaphore /\ frame'[q].payload = frame[q].payload

LEMMA KeepRetiring ==
    ASSUME Retiring, \A q \in Queue : RetireKept(q)
    PROVE  Retiring'
BY DEF Retiring, RetireKept, LoopSemaphores

\* The thread's own state is not touched.
LEMMA StayRetireKept ==
    ASSUME Retiring, ThreadsStay, tidx' = tidx, rpc' = rpc, frame' = frame
    PROVE  \A q \in Queue : RetireKept(q)
BY DEF Retiring, ThreadsStay, RetireKept, OutPc

LEMMA OtherRetireKept ==
    ASSUME IInv, HostFrames, TimelineSem = {}, NEW h \in Host,
           OtherStep(h) \/ OtherCall(h) \/ SubmitStep(h) \/ SemaphoreStep(h) \/ DriverAccept(h) \/ SubmitFence(h)
    PROVE  ThreadsStay /\ tidx' = tidx /\ rpc' = rpc /\ frame' = frame
<1>1. TypeOK
  BY DEF IInv
<1>2. ~SemaphoreWait(h) /\ ~SemaphorePoke(h) /\ ~SemaphoreReady(h) /\ ~RetireTimelineEnqueue(h) /\ ~RetireTimelineBegin(h)
  BY NoSemaphoreCall DEF SemaphoreWait, SemaphorePoke, SemaphoreReady, RetireTimelineEnqueue, RetireTimelineBegin, SemaphorePc
<1>3. ThreadsStay
  BY <1>1, OtherStepStays, OtherCallStays, SubmitStays
<1>4. CASE OtherStep(h)
  BY <1>2, <1>3, <1>4 DEF OtherStep, QueueNotify, QueueWait, QueueWaitReady, FenceWaitReady, DestroyNotify, DestroyJoin,
                      retireVars, threadVars
<1>5. CASE OtherCall(h)
  BY <1>3, <1>5 DEF OtherCall, QueueWaitIdle, DeviceWaitIdle, DestroyDevice, retireVars, threadVars
<1>6. ASSUME NEW q, NEW bs, QueueSubmit(h, q, bs) PROVE tidx' = tidx /\ rpc' = rpc /\ frame' = frame
  BY <1>6 DEF QueueSubmit, retireVars, threadVars
<1>7. CASE SubmitCbs(h) \/ SubmitSeq(h)
  BY <1>3, <1>7 DEF SubmitCbs, SubmitSeq, retireVars, threadVars
<1>8. CASE SubmitWait(h)
  BY <1>3, <1>8, Zenon DEF SubmitWait, retireVars, threadVars
<1>9. CASE SubmitSignal(h)
  BY <1>3, <1>9, Zenon DEF SubmitSignal, retireVars, threadVars
<1>10. CASE SemaphoreStep(h)
  BY <1>2, <1>3, <1>10 DEF SemaphoreStep, ImportSemaphore, ExportSemaphore, retireVars, threadVars
<1>11. CASE DriverAccept(h)
  BY <1>3, <1>11, Zenon DEF DriverAccept, retireVars, threadVars
<1>12. CASE SubmitFence(h)
  BY <1>3, <1>12 DEF SubmitFence, retireVars, threadVars
<1> QED BY <1>3, <1>4, <1>5, <1>6, <1>7, <1>8, <1>9, <1>10, <1>11, <1>12 DEF SubmitStep

LEMMA FenceRetireKept ==
    ASSUME TypeOK, NEW h \in Host, NEW f \in Fence, WaitForFence(h, f) \/ FenceCall(h, f)
    PROVE  ThreadsStay /\ tidx' = tidx /\ rpc' = rpc /\ frame' = frame
<1>1. CASE WaitForFence(h, f)
  BY <1>1, FenceCallStays DEF WaitForFence, retireVars
<1>2. CASE FenceCall(h, f)
  BY <1>2, FenceCallStays DEF FenceCall, ResetFence, ImportFence, ExportFence, AcquireNextImage, retireVars, threadVars
<1> QED BY <1>1, <1>2

\* A step of one thread that is not in the middle of a Retire(), before or after.
LEMMA ThreadRetireKept ==
    ASSUME NEW q \in Queue, rpc'[q] = "idle",
           \A p \in Queue : p # q => /\ tpc'[p] = tpc[p] /\ tcur'[p] = tcur[p] /\ tidx'[p] = tidx[p] /\ rpc'[p] = rpc[p]
                                     /\ frame'[p] = frame[p]
    PROVE  \A p \in Queue : RetireKept(p)
BY DEF RetireKept

LEMMA NextRetiring ==
    ASSUME IInv, IInv', HostFrames, TimelineSem = {}, Retiring, [Next]_vars
    PROVE  Retiring'
<1>1. TypeOK /\ TypeOK' /\ \A q \in Queue : q \in Actor
  BY DEF IInv, Actor
<1>2. ASSUME ThreadsStay, tidx' = tidx, rpc' = rpc, frame' = frame PROVE Retiring'
  BY <1>2, StayRetireKept, KeepRetiring
<1>3. ASSUME NEW h \in Host, OtherStep(h) \/ OtherCall(h) \/ SubmitStep(h) \/ SemaphoreStep(h) \/ DriverAccept(h) \/ SubmitFence(h)
      PROVE  Retiring'
  BY <1>2, <1>3, OtherRetireKept
<1>4. ASSUME NEW h \in Host, NEW f \in Fence, WaitForFence(h, f) \/ FenceCall(h, f) PROVE Retiring'
  BY <1>1, <1>2, <1>4, FenceRetireKept
<1>5. ASSUME NEW h \in Host, SubmitPush(h) PROVE Retiring'
  <2>1. tcur' = tcur /\ tidx' = tidx /\ rpc' = rpc /\ frame' = frame
    BY <1>5 DEF SubmitPush, retireVars
  <2>2. \A q \in Queue : tpc[q] # "none" => tpc'[q] = tpc[q]
    BY <1>1, <1>5 DEF SubmitPush, TypeOK
  <2> QED BY <2>1, <2>2 DEF Retiring, LoopSemaphores
<1>6. ASSUME NEW a \in Actor, Retire(a) PROVE Retiring'
  <2>1. a \in Queue /\ rpc[a] # "idle"
    BY <1>6, NoSemaphoreCall DEF Retire, RetireAtOnce, RetireWaitOther, RetireResume, RetireEnd
  <2>2. ThreadsStay /\ tcur' = tcur
    BY <1>1, <1>6, RetireStays DEF ThreadsStay
  <2>3. CASE RetireEnd(a)
    <3>1. tpc' = tpc /\ tcur' = tcur /\ frame' = frame /\ tidx' = [tidx EXCEPT ![a] = @ + 1] /\ rpc' = [rpc EXCEPT ![a] = "idle"]
      BY <2>1, <2>3 DEF RetireEnd
    <3>2. rpc'[a] = "idle" /\ \A q \in Queue : q # a => rpc'[q] = rpc[q] /\ tidx'[q] = tidx[q]
      BY <1>1, <2>1, <3>1 DEF TypeOK
    <3> QED BY <2>1, <3>1, <3>2, ThreadRetireKept, KeepRetiring
  <2>4. CASE RetireAtOnce(a) \/ RetireWaitOther(a) \/ RetireResume(a)
    <3>1. tidx' = tidx
      BY <2>4 DEF RetireAtOnce, RetireWaitOther, RetireResume, threadVars
    <3>2. \A q \in Queue : frame'[q].semaphore = frame[q].semaphore /\ frame'[q].payload = frame[q].payload
      <4>1. CASE RetireWaitOther(a)
        <5>1. \E e : frame' = [frame EXCEPT ![a].entry = e]
          BY <4>1 DEF RetireWaitOther
        <5>2. frame[a] \in Frame
          BY <1>1, <4>1 DEF RetireWaitOther, TypeOK
        <5>3. \A e : [frame[a] EXCEPT !.entry = e].semaphore = frame[a].semaphore
                     /\ [frame[a] EXCEPT !.entry = e].payload = frame[a].payload
          BY <5>2 DEF Frame
        <5> QED BY <1>1, <5>1, <5>3 DEF TypeOK
      <4>2. CASE ~RetireWaitOther(a)
        BY <2>4, <4>2 DEF RetireAtOnce, RetireResume, retireVars
      <4> QED BY <4>1, <4>2
    <3>3. \A q \in Queue : rpc'[q] # "idle" => rpc[q] # "idle"
      BY <1>1, <2>1, <2>4 DEF RetireAtOnce, RetireWaitOther, RetireResume, retireVars, TypeOK
    <3>4. \A q \in Queue : rpc[q] # "idle" => tpc'[q] = tpc[q]
      BY <2>2 DEF Retiring, ThreadsStay, OutPc
    <3>5. \A q \in Queue : RetireKept(q)
      BY <2>2, <3>1, <3>2, <3>3, <3>4 DEF RetireKept
    <3> QED BY <3>5, KeepRetiring
  <2> QED BY <1>6, <2>3, <2>4 DEF Retire
<1>7. ASSUME NEW q \in Queue, ThreadRetireSemaphore(q) PROVE Retiring'
  <2>1. PICK w : w = LoopSemaphores(q)[tidx[q] + 1]
    OBVIOUS
  <2>2. /\ tpc[q] \in {"waits", "signals"} /\ tidx[q] < Len(LoopSemaphores(q))
        /\ tpc' = tpc /\ tcur' = tcur /\ tidx' = tidx
        /\ rpc' = [rpc EXCEPT ![q] = "loop"]
        /\ frame' = [frame EXCEPT ![q] = [semaphore |-> w.semaphore, payload |-> w.payload, entry |-> NoEntry]]
    BY <1>7, <2>1 DEF ThreadRetireSemaphore, threadVars
  <2>3. /\ frame'[q].semaphore = w.semaphore /\ frame'[q].payload = w.payload
        /\ \A p \in Queue : p # q => rpc'[p] = rpc[p] /\ frame'[p] = frame[p]
    BY <1>1, <2>2 DEF TypeOK
  <2>4. LoopSemaphores(q)' = LoopSemaphores(q) /\ \A p \in Queue : LoopSemaphores(p)' = LoopSemaphores(p)
    BY <2>2 DEF LoopSemaphores
  <2>5. ASSUME NEW p \in Queue, rpc'[p] # "idle"
        PROVE  /\ tpc[p] \in {"waits", "signals"} /\ tidx[p] < Len(LoopSemaphores(p))
               /\ frame'[p].semaphore = LoopSemaphores(p)[tidx[p] + 1].semaphore
               /\ frame'[p].payload = LoopSemaphores(p)[tidx[p] + 1].payload
    <3>1. CASE p = q
      BY <2>1, <2>2, <2>3, <3>1
    <3>2. CASE p # q
      BY <2>3, <2>5, <3>2 DEF Retiring
    <3> QED BY <3>1, <3>2
  <2> QED BY <2>2, <2>4, <2>5 DEF Retiring
<1>8. ASSUME NEW q \in Queue, ThreadStep(q) \/ ThreadRetireFence(q), ~ThreadRetireSemaphore(q) PROVE Retiring'
  <2>1. rpc' = rpc /\ frame' = frame
    BY <1>8 DEF ThreadStep, ThreadSleep, ThreadPop, ThreadExit, ThreadEndUse, ThreadLoopDone, ThreadRetireCbs, ThreadComplete,
                ThreadRetireFence, retireVars
  <2>2. rpc[q] = "idle"
    <3>1. rpc[q] = "idle" \/ tpc[q] \notin {"waits", "signals"}
      BY <1>8 DEF ThreadStep, ThreadSleep, ThreadPop, ThreadExit, ThreadEndUse, ThreadLoopDone, ThreadRetireCbs, ThreadComplete,
                  ThreadRetireFence
    <3> QED BY <3>1 DEF Retiring
  <2>3. \A p \in Queue : p # q => tpc'[p] = tpc[p] /\ tcur'[p] = tcur[p] /\ tidx'[p] = tidx[p]
    BY <1>1, <1>8 DEF ThreadStep, ThreadSleep, ThreadPop, ThreadExit, ThreadEndUse, ThreadLoopDone, ThreadRetireCbs, ThreadComplete,
                      ThreadRetireFence, TypeOK
  <2> QED BY <2>1, <2>2, <2>3, ThreadRetireKept, KeepRetiring
<1>9. ASSUME NEW q \in Queue, DeviceExecute(q) PROVE Retiring'
  <2>1. tidx' = tidx /\ rpc' = rpc /\ frame' = frame
    BY <1>9 DEF DeviceExecute, threadVars, retireVars
  <2> QED BY <1>1, <1>2, <1>9, <2>1, ThreadStays
<1>10. CASE UNCHANGED vars
  BY <1>10 DEF vars, threadVars, retireVars, Retiring, LoopSemaphores
<1>11. CASE Next
  <2>1. CASE \E h \in Host : OtherStep(h) \/ OtherCall(h) \/ SubmitStep(h) \/ SemaphoreStep(h)
    BY <1>3, <2>1
  <2>2. CASE \E h \in Host : DriverAccept(h) \/ SubmitFence(h) \/ SubmitPush(h)
    BY <1>3, <1>5, <2>2
  <2>3. CASE \E h \in Host, f \in Fence : WaitForFence(h, f) \/ FenceCall(h, f)
    BY <1>4, <2>3
  <2>4. CASE \E a \in Actor : Retire(a)
    BY <1>6, <2>4
  <2>5. CASE \E q \in Queue : ThreadStep(q) \/ ThreadRetireFence(q) \/ DeviceExecute(q)
    BY <1>7, <1>8, <1>9, <2>5
  <2> QED BY <1>11, <2>1, <2>2, <2>3, <2>4, <2>5, NextCases
<1> QED BY <1>10, <1>11

\* The semaphores of a submission are those of the operations of the accepted batch.
LEMMA SemsOps ==
    ASSUME TypeOK, NEW q \in Queue, NEW n \in DOMAIN issued[q], NEW t, SameSems(t, issued[q][n])
    PROVE  /\ \A i \in DOMAIN t.wait_semaphores : \E y \in IssuedOps :
                 /\ y = <<q, n, i>> /\ ~Signals(y)
                 /\ SemOf(y) = t.wait_semaphores[i].semaphore /\ Number(y) = t.wait_semaphores[i].payload
           /\ \A i \in DOMAIN t.signal_semaphores : \E y \in IssuedOps :
                 /\ y = <<q, n, Len(t.wait_semaphores) + i>> /\ Signals(y)
                 /\ SemOf(y) = t.signal_semaphores[i].semaphore /\ Number(y) = t.signal_semaphores[i].payload
<1>1. PICK b \in CB_SUBMISSION : b = issued[q][n]
  BY IssuedType
<1>2. b.wait_semaphores = t.wait_semaphores /\ b.signal_semaphores = t.signal_semaphores
  BY <1>1 DEF SameSems
<1>3. PICK W \in Nat, S \in Nat : /\ W = Len(b.wait_semaphores) /\ DOMAIN b.wait_semaphores = 1..W
                                  /\ S = Len(b.signal_semaphores) /\ DOMAIN b.signal_semaphores = 1..S
  <2>1. b.wait_semaphores \in Seq(SemInfo) /\ b.signal_semaphores \in Seq(SemInfo)
    BY DEF CB_SUBMISSION
  <2> QED BY <2>1, LenProperties
<1>4. Ops(b) = 1..(W + S)
  BY <1>3 DEF Ops
<1>5. ASSUME NEW i \in 1..W
      PROVE  \E y \in IssuedOps : /\ y = <<q, n, i>> /\ ~Signals(y)
                                  /\ SemOf(y) = b.wait_semaphores[i].semaphore /\ Number(y) = b.wait_semaphores[i].payload
  <2>1. i \in 1..(W + S) /\ i <= W
    OBVIOUS
  <2>2. IsWait(b, i) /\ OpInfo(b, i) = b.wait_semaphores[i]
    BY <1>3, <2>1 DEF IsWait, OpInfo
  <2>3. PICK y \in IssuedOps : y = <<q, n, i>>
    BY <1>1, <1>4, <2>1, IssuedOpIs
  <2>4. y[1] = q /\ y[2] = n /\ y[3] = i
    BY <2>3
  <2> QED BY <1>1, <2>2, <2>3, <2>4 DEF SemOf, Number, Signals
<1>6. ASSUME NEW i \in 1..S
      PROVE  \E y \in IssuedOps : /\ y = <<q, n, W + i>> /\ Signals(y)
                                  /\ SemOf(y) = b.signal_semaphores[i].semaphore /\ Number(y) = b.signal_semaphores[i].payload
  <2>1. PICK k \in Nat : k = W + i /\ k \in 1..(W + S) /\ ~(k <= W) /\ k - W = i
    OBVIOUS
  <2>2. ~IsWait(b, k) /\ OpInfo(b, k) = b.signal_semaphores[i]
    BY <1>3, <2>1 DEF IsWait, OpInfo
  <2>3. PICK y \in IssuedOps : y = <<q, n, k>>
    BY <1>1, <1>4, <2>1, IssuedOpIs
  <2>4. y[1] = q /\ y[2] = n /\ y[3] = k
    BY <2>3
  <2> QED BY <1>1, <2>1, <2>2, <2>3, <2>4 DEF SemOf, Number, Signals
<1>7. DOMAIN t.wait_semaphores = 1..W /\ DOMAIN t.signal_semaphores = 1..S /\ Len(t.wait_semaphores) = W
  BY <1>2, <1>3
<1>8. \A i \in DOMAIN t.wait_semaphores : \E y \in IssuedOps :
         /\ y = <<q, n, i>> /\ ~Signals(y)
         /\ SemOf(y) = t.wait_semaphores[i].semaphore /\ Number(y) = t.wait_semaphores[i].payload
  BY <1>2, <1>5, <1>7
<1>9. \A i \in DOMAIN t.signal_semaphores : \E y \in IssuedOps :
         /\ y = <<q, n, Len(t.wait_semaphores) + i>> /\ Signals(y)
         /\ SemOf(y) = t.signal_semaphores[i].semaphore /\ Number(y) = t.signal_semaphores[i].payload
  BY <1>2, <1>6, <1>7
<1> QED BY <1>8, <1>9

\* What a thread is asked to retire is an operation of the submission it has popped.
LEMMA LoopOp ==
    ASSUME IInv, CallsIssued, ThreadFor, NEW q \in Queue, tpc[q] \in {"waits", "signals"}, tidx[q] < Len(LoopSemaphores(q))
    PROVE  \E y \in IssuedOps : /\ y[1] = q /\ y[2] = tcur[q].seq /\ (Signals(y) <=> tpc[q] = "signals")
                                /\ SemOf(y) = LoopSemaphores(q)[tidx[q] + 1].semaphore
                                /\ Number(y) = LoopSemaphores(q)[tidx[q] + 1].payload
<1>1. TypeOK /\ InThread(q)
  BY DEF IInv, InThread
<1>2. PICK n, t : n = tcur[q].seq /\ t = tcur[q] /\ n \in DOMAIN issued[q] /\ SameSems(t, issued[q][n]) /\ t \in CB_SUBMISSION
  BY <1>1, NumbersIssued DEF ThreadFor, TypeOK
<1>3. PICK j \in Nat : j = tidx[q] + 1 /\ tidx[q] \in Nat
  BY <1>1 DEF TypeOK
<1>4. t.wait_semaphores \in Seq(SemInfo) /\ t.signal_semaphores \in Seq(SemInfo)
  BY <1>2 DEF CB_SUBMISSION
<1>5. CASE tpc[q] = "waits"
  <2>1. LoopSemaphores(q) = t.wait_semaphores
    BY <1>2, <1>5 DEF LoopSemaphores
  <2>2. j \in DOMAIN t.wait_semaphores
    <3>1. PICK W \in Nat : W = Len(t.wait_semaphores) /\ DOMAIN t.wait_semaphores = 1..W
      BY <1>4, LenProperties
    <3> QED BY <1>3, <2>1, <3>1
  <2>3. PICK y \in IssuedOps : /\ y = <<q, n, j>> /\ ~Signals(y)
                               /\ SemOf(y) = t.wait_semaphores[j].semaphore /\ Number(y) = t.wait_semaphores[j].payload
    BY <1>1, <1>2, <2>2, SemsOps
  <2>4. y[1] = q /\ y[2] = n
    BY <2>3
  <2> QED BY <1>2, <1>3, <1>5, <2>1, <2>3, <2>4
<1>6. CASE tpc[q] = "signals"
  <2>1. LoopSemaphores(q) = t.signal_semaphores
    BY <1>2, <1>6 DEF LoopSemaphores
  <2>2. j \in DOMAIN t.signal_semaphores
    <3>1. PICK W \in Nat : W = Len(t.signal_semaphores) /\ DOMAIN t.signal_semaphores = 1..W
      BY <1>4, LenProperties
    <3> QED BY <1>3, <2>1, <3>1
  <2>3. PICK y \in IssuedOps : /\ y = <<q, n, Len(t.wait_semaphores) + j>> /\ Signals(y)
                               /\ SemOf(y) = t.signal_semaphores[j].semaphore /\ Number(y) = t.signal_semaphores[j].payload
    BY <1>1, <1>2, <2>2, SemsOps
  <2>4. y[1] = q /\ y[2] = n
    BY <2>3
  <2> QED BY <1>2, <1>3, <1>6, <2>1, <2>3, <2>4
<1> QED BY <1>5, <1>6

\* What Retire() finds is about a batch that the device has executed.
LEMMA RetiredExecuted ==
    ASSUME IInv, TimelineSem = {}, OpsExecuted, CallsIssued, PendingFor, ThreadFor, AskedFor, Retiring,
           NEW q \in Queue, rpc[q] # "idle", NEW op \in Pending(sem[frame[q].semaphore]),
           op.payload <= frame[q].payload, op.queue # NoQueue
    PROVE  op.queue \in Queue /\ op.seq \in Nat /\ op.seq <= executed[op.queue]
<1>1. TypeOK
  BY DEF IInv
<1>2. PICK y \in IssuedOps : y[1] = q /\ y[2] = tcur[q].seq /\ SemOf(y) = frame[q].semaphore /\ Number(y) = frame[q].payload
  BY LoopOp DEF Retiring
<1>3. PICK s \in BinarySem : s = frame[q].semaphore
  BY <1>1, <1>2, IssuedOpType DEF Sem
<1>4. PICK x \in IssuedOps : SemOf(x) = s /\ op.queue = x[1] /\ op.seq = x[2] /\ op.payload = Number(x)
  BY <1>3 DEF PendingFor, IsFor
<1>5. PICK nx \in Nat, ny \in Nat, v \in Nat : nx = Number(x) /\ ny = Number(y) /\ v = vk_sem[s]
  BY <1>1, <1>3, IssuedOpType DEF TypeOK, Sem
<1>6. y[2] <= executed[q]
  <2>1. InThread(q)
    BY DEF Retiring, InThread
  <2>2. tcur[q].seq = Popped(q)
    BY <2>1 DEF Popped
  <2>3. Popped(q) \in Nat /\ request_seq_[q] \in Nat /\ executed[q] \in Nat
    BY <1>1 DEF TypeOK, Popped, CB_SUBMISSION
  <2>4. Popped(q) <= request_seq_[q] /\ request_seq_[q] <= executed[q]
    BY DEF AskedFor
  <2> QED BY <1>2, <2>2, <2>3, <2>4
<1>7. ny <= v
  BY <1>2, <1>3, <1>5, <1>6 DEF OpsExecuted
<1>8. nx <= ny
  BY <1>2, <1>4, <1>5
<1>9. nx <= v
  BY <1>7, <1>8
<1>10. x[2] <= executed[x[1]]
  BY <1>4, <1>5, <1>9 DEF OpsExecuted
<1> QED BY <1>1, <1>4, <1>10, IssuedOpType

LEMMA PoppedStays ==
    ASSUME ThreadsStay
    PROVE  \A q \in Queue : Popped(q)' = Popped(q)
<1>1. \A q \in Queue : InThread(q)' <=> InThread(q)
  BY OutIs DEF ThreadsStay, InThread, OutPc
<1> QED BY <1>1 DEF ThreadsStay, Popped

LEMMA KeepAsked ==
    ASSUME AskedFor, executed' = executed, request_seq_' = request_seq_, \A q \in Queue : Popped(q)' = Popped(q)
    PROVE  AskedFor'
BY DEF AskedFor

LEMMA NotifyAsked ==
    ASSUME TypeOK, AskedFor, executed' = executed, NEW p \in Queue, NEW n \in Nat, n <= executed[p], Notify(p, n),
           \A q \in Queue : Popped(q)' = Popped(q)
    PROVE  AskedFor'
<1>1. request_seq_'[p] = Max2(request_seq_[p], n) /\ \A q \in Queue : q # p => request_seq_'[q] = request_seq_[q]
  BY DEF Notify, TypeOK
<1>2. PICK e \in Nat, r \in Nat, v \in Nat : e = executed[p] /\ r = request_seq_[p] /\ v = Popped(p)
  BY DEF TypeOK, Popped, CB_SUBMISSION
<1>3. v <= r /\ r <= e /\ n <= e
  BY <1>2 DEF AskedFor
<1>4. v <= Max2(r, n) /\ Max2(r, n) <= e
  BY <1>3 DEF Max2
<1>5. Popped(p)' <= request_seq_'[p] /\ request_seq_'[p] <= executed'[p]
  BY <1>1, <1>2, <1>4
<1> QED BY <1>1, <1>5 DEF AskedFor

LEMMA NextPopped ==
    ASSUME TypeOK, ThreadsStay \/ (\E h \in Host : SubmitPush(h))
    PROVE  \A q \in Queue : Popped(q)' = Popped(q)
<1>1. CASE ThreadsStay
  BY <1>1, PoppedStays
<1>2. ASSUME NEW h \in Host, SubmitPush(h) PROVE \A q \in Queue : Popped(q)' = Popped(q)
  <2>1. \A q \in Queue : InThread(q)' <=> InThread(q)
    BY <1>2 DEF SubmitPush, InThread, TypeOK
  <2>2. tcur' = tcur /\ done_' = done_
    BY <1>2 DEF SubmitPush
  <2> QED BY <2>1, <2>2 DEF Popped
<1> QED BY <1>1, <1>2

LEMMA OtherStepAsked ==
    ASSUME IInv, CallsIssued, InTime, HostFrames, TimelineSem = {}, NEW h \in Host, OtherStep(h)
    PROVE  AskedFor'
<1>1. TypeOK /\ AskedFor /\ IdleFor
  BY DEF IInv, InTime
<1>2. ~SemaphoreWait(h) /\ ~SemaphorePoke(h) /\ ~SemaphoreReady(h) /\ ~RetireTimelineEnqueue(h)
  BY NoSemaphoreCall DEF SemaphoreWait, SemaphorePoke, SemaphoreReady, RetireTimelineEnqueue, SemaphorePc
<1>3. \A q \in Queue : Popped(q)' = Popped(q)
  BY <1>1, OtherStepStays, NextPopped
<1>4. executed' = executed
  BY <1>2 DEF OtherStep, QueueNotify, QueueWait, QueueWaitReady, FenceWaitReady, DestroyNotify, DestroyJoin, deviceVars
<1>5. CASE QueueNotify(h)
  <2>1. PICK q, until : /\ q = call[h].queue /\ hpc[h] = "qnotify" /\ Notify(q, until)
                        /\ until = IF call[h].until = AllSeq THEN seq_[q] ELSE call[h].until
    BY <1>5 DEF QueueNotify
  <2>2. q \in Queue
    BY <1>1, <2>1, CallQueue DEF QueuePc, IdlePc
  <2>3. PICK n \in Nat, N \in Nat, e \in Nat : n = seq_[q] /\ N = Len(issued[q]) /\ e = executed[q]
    BY <1>1, <2>2, QueueLengths
  <2>4. until \in Nat /\ until <= n
    <3>1. call[h].until \in Nat
      BY <1>1, CallFields DEF TypeOK, Call
    <3>2. call[h].until = AllSeq \/ call[h].until <= n
      BY <2>1, <2>3 DEF IInv, Order, UntilBounded, UntilOK
    <3> QED BY <2>1, <2>3, <3>1, <3>2
  <2>5. n <= N
    BY <2>2, <2>3, NumbersIssued
  <2>6. e = N
    BY <1>1, <2>1, <2>2, <2>3 DEF IdleFor, IdlePc, Claims, DeviceIdle
  <2>7. until <= executed[q]
    BY <2>3, <2>4, <2>5, <2>6
  <2> QED BY <1>1, <1>3, <1>4, <2>1, <2>2, <2>4, <2>7, NotifyAsked
<1>6. CASE ~QueueNotify(h)
  <2>1. request_seq_' = request_seq_
    BY <1>2, <1>6, OtherStep(h) DEF OtherStep, QueueWait, QueueWaitReady, FenceWaitReady, DestroyNotify, DestroyJoin, queueVars
  <2> QED BY <1>1, <1>3, <1>4, <2>1, KeepAsked
<1> QED BY <1>5, <1>6

LEMMA WaitForFenceAsked ==
    ASSUME IInv, CallsIssued, FencesPending, FenceFor, AskedFor, NEW h \in Host, NEW f \in Fence, WaitForFence(h, f)
    PROVE  AskedFor'
<1>1. TypeOK
  BY DEF IInv
<1>2. \A q \in Queue : Popped(q)' = Popped(q)
  BY <1>1, FenceCallStays, NextPopped
<1>3. executed' = executed
  BY DEF WaitForFence
<1>4. CASE FenceNotifiesQueue(fence[f])
  <2>1. PICK q, n : q = fence[f].queue /\ n = fence[f].seq
    OBVIOUS
  <2>2. q \in Queue /\ n \in Nat
    BY <1>1, <1>4, <2>1 DEF FenceNotifiesQueue, TypeOK, FenceRecord
  <2>3. n \in DOMAIN issued[q] /\ issued[q][n].fence = f
    BY <1>4, <2>1 DEF FenceNotifiesQueue, FenceFor
  <2>4. f # NoFence /\ vk_fence[f].st # "pending"
    BY <1>1, QueueStateAssumption DEF WaitForFence
  <2>5. ~(n > executed[q])
    <3>1. [st |-> "pending", queue |-> q, n |-> n].st = "pending"
      OBVIOUS
    <3>2. n > executed[q] => vk_fence[f] = [st |-> "pending", queue |-> q, n |-> n]
      BY <2>2, <2>3, <2>4 DEF FencesPending
    <3> QED BY <2>4, <3>1, <3>2
  <2>6. executed[q] \in Nat
    BY <1>1, <2>2 DEF TypeOK
  <2>7. n <= executed[q]
    BY <2>2, <2>5, <2>6
  <2>8. Notify(q, n)
    BY <1>4, <2>1 DEF WaitForFence
  <2> QED BY <1>1, <1>2, <1>3, <2>2, <2>7, <2>8, NotifyAsked
<1>5. CASE ~FenceNotifiesQueue(fence[f])
  <2>1. request_seq_' = request_seq_
    BY <1>5 DEF WaitForFence
  <2> QED BY <1>2, <1>3, <2>1, KeepAsked
<1> QED BY <1>4, <1>5

LEMMA RetireAsked ==
    ASSUME IInv, IInv', HostFrames, TimelineSem = {}, OpsExecuted, CallsIssued, PendingFor, ThreadFor, AskedFor, Retiring,
           NEW a \in Actor, Retire(a)
    PROVE  AskedFor'
<1>1. TypeOK /\ TypeOK' /\ a \in Queue /\ rpc[a] # "idle"
  BY NoSemaphoreCall DEF IInv, Retire, RetireAtOnce, RetireWaitOther, RetireResume, RetireEnd
<1>2. \A q \in Queue : Popped(q)' = Popped(q)
  BY <1>1, RetireStays, NextPopped
<1>3. executed' = executed
  BY DEF Retire, RetireAtOnce, RetireWaitOther, RetireResume, RetireEnd, deviceVars
<1>4. CASE request_seq_' = request_seq_
  BY <1>2, <1>3, <1>4, KeepAsked
<1>5. CASE request_seq_' # request_seq_
  <2>1. PICK s, op : s = frame[a].semaphore /\ op = Head(sem[s].operations)
    OBVIOUS
  <2>2. op.queue # NoQueue /\ Notify(op.queue, op.seq) /\ RetireCovers(sem[s], frame[a].payload)
    <3>1. CASE RetireAtOnce(a)
      BY <1>5, <2>1, <3>1 DEF RetireAtOnce
    <3>2. CASE RetireWaitOther(a)
      BY <2>1, <3>2 DEF RetireWaitOther, RetiresAtOnce
    <3> QED BY <1>5, <3>1, <3>2 DEF Retire, RetireResume, RetireEnd, queueVars
  <2>3. frame[a] \in Frame /\ s \in Sem
    BY <1>1, <2>1, <2>2 DEF TypeOK, Frame, RetireAtOnce, RetireWaitOther, Actor
  <2>4. sem[s].operations \in Seq(SemOp) /\ sem[s].operations # << >> /\ op.payload <= frame[a].payload
    BY <1>1, <2>1, <2>2, <2>3 DEF TypeOK, SemRecord, RetireCovers
  <2>5. op \in Pending(sem[s])
    BY <2>1, <2>4, EmptySeq, LenProperties DEF Pending
  <2>6. op.queue \in Queue /\ op.seq \in Nat /\ op.seq <= executed[op.queue]
    BY <1>1, <2>1, <2>2, <2>4, <2>5, RetiredExecuted
  <2> QED BY <1>1, <1>2, <1>3, <2>2, <2>6, NotifyAsked
<1> QED BY <1>4, <1>5

LEMMA ThreadAsked ==
    ASSUME TypeOK, TypeOK', AskedFor, NEW q \in Queue, ThreadStep(q) \/ ThreadRetireFence(q)
    PROVE  AskedFor'
<1>1. executed' = executed /\ request_seq_' = request_seq_
  BY DEF ThreadStep, ThreadSleep, ThreadPop, ThreadExit, ThreadEndUse, ThreadRetireSemaphore, ThreadLoopDone,
         ThreadRetireCbs, ThreadComplete, ThreadRetireFence, deviceVars, queueVars
<1>2. CASE ThreadPop(q)
  <2>1. request_seq_[q] >= Head(submissions_[q]).seq
    <3>1. submissions_[q] \in Seq(CB_SUBMISSION) /\ submissions_[q] # << >> /\ ~(request_seq_[q] < Head(submissions_[q]).seq)
      BY <1>2 DEF ThreadPop, NothingToRetire, TypeOK
    <3>2. Head(submissions_[q]) \in CB_SUBMISSION
      BY <3>1, HeadTailProperties
    <3>3. Head(submissions_[q]).seq \in Nat /\ request_seq_[q] \in Nat
      BY <3>2 DEF CB_SUBMISSION, TypeOK
    <3> QED BY <3>1, <3>3
  <2>2. Popped(q)' = Head(submissions_[q]).seq
    BY <1>2 DEF ThreadPop, Popped, InThread, TypeOK
  <2>3. \A p \in Queue : p # q => Popped(p)' = Popped(p)
    BY <1>2 DEF ThreadPop, Popped, InThread, TypeOK
  <2>4. Popped(q)' \in Nat /\ request_seq_[q] \in Nat
    BY DEF Popped, TypeOK, CB_SUBMISSION
  <2>5. Popped(q)' <= request_seq_[q]
    BY <2>1, <2>2, <2>4
  <2> QED BY <1>1, <2>3, <2>5 DEF AskedFor
<1>3. CASE ThreadComplete(q)
  <2>1. InThread(q) /\ ~InThread(q)' /\ done_'[q] = tcur[q].seq
    BY <1>3 DEF InThread, TypeOK, ThreadComplete
  <2>2. \A p \in Queue : p # q => (InThread(p)' <=> InThread(p)) /\ done_'[p] = done_[p]
    BY <1>3 DEF InThread, TypeOK, ThreadComplete
  <2>3. tcur' = tcur
    BY <1>3 DEF ThreadComplete
  <2>4. \A p \in Queue : Popped(p)' = Popped(p)
    BY <2>1, <2>2, <2>3 DEF Popped
  <2> QED BY <1>1, <2>4, KeepAsked
<1>4. CASE ~ThreadPop(q) /\ ~ThreadComplete(q)
  <2>1. tcur' = tcur /\ done_' = done_
    BY <1>4 DEF ThreadStep, ThreadSleep, ThreadExit, ThreadEndUse, ThreadRetireSemaphore, ThreadLoopDone,
                ThreadRetireCbs, ThreadRetireFence, threadVars
  <2>2. \A p \in Queue : InThread(p)' <=> InThread(p)
    <3>1. CASE ThreadSleep(q)
      BY <3>1 DEF ThreadSleep, InThread, TypeOK
    <3>6. CASE ThreadExit(q)
      BY <3>6 DEF ThreadExit, InThread, TypeOK
    <3>2. CASE ThreadEndUse(q)
      BY <3>2 DEF ThreadEndUse, InThread, TypeOK
    <3>7. CASE ThreadRetireCbs(q)
      BY <3>7 DEF ThreadRetireCbs, InThread, TypeOK
    <3>3. CASE ThreadLoopDone(q)
      BY <3>3 DEF ThreadLoopDone, InThread, TypeOK
    <3>4. CASE ThreadRetireFence(q)
      BY <3>4 DEF ThreadRetireFence, InThread, TypeOK
    <3>5. CASE ThreadRetireSemaphore(q)
      BY <3>5 DEF ThreadRetireSemaphore, InThread, threadVars
    <3> QED BY <1>4, <3>1, <3>2, <3>3, <3>4, <3>5, <3>6, <3>7 DEF ThreadStep
  <2>3. \A p \in Queue : Popped(p)' = Popped(p)
    BY <2>1, <2>2 DEF Popped
  <2> QED BY <1>1, <2>3, KeepAsked
<1> QED BY <1>2, <1>3, <1>4

\* The calls and the steps of a submission that neither ask for anything nor run the device.
LEMMA HostQuiet ==
    ASSUME HostFrames, TimelineSem = {}, NEW h \in Host,
           OtherCall(h) \/ SubmitStep(h) \/ SemaphoreStep(h) \/ DriverAccept(h) \/ SubmitFence(h)
    PROVE  executed' = executed /\ request_seq_' = request_seq_
<1>1. CASE OtherCall(h)
  BY <1>1, NoSemaphoreCall DEF OtherCall, QueueWaitIdle, DeviceWaitIdle, DestroyDevice, WaitSemaphore, SignalSemaphore,
                               deviceVars, queueVars
<1>2. CASE SubmitStep(h)
  <2>1. ASSUME SubmitWait(h) PROVE executed' = executed /\ request_seq_' = request_seq_
    BY <2>1, Zenon DEF SubmitWait, deviceVars, queueVars
  <2>2. ASSUME SubmitSignal(h) PROVE executed' = executed /\ request_seq_' = request_seq_
    BY <2>2, Zenon DEF SubmitSignal, deviceVars, queueVars
  <2>3. ASSUME NEW p, NEW bs, QueueSubmit(h, p, bs) PROVE executed' = executed /\ request_seq_' = request_seq_
    BY <2>3 DEF QueueSubmit, deviceVars, queueVars
  <2>4. ASSUME SubmitCbs(h) \/ SubmitSeq(h) PROVE executed' = executed /\ request_seq_' = request_seq_
    BY <2>4 DEF SubmitCbs, SubmitSeq, deviceVars, queueVars
  <2> QED BY <1>2, <2>1, <2>2, <2>3, <2>4 DEF SubmitStep
<1>3. ASSUME SemaphoreStep(h) \/ DriverAccept(h) \/ SubmitFence(h) PROVE executed' = executed /\ request_seq_' = request_seq_
  <2>1. executed' = executed
    BY <1>3, Zenon DEF SemaphoreStep, RetireTimelineBegin, ImportSemaphore, ExportSemaphore, DriverAccept, SubmitFence, deviceVars
  <2>2. request_seq_' = request_seq_
    BY <1>3, Zenon DEF SemaphoreStep, RetireTimelineBegin, ImportSemaphore, ExportSemaphore, DriverAccept, SubmitFence, queueVars
  <2> QED BY <2>1, <2>2
<1> QED BY <1>1, <1>2, <1>3

LEMMA NextAskedFor ==
    ASSUME IInv, IInv', HostFrames, TimelineSem = {}, NoSharing, DeviceInv, CallInv, Recorded, InTime, Retiring, [Next]_vars
    PROVE  AskedFor'
<1>1. TypeOK /\ TypeOK' /\ AskedFor /\ CallsIssued
  BY DEF IInv, InTime, CallInv
<1>2. ASSUME executed' = executed, request_seq_' = request_seq_, ThreadsStay \/ (\E h \in Host : SubmitPush(h)) PROVE AskedFor'
  BY <1>1, <1>2, NextPopped, KeepAsked
<1>3. ASSUME NEW h \in Host, OtherStep(h) PROVE AskedFor'
  BY <1>1, <1>3, OtherStepAsked
<1>4. ASSUME NEW h \in Host, OtherCall(h) PROVE AskedFor'
  BY <1>1, <1>2, <1>4, HostQuiet, OtherCallStays
<1>5. ASSUME NEW h \in Host, SubmitStep(h) \/ SemaphoreStep(h) \/ DriverAccept(h) \/ SubmitFence(h) PROVE AskedFor'
  BY <1>1, <1>2, <1>5, HostQuiet, SubmitStays
<1>6. ASSUME NEW h \in Host, SubmitPush(h) PROVE AskedFor'
  BY <1>2, <1>6 DEF SubmitPush, deviceVars
<1>7. ASSUME NEW h \in Host, NEW f \in Fence, WaitForFence(h, f) PROVE AskedFor'
  BY <1>1, <1>7, WaitForFenceAsked DEF DeviceInv, Recorded
<1>8. ASSUME NEW h \in Host, NEW f \in Fence, FenceCall(h, f) PROVE AskedFor'
  <2>1. executed' = executed /\ request_seq_' = request_seq_
    BY <1>8 DEF FenceCall, ResetFence, ImportFence, ExportFence, AcquireNextImage, queueVars
  <2> QED BY <1>1, <1>2, <1>8, <2>1, FenceCallStays
<1>9. ASSUME NEW a \in Actor, Retire(a) PROVE AskedFor'
  BY <1>1, <1>9, RetireAsked DEF DeviceInv, Recorded
<1>10. ASSUME NEW q \in Queue, ThreadStep(q) \/ ThreadRetireFence(q) PROVE AskedFor'
  BY <1>1, <1>10, ThreadAsked
<1>11. ASSUME NEW q \in Queue, DeviceExecute(q) PROVE AskedFor'
  <2>1. \A p \in Queue : Popped(p)' = Popped(p)
    BY <1>1, <1>11, ThreadStays, PoppedStays
  <2>2. request_seq_' = request_seq_ /\ executed' = [executed EXCEPT ![q] = @ + 1]
    BY <1>11 DEF DeviceExecute, queueVars
  <2>3. \A p \in Queue : executed'[p] = executed[p] \/ executed'[p] = executed[p] + 1
    BY <1>1, <2>2 DEF TypeOK
  <2>4. \A p \in Queue : Popped(p) \in Nat /\ request_seq_[p] \in Nat /\ executed[p] \in Nat
    BY <1>1 DEF TypeOK, Popped, CB_SUBMISSION
  <2>5. \A p \in Queue : request_seq_[p] <= executed'[p]
    BY <1>1, <2>3, <2>4 DEF AskedFor
  <2> QED BY <1>1, <2>1, <2>2, <2>5 DEF AskedFor
<1>12. CASE UNCHANGED vars
  BY <1>1, <1>12 DEF vars, threadVars, queueVars, deviceVars, AskedFor, Popped, InThread
<1>13. CASE Next
  <2>1. CASE \E h \in Host : OtherStep(h) \/ OtherCall(h) \/ SubmitStep(h) \/ SemaphoreStep(h)
    BY <1>3, <1>4, <1>5, <2>1
  <2>2. CASE \E h \in Host : DriverAccept(h) \/ SubmitFence(h) \/ SubmitPush(h)
    BY <1>5, <1>6, <2>2
  <2>3. CASE \E h \in Host, f \in Fence : WaitForFence(h, f) \/ FenceCall(h, f)
    BY <1>7, <1>8, <2>3
  <2>4. CASE \E a \in Actor : Retire(a)
    BY <1>9, <2>4
  <2>5. CASE \E q \in Queue : ThreadStep(q) \/ ThreadRetireFence(q) \/ DeviceExecute(q)
    BY <1>10, <1>11, <2>5
  <2> QED BY <1>13, <2>1, <2>2, <2>3, <2>4, <2>5, NextCases
<1> QED BY <1>12, <1>13

-----------------------------------------------------------------------------
(* The invariant *)

LEMMA InitProgress ==
    ASSUME Init, TypeOK, TimelineSem = {}
    PROVE  ProgressInv /\ Retiring
<1>1. /\ \A q \in Queue : issued[q] = << >> /\ executed[q] = 0 /\ request_seq_[q] = 0 /\ seq_[q] = 0 /\ submissions_[q] = << >>
      /\ \A q \in Queue : tpc[q] = "none" /\ done_[q] = 0 /\ rpc[q] = "idle"
      /\ \A h \in Host : hpc[h] = "idle"
  BY DEF Init, Actor
<1>2. IssuedOps = {} /\ \A q \in Queue : DOMAIN issued[q] = {} /\ Len(issued[q]) = 0 /\ DOMAIN submissions_[q] = {}
  BY <1>1 DEF IssuedOps
<1>3. \A s \in Sem : vk_sem[s] = 0 /\ app_sem[s] = 0
  BY DEF Init
<1>4. \A s \in BinarySem : Pending(sem[s]) = {} /\ sem[s].next_payload = 1
  BY DEF Init, NewSemaphore, Pending, Sem
<1>5. DeviceInv
  BY <1>1, <1>2, <1>3 DEF DeviceInv, OpsNumbered, OpsExecuted, FencesPending
<1>6. CallInv
  BY <1>1, <1>2, QueueStateAssumption DEF CallInv, CallsIssued, SubIssued, SubIs, CallsOnce, Room, Ahead, SubmitPc
<1>7. Telling
  BY <1>2, <1>3, <1>4 DEF Telling, Sem
<1>8. Recorded
  BY <1>1, <1>2, <1>4 DEF Recorded, PendingFor, DequeFor, ThreadFor, FenceFor, InThread, Init, NewFence
<1>9. InTime
  BY <1>1 DEF InTime, AskedFor, IdleFor, Popped, InThread, IdlePc
<1>10. Retiring
  BY <1>1 DEF Retiring
<1> QED BY <1>5, <1>6, <1>7, <1>8, <1>9, <1>10 DEF ProgressInv, LayerInv

LEMMA NextProgress ==
    ASSUME IInv, IInv', VerdictInv, FenceTruth, Tracked, TimelineSem = {}, NoSharing, CallsNameOnce, ProgressInv, Retiring,
           [Next]_vars
    PROVE  ProgressInv' /\ Retiring'
<1>1. HostFrames /\ SubIsFirst /\ CallsIssued
  BY DEF VerdictInv, FenceTruth, ProgressInv, CallInv
<1>2. DeviceInv'
  BY <1>1, NextDevice DEF ProgressInv, CallInv
<1>3. CallInv' /\ Telling'
  BY <1>1, NextCalls DEF ProgressInv, LayerInv
<1>4. PendingFor'
  BY <1>1, NextPendingFor DEF ProgressInv, LayerInv, Recorded, VerdictInv, DeviceInv
<1>5. DequeFor' /\ ThreadFor'
  BY <1>1, NextThreadFor DEF ProgressInv, LayerInv, Recorded
<1>6. FenceFor'
  BY <1>1, NextFenceFor DEF ProgressInv, LayerInv, Recorded
<1>7. AskedFor'
  BY <1>1, NextAskedFor DEF ProgressInv, LayerInv
<1>8. IdleFor'
  BY <1>1, NextIdleFor DEF ProgressInv, LayerInv, InTime
<1>9. Retiring'
  BY <1>1, NextRetiring
<1> QED BY <1>2, <1>3, <1>4, <1>5, <1>6, <1>7, <1>8, <1>9 DEF ProgressInv, LayerInv, Recorded, InTime

LEMMA AskedNeverAhead ==
    ASSUME TypeOK, AskedFor
    PROVE  NeverAhead
<1> SUFFICES ASSUME NEW q \in Queue PROVE Popped(q) <= executed[q]
  BY DEF NeverAhead
<1>1. Popped(q) \in Nat /\ request_seq_[q] \in Nat /\ executed[q] \in Nat
  BY DEF TypeOK, Popped, CB_SUBMISSION
<1>2. Popped(q) <= request_seq_[q] /\ request_seq_[q] <= executed[q]
  BY DEF AskedFor
<1> QED BY <1>1, <1>2

\* Behind NeverAhead: the payloads that the layer gives to the operations on a binary semaphore
\* are those under which the device knows them, so what Retire() finds below a payload is about
\* a batch that the device has executed. The application uses no timeline semaphore, shares no
\* fence and names a semaphore only once in a batch.
THEOREM ProgressAlways ==
    ASSUME TimelineSem = {}, CallsNameOnce,
           {"vkImportFenceFdKHR", "vkGetFenceFdKHR", "vkGetFenceFdKHR_SYNC_FD"} \cap ApiUsed = {}
    PROVE  Spec => [](ProgressInv /\ Retiring)
<1>1. NoSharing
  BY Zenon DEF NoSharing, Uses
<1>2. Spec => []FenceOrder
  BY OrderAlways
<1>3. FenceOrder => Tracked
  BY DEF FenceOrder
<1>4. IInv /\ VerdictInv /\ FenceTruth /\ FenceOrder /\ ProgressInv /\ Retiring /\ [Next]_vars => ProgressInv' /\ Retiring'
  BY <1>1, <1>3, NextKeeps, NextProgress
<1>5. Init /\ IInv => ProgressInv /\ Retiring
  BY InitProgress DEF IInv
<1> QED BY <1>2, <1>4, <1>5, Invariance, VerdictAlways, TruthAlways, PTL DEF Spec

\* No queue thread pops a submission that the device has not executed, whoever asks for what:
\* a host thread after vkQueueWaitIdle, vkDeviceWaitIdle or a fence, or another queue's thread
\* through SEMAPHORE_STATE::Retire().
THEOREM NeverAheadAlways ==
    ASSUME TimelineSem = {}, CallsNameOnce,
           {"vkImportFenceFdKHR", "vkGetFenceFdKHR", "vkGetFenceFdKHR_SYNC_FD"} \cap ApiUsed = {}
    PROVE  Spec => []NeverAhead
<1>1. Spec => [](ProgressInv /\ Retiring)
  BY ProgressAlways
<1>2. IInv /\ ProgressInv => NeverAhead
  BY AskedNeverAhead DEF IInv, ProgressInv, LayerInv, InTime
<1> QED BY <1>1, <1>2, Invariance, PTL

-----------------------------------------------------------------------------
(* Retirement in the order of the device *)

\* A batch names a semaphore once.
LEMMA NextOnce ==
    ASSUME IInv, HostFrames, TimelineSem = {}, NoSharing, CallsOnce, BatchesOnce, [Next]_vars
    PROVE  BatchesOnce'
<1>1. TypeOK
  BY DEF IInv
<1>2. CASE issued' = issued
  BY <1>2 DEF BatchesOnce
<1>3. ASSUME NEW h \in Host, DriverAccept(h) PROVE BatchesOnce'
  <2>1. PICK q, b, n : q = call[h].queue /\ b = call[h].batches[call[h].idx + 1] /\ n = Len(issued[q]) + 1
    OBVIOUS
  <2>2. /\ q \in Queue /\ n \in Nat /\ n > 0 /\ DOMAIN issued'[q] = 1..n /\ SameBatch(issued'[q][n], b)
        /\ \A m \in 1..(n - 1) : m \in DOMAIN issued[q] /\ issued'[q][m] = issued[q][m]
        /\ \A p \in Queue : p # q => issued'[p] = issued[p]
    <3>1. AcceptOf(h, q, b, n)
      BY <1>1, <1>3, <2>1 DEF AcceptOf
    <3>2. BatchAdded(q, b, n) /\ OpsAdded(q, b, n)
      BY <1>1, <1>3, <2>1, <3>1, AcceptIssued
    <3> QED BY <1>1, <1>3, <2>1, <3>2 DEF BatchAdded, OpsAdded
  <2>3. NamesOnce(b)
    <3>1. hpc[h] \in SubmitPc /\ call[h].batches \in Seq(CB_SUBMISSION) /\ call[h].idx \in Nat /\ call[h].idx < Len(call[h].batches)
      BY <1>1, <1>3, CallFields DEF DriverAccept, SubmitPc
    <3>2. PICK i \in Nat, L \in Nat : i = call[h].idx /\ L = Len(call[h].batches) /\ i < L /\ DOMAIN call[h].batches = 1..L
      BY <3>1, LenProperties
    <3>3. i + 1 \in 1..L
      BY <3>2
    <3> QED BY <2>1, <3>1, <3>2, <3>3 DEF CallsOnce
  <2>4. NamesOnce(issued'[q][n])
    <3>1. SameOps(issued'[q][n], b)
      BY <2>2 DEF SameBatch
    <3>2. Ops(issued'[q][n]) = Ops(b) /\ \A k \in Ops(b) : OpOn(issued'[q][n], k) = OpOn(b, k)
      BY <3>1 DEF SameOps, Ops
    <3> QED BY <2>3, <3>2 DEF NamesOnce
  <2>5. \A m \in 1..n : NamesOnce(issued'[q][m])
    <3>1. \A m \in 1..n : m = n \/ m \in 1..(n - 1)
      BY <2>2
    <3> QED BY <2>2, <2>4, <3>1 DEF BatchesOnce
  <2> QED BY <2>2, <2>5 DEF BatchesOnce
<1> QED BY <1>2, <1>3, NextIssued

\* What a step may do to the operations on a semaphore.
Kept(s)  == sem'[s].operations = sem[s].operations
Grown(s) == \E op \in SemOp : op.payload = sem[s].next_payload /\ Appended(sem[s].operations, op, sem'[s].operations)
Taken(s) == \E q \in Queue : RetireAtOnce(q) /\ RetiresHead(q, s, sem[s].operations)

LEMMA AcquireGrows ==
    ASSUME TypeOK, AllBelow, NEW h \in Host, NEW s \in BinarySem, NEW f \in Fence, AcquireNextImage(h, s, f)
    PROVE  Grown(s) /\ \A r \in BinarySem : r # s => Kept(r)
<1>1. sem' = [sem EXCEPT ![s] = SemEnqueueAcquire(sem[s])] /\ sem[s] \in SemRecord
  BY DEF AcquireNextImage, TypeOK, Sem
<1>2. sem'[s] = SemEnqueueAcquire(sem[s]) /\ \A r \in BinarySem : r # s => sem'[r] = sem[r]
  BY <1>1 DEF TypeOK, Sem
<1>3. PICK op : op = NewOp("kBinaryAcquire", NoQueue, 0, sem[s].next_payload)
  OBVIOUS
<1>4. op \in SemOp /\ op.payload = sem[s].next_payload
  BY <1>1, <1>3 DEF NewOp, SemOp, OpType, SemRecord
<1>5. Appended(sem[s].operations, op, SemEnqueue(sem[s], TRUE, op).operations)
  BY <1>1, <1>4, EnqueueAppends DEF AllBelow
<1> QED BY <1>2, <1>3, <1>4, <1>5 DEF SemEnqueueAcquire, Grown, Kept

LEMMA SemChanges ==
    ASSUME IInv, VerdictInv, TimelineSem = {}, [Next]_vars
    PROVE  \A s \in BinarySem : Kept(s) \/ Grown(s) \/ Taken(s)
<1>1. TypeOK /\ TypeOK' /\ HostFrames /\ AllBelow
  BY NextKeeps DEF IInv, VerdictInv
<1>2. \A s \in BinarySem : s \in Sem
  BY DEF Sem
<1>3. CASE SemsStill
  BY <1>3 DEF SemsStill, Kept
<1>4. ASSUME NEW h \in Host, SubmitWait(h) \/ SubmitSignal(h) PROVE \A s \in BinarySem : Kept(s) \/ Grown(s)
  <2>1. PICK q, b, k, s, p : TellsOp(h, q, b, k, s, p)
    BY <1>1, <1>4, TellIs
  <2> QED BY <1>2, <2>1 DEF TellsOp, Kept, Grown
<1>5. ASSUME NEW h \in Host, NEW s \in BinarySem, NEW f \in Fence, AcquireNextImage(h, s, f)
      PROVE  \A r \in BinarySem : Kept(r) \/ Grown(r)
  BY <1>1, <1>5, AcquireGrows
<1>6. ASSUME NEW q \in Queue, RetireAtOnce(q) PROVE \A s \in BinarySem : Kept(s) \/ Taken(s)
  <2>1. PICK s, ops : RetiresHead(q, s, ops)
    BY <1>1, <1>6, RetireAtOnceIs
  <2>2. ops = sem[s].operations /\ \A r \in Sem : r # s => sem'[r] = sem[r]
    BY <2>1 DEF RetiresHead
  <2> QED BY <1>2, <1>6, <2>1, <2>2 DEF Kept, Taken
<1> QED BY <1>1, <1>3, <1>4, <1>5, <1>6, NextSems

\* The positions of the operations that were pending before.
LEMMA GrownIs ==
    ASSUME TypeOK, NEW s \in BinarySem, Grown(s)
    PROVE  \E op \in SemOp, L \in Nat :
              /\ op.payload = sem[s].next_payload
              /\ DOMAIN sem[s].operations = 1..L /\ DOMAIN sem'[s].operations = 1..(L + 1)
              /\ sem'[s].operations[L + 1] = op
              /\ \A i \in 1..L : sem'[s].operations[i] = sem[s].operations[i]
<1>1. sem[s].operations \in Seq(SemOp)
  BY DEF TypeOK, Sem, SemRecord
<1>2. PICK op \in SemOp : op.payload = sem[s].next_payload /\ Appended(sem[s].operations, op, sem'[s].operations)
  BY DEF Grown
<1>3. PICK L \in Nat : L = Len(sem[s].operations) /\ DOMAIN sem[s].operations = 1..L
  BY <1>1, LenProperties
<1> QED BY <1>2, <1>3 DEF Appended

LEMMA TakenIs ==
    ASSUME NEW s \in BinarySem, Taken(s)
    PROVE  \E L \in Nat :
              /\ L >= 1 /\ DOMAIN sem[s].operations = 1..L /\ DOMAIN sem'[s].operations = 1..(L - 1)
              /\ Head(sem[s].operations) = sem[s].operations[1]
              /\ \A i \in 1..(L - 1) : sem'[s].operations[i] = sem[s].operations[i + 1]
<1>1. PICK ops \in Seq(SemOp) : ops = sem[s].operations /\ ops # << >> /\ sem'[s].operations = Tail(ops)
  BY DEF Taken, RetiresHead
<1>2. PICK L \in Nat : L = Len(ops) /\ DOMAIN ops = 1..L /\ L >= 1
  BY <1>1, LenProperties, EmptySeq
<1>3. DOMAIN Tail(ops) = 1..(L - 1) /\ Head(ops) = ops[1] /\ \A i \in 1..(L - 1) : Tail(ops)[i] = ops[i + 1]
  BY <1>1, <1>2, HeadTailProperties, LenProperties
<1> QED BY <1>1, <1>2, <1>3

LEMMA NextSorted ==
    ASSUME IInv, VerdictInv, TimelineSem = {}, Sorted, [Next]_vars
    PROVE  Sorted'
<1>1. TypeOK /\ AllBelow
  BY DEF IInv, VerdictInv
<1> SUFFICES ASSUME NEW s \in BinarySem
             PROVE  \A i, j \in DOMAIN sem'[s].operations :
                       i < j => sem'[s].operations[i].payload < sem'[s].operations[j].payload
  BY DEF Sorted
<1>2. \A i, j \in DOMAIN sem[s].operations : i < j => sem[s].operations[i].payload < sem[s].operations[j].payload
  BY DEF Sorted
<1>3. CASE Kept(s)
  BY <1>2, <1>3 DEF Kept
<1>4. CASE Grown(s)
  <2>1. PICK op \in SemOp, L \in Nat :
              /\ op.payload = sem[s].next_payload
              /\ DOMAIN sem[s].operations = 1..L /\ DOMAIN sem'[s].operations = 1..(L + 1)
              /\ sem'[s].operations[L + 1] = op
              /\ \A i \in 1..L : sem'[s].operations[i] = sem[s].operations[i]
    BY <1>1, <1>4, GrownIs
  <2>2. \A i \in 1..L : sem[s].operations[i].payload < op.payload
    BY <1>1, <2>1 DEF AllBelow, Below
  <2>3. \A i, j \in 1..(L + 1) : i < j => i \in 1..L /\ (j \in 1..L \/ j = L + 1)
    BY <2>1
  <2> QED BY <1>2, <2>1, <2>2, <2>3
<1>5. CASE Taken(s)
  <2>1. PICK L \in Nat :
              /\ L >= 1 /\ DOMAIN sem[s].operations = 1..L /\ DOMAIN sem'[s].operations = 1..(L - 1)
              /\ \A i \in 1..(L - 1) : sem'[s].operations[i] = sem[s].operations[i + 1]
    BY <1>5, TakenIs
  <2>2. \A i, j \in 1..(L - 1) : i < j => i + 1 \in 1..L /\ j + 1 \in 1..L /\ i + 1 < j + 1
    BY <2>1
  <2> QED BY <1>2, <2>1, <2>2
<1> QED BY <1>3, <1>4, <1>5, SemChanges

\* What is pending after a step was pending before or is new, with the next number; what was
\* pending before still is, or has been retired.
LEMMA NextPending ==
    ASSUME IInv, VerdictInv, TimelineSem = {}, [Next]_vars, NEW s \in BinarySem
    PROVE  /\ \A op \in Pending(sem'[s]) : op \in Pending(sem[s]) \/ op.payload = sem[s].next_payload
           /\ \A op \in Pending(sem[s]) : op \in Pending(sem'[s]) \/ (Taken(s) /\ op = Head(sem[s].operations))
<1>1. TypeOK
  BY DEF IInv
<1>2. CASE Kept(s)
  BY <1>2 DEF Kept, Pending
<1>3. CASE Grown(s)
  <2>1. PICK op \in SemOp, L \in Nat :
              /\ op.payload = sem[s].next_payload
              /\ DOMAIN sem[s].operations = 1..L /\ DOMAIN sem'[s].operations = 1..(L + 1)
              /\ sem'[s].operations[L + 1] = op
              /\ \A i \in 1..L : sem'[s].operations[i] = sem[s].operations[i]
    BY <1>1, <1>3, GrownIs
  <2>2. (\A i \in 1..(L + 1) : i \in 1..L \/ i = L + 1) /\ (\A i \in 1..L : i \in 1..(L + 1))
    BY <2>1
  <2> QED BY <2>1, <2>2 DEF Pending
<1>4. CASE Taken(s)
  <2>1. PICK L \in Nat :
              /\ L >= 1 /\ DOMAIN sem[s].operations = 1..L /\ DOMAIN sem'[s].operations = 1..(L - 1)
              /\ Head(sem[s].operations) = sem[s].operations[1]
              /\ \A i \in 1..(L - 1) : sem'[s].operations[i] = sem[s].operations[i + 1]
    BY <1>4, TakenIs
  <2>2. \A i \in 1..(L - 1) : i + 1 \in 1..L
    BY <2>1
  <2>3. \A i \in 1..L : i = 1 \/ (i - 1 \in 1..(L - 1) /\ (i - 1) + 1 = i)
    BY <2>1
  <2>4. \A op \in Pending(sem'[s]) : op \in Pending(sem[s])
    BY <2>1, <2>2 DEF Pending
  <2>5. ASSUME NEW op \in Pending(sem[s]) PROVE op \in Pending(sem'[s]) \/ op = Head(sem[s].operations)
    <3>1. PICK i \in 1..L : op = sem[s].operations[i]
      BY <2>1 DEF Pending
    <3>2. CASE i = 1
      BY <2>1, <3>1, <3>2
    <3>3. CASE i # 1
      <4>1. PICK j \in 1..(L - 1) : j + 1 = i
        BY <2>3, <3>3
      <4>2. j \in DOMAIN sem'[s].operations /\ sem'[s].operations[j] = op
        BY <2>1, <3>1, <4>1
      <4> QED BY <4>2 DEF Pending
    <3> QED BY <3>2, <3>3
  <2> QED BY <1>4, <2>4, <2>5
<1> QED BY <1>2, <1>3, <1>4, SemChanges

-----------------------------------------------------------------------------
(* How far the threads are *)

\* The steps of a thread from one part of a submission to the next.
Moves(q) == \/ ThreadPop(q) \/ ThreadEndUse(q) \/ ThreadLoopDone(q) \/ ThreadRetireCbs(q)
            \/ ThreadRetireFence(q) \/ ThreadComplete(q)

LEMMA ThreadKinds ==
    ASSUME IInv, IInv', HostFrames, TimelineSem = {}, [Next]_vars
    PROVE  \/ ThreadsStay /\ (tidx' = tidx \/ \E q \in Queue : RetireEnd(q))
           \/ \E h \in Host : SubmitPush(h)
           \/ \E q \in Queue : Moves(q)
<1>1. TypeOK /\ TypeOK'
  BY DEF IInv
<1>2. ASSUME NEW h \in Host, OtherStep(h) \/ OtherCall(h) \/ SubmitStep(h) \/ SemaphoreStep(h) \/ DriverAccept(h) \/ SubmitFence(h)
      PROVE  ThreadsStay /\ tidx' = tidx
  BY <1>2, OtherRetireKept
<1>3. ASSUME NEW h \in Host, NEW f \in Fence, WaitForFence(h, f) \/ FenceCall(h, f) PROVE ThreadsStay /\ tidx' = tidx
  BY <1>1, <1>3, FenceRetireKept
<1>4. ASSUME NEW a \in Actor, Retire(a) PROVE ThreadsStay /\ (tidx' = tidx \/ \E q \in Queue : RetireEnd(q))
  <2>1. a \in Queue
    BY <1>4, NoSemaphoreCall
  <2>2. ThreadsStay
    BY <1>1, <1>4, RetireStays
  <2> QED BY <1>4, <2>1, <2>2 DEF Retire, RetireAtOnce, RetireWaitOther, RetireResume, threadVars
<1>5. ASSUME NEW q \in Queue, ThreadSleep(q) \/ ThreadExit(q) \/ ThreadRetireSemaphore(q) \/ DeviceExecute(q)
      PROVE  ThreadsStay /\ tidx' = tidx
  BY <1>1, <1>5, ThreadStays DEF ThreadSleep, ThreadExit, ThreadRetireSemaphore, DeviceExecute, threadVars
<1>6. CASE UNCHANGED vars
  BY <1>6 DEF vars, queueVars, threadVars, ThreadsStay
<1>7. CASE Next
  <2>1. CASE \E h \in Host : OtherStep(h) \/ OtherCall(h) \/ SubmitStep(h) \/ SemaphoreStep(h)
    BY <1>2, <2>1
  <2>2. CASE \E h \in Host : DriverAccept(h) \/ SubmitFence(h) \/ SubmitPush(h)
    BY <1>2, <2>2
  <2>3. CASE \E h \in Host, f \in Fence : WaitForFence(h, f) \/ FenceCall(h, f)
    BY <1>3, <2>3
  <2>4. CASE \E a \in Actor : Retire(a)
    BY <1>4, <2>4
  <2>5. CASE \E q \in Queue : ThreadStep(q) \/ ThreadRetireFence(q) \/ DeviceExecute(q)
    BY <1>5, <2>5 DEF ThreadStep, Moves
  <2> QED BY <1>7, <2>1, <2>2, <2>3, <2>4, <2>5, NextCases
<1> QED BY <1>6, <1>7

\* Only one step retires command buffers.
LEMMA NextCbs ==
    ASSUME IInv, IInv', HostFrames, TimelineSem = {}, [Next]_vars, \A q \in Queue : ~ThreadRetireCbs(q)
    PROVE  \A q \in Queue : CbsRetired(q)' = CbsRetired(q)
<1>1. TypeOK /\ TypeOK'
  BY DEF IInv
<1>2. CASE ThreadsStay
  BY <1>2 DEF ThreadsStay, CbsRetired, OutPc
<1>3. ASSUME NEW h \in Host, SubmitPush(h) PROVE \A q \in Queue : CbsRetired(q)' = CbsRetired(q)
  <2>1. tcur' = tcur /\ done_' = done_
    BY <1>3 DEF SubmitPush
  <2>2. \A q \in Queue : tpc'[q] \in {"signals", "fence", "complete"} <=> tpc[q] \in {"signals", "fence", "complete"}
    BY <1>1, <1>3 DEF SubmitPush, TypeOK
  <2> QED BY <2>1, <2>2 DEF CbsRetired
<1>4. ASSUME NEW q \in Queue, Moves(q), ~ThreadRetireCbs(q) PROVE \A p \in Queue : CbsRetired(p)' = CbsRetired(p)
  <2>1. \A p \in Queue : p # q => tpc'[p] = tpc[p] /\ tcur'[p] = tcur[p] /\ done_'[p] = done_[p]
    BY <1>1, <1>4 DEF Moves, ThreadPop, ThreadEndUse, ThreadLoopDone, ThreadRetireFence, ThreadComplete, TypeOK
  <2>2. CASE ThreadPop(q) \/ ThreadEndUse(q)
    BY <1>1, <2>1, <2>2 DEF ThreadPop, ThreadEndUse, CbsRetired, TypeOK
  <2>3. CASE ThreadLoopDone(q) \/ ThreadRetireFence(q)
    BY <1>1, <2>1, <2>3 DEF ThreadLoopDone, ThreadRetireFence, CbsRetired, TypeOK
  <2>4. CASE ThreadComplete(q)
    BY <1>1, <2>1, <2>4 DEF ThreadComplete, CbsRetired, TypeOK
  <2> QED BY <1>4, <2>2, <2>3, <2>4 DEF Moves
<1> QED BY <1>2, <1>3, <1>4, ThreadKinds

\* It retires those of the next submission.
LEMMA RetireCbsNext ==
    ASSUME IInv, NEW q \in Queue, ThreadRetireCbs(q)
    PROVE  /\ CbsRetired(q) \in Nat /\ tcur[q].seq = CbsRetired(q) + 1 /\ CbsRetired(q)' = CbsRetired(q) + 1
           /\ \A p \in Queue : p # q => CbsRetired(p)' = CbsRetired(p)
<1>1. TypeOK /\ Numbering
  BY DEF IInv, Order
<1>2. tpc[q] = "cbs" /\ tpc'[q] = "signals" /\ tcur' = tcur /\ done_' = done_ /\ \A p \in Queue : p # q => tpc'[p] = tpc[p]
  BY <1>1 DEF ThreadRetireCbs, TypeOK
<1>3. tcur[q].seq = done_[q] + 1 /\ done_[q] \in Nat
  BY <1>1, <1>2 DEF Numbering, InThread, TypeOK
<1> QED BY <1>2, <1>3 DEF CbsRetired

LEMMA CbsForward ==
    ASSUME IInv, IInv', HostFrames, TimelineSem = {}, [Next]_vars, NEW q \in Queue, NEW n \in Nat, n <= CbsRetired(q)
    PROVE  n <= CbsRetired(q)'
<1>1. CASE \A p \in Queue : ~ThreadRetireCbs(p)
  BY <1>1, NextCbs
<1>2. ASSUME NEW p \in Queue, ThreadRetireCbs(p) PROVE n <= CbsRetired(q)'
  <2>1. CASE p = q
    <3>1. PICK c \in Nat : c = CbsRetired(q) /\ CbsRetired(q)' = c + 1
      BY <1>2, <2>1, RetireCbsNext
    <3> QED BY <3>1
  <2>2. CASE p # q
    BY <1>2, <2>2, RetireCbsNext
  <2> QED BY <2>1, <2>2
<1> QED BY <1>1, <1>2

-----------------------------------------------------------------------------
(* Signals that are no longer pending *)

\* A queue's Retire() takes a signal of its own only when the submission of the signal has
\* had its command buffers retired.
LEMMA TakenSignal ==
    ASSUME IInv, CallsIssued, OpsNumbered, BatchesOnce, ThreadFor, Retiring, NEW s \in BinarySem, Taken(s),
           NEW x \in IssuedOps, Signals(x), SemOf(x) = s, IsFor(Head(sem[s].operations), x)
    PROVE  x[2] <= CbsRetired(x[1])
<1>1. TypeOK /\ Numbering
  BY DEF IInv, Order
<1>2. PICK q \in Queue : RetireAtOnce(q) /\ RetiresHead(q, s, sem[s].operations)
  BY DEF Taken
<1>3. rpc[q] # "idle" /\ s = frame[q].semaphore
  BY <1>2 DEF RetireAtOnce, RetiresHead
<1>4. PICK op : op = Head(sem[s].operations) /\ op.payload <= frame[q].payload /\ op.queue \in {NoQueue, q}
  BY <1>2 DEF RetiresHead
<1>5. x[1] = q
  BY <1>1, <1>4, IssuedOpType, NoQueueAssumption DEF IsFor
<1>6. PICK y \in IssuedOps : /\ y[1] = q /\ y[2] = tcur[q].seq /\ (Signals(y) <=> tpc[q] = "signals")
                             /\ SemOf(y) = s /\ Number(y) = frame[q].payload
  BY <1>3, LoopOp DEF Retiring
<1>7. PICK m \in Nat, n \in Nat, nx \in Nat, ny \in Nat : m = x[2] /\ n = y[2] /\ nx = Number(x) /\ ny = Number(y)
  BY <1>1, IssuedOpType
<1>8. nx <= ny
  BY <1>4, <1>6, <1>7 DEF IsFor
<1>9. ~(n < m)
  <2>1. n < m => ny < nx
    BY <1>5, <1>6, <1>7 DEF OpsNumbered
  <2> QED BY <1>7, <1>8, <2>1
<1>10. tpc[q] \in {"waits", "signals"}
  BY <1>3 DEF Retiring
<1>11. CASE tpc[q] = "signals"
  BY <1>5, <1>6, <1>7, <1>9, <1>11 DEF CbsRetired
<1>12. CASE tpc[q] = "waits"
  <2>1. m # n
    <3> SUFFICES ASSUME m = n PROVE FALSE
      OBVIOUS
    <3>1. PICK b : /\ b = issued[q][n] /\ n \in DOMAIN issued[q] /\ b \in CB_SUBMISSION
                   /\ x[3] \in Ops(b) /\ y[3] \in Ops(b) /\ x = <<q, n, x[3]>> /\ y = <<q, n, y[3]>>
      BY <1>1, <1>5, <1>6, <1>7, IssuedOpIs, IssuedType
    <3>2. OpOn(b, x[3]) = s /\ OpOn(b, y[3]) = s
      BY <1>5, <1>6, <1>7, <3>1, OpInfoType DEF SemOf
    <3>3. x[3] = y[3]
      BY <3>1, <3>2 DEF BatchesOnce, NamesOnce
    <3> QED BY <1>6, <1>12, <3>1, <3>3
  <2>2. PICK d \in Nat : d = done_[q] /\ n = d + 1
    BY <1>1, <1>6, <1>7, <1>12 DEF Numbering, InThread, TypeOK
  <2>3. m <= d
    BY <1>7, <1>9, <2>1, <2>2
  <2> QED BY <1>5, <1>7, <1>12, <2>2, <2>3 DEF CbsRetired
<1> QED BY <1>10, <1>11, <1>12

\* An operation that a semaphore is told of is the new one, with the next number.
LEMMA NewlyTold ==
    ASSUME IInv, IInv', VerdictInv, TimelineSem = {}, OpsNumbered, CallInv, Telling, Telling', [Next]_vars, issued' = issued,
           NEW x \in IssuedOps, Told(x)', ~Told(x)
    PROVE  \E op \in Pending(sem'[SemOf(x)]) : IsFor(op, x)
<1>1. TypeOK /\ TypeOK' /\ HostFrames /\ AllBelow
  BY DEF IInv, VerdictInv
<1>2. PICK r \in BinarySem, v \in Nat : r = SemOf(x) /\ v = Number(x)
  BY <1>1, IssuedOpType DEF Sem
<1>3. ~(v < sem[r].next_payload)
  BY <1>2 DEF Telling
<1>4. v < sem'[r].next_payload
  BY <1>2, IssuedSame DEF Telling
<1>5. ASSUME NEW h \in Host, SubmitWait(h) \/ SubmitSignal(h) PROVE \E op \in Pending(sem'[r]) : IsFor(op, x)
  <2>1. PICK q, b, k, s, p : TellsOp(h, q, b, k, s, p)
    BY <1>1, <1>5, TellIs
  <2>2. seq_' = seq_
    BY <1>1, <1>5, TellIs DEF queueVars
  <2>3. PICK y : y = <<q, b.seq, k>>
    OBVIOUS
  <2>4. y \in IssuedOps /\ SemOf(y) = s /\ Number(y) = p /\ b.seq = seq_[q]
    BY <2>1, <2>3, TellNumber
  <2>5. x = y
    BY <2>1, <2>2, <2>3, <2>4, TellTold
  <2>6. PICK op \in SemOp : op.queue = q /\ op.seq = b.seq /\ op.payload = p /\ Appended(sem[s].operations, op, sem'[s].operations)
    BY <2>1 DEF TellsOp
  <2>7. op \in Pending(sem'[s])
    <3>1. sem[s].operations \in Seq(SemOp)
      BY <1>1, <1>2, <2>4, <2>5 DEF TypeOK, Sem, SemRecord
    <3>2. Len(sem[s].operations) + 1 \in 1..(Len(sem[s].operations) + 1)
      BY <3>1, LenProperties
    <3> QED BY <2>6, <3>2 DEF Appended, Pending
  <2>8. y[1] = q /\ y[2] = b.seq
    BY <2>3
  <2> QED BY <1>2, <2>4, <2>5, <2>6, <2>7, <2>8 DEF IsFor
<1>6. ASSUME NEW h \in Host, NEW s \in BinarySem, NEW f \in Fence, AcquireNextImage(h, s, f) PROVE FALSE
  <2>1. CallsStill
    BY <1>6 DEF AcquireNextImage, CallsStill, hostVars, queueVars
  <2> QED BY <2>1, StillTold DEF ToldSame
<1>7. CASE \A h \in Host : ~SubmitWait(h) /\ ~SubmitSignal(h)
  <2>1. sem'[r].next_payload = sem[r].next_payload
    BY <1>1, <1>6, <1>7, NextPayloads
  <2> QED BY <1>3, <1>4, <2>1
<1> QED BY <1>2, <1>5, <1>7

LEMMA AcceptTold ==
    ASSUME IInv, NEW h \in Host, DriverAccept(h)
    PROVE  ToldSame
<1>1. TypeOK
  BY DEF IInv
<1>2. seq_' = seq_ /\ OnlyHost(h) /\ hpc[h] = "driver" /\ hpc'[h] \in {"driver", "cbs"}
  BY <1>1, DriverAcceptCall DEF DriverAccept, queueVars, TypeOK
<1> QED BY <1>2, OutsideTold

LEMMA NextSignals ==
    ASSUME IInv, IInv', VerdictInv, TimelineSem = {}, NoSharing, ProgressInv, ProgressInv', Retiring, BatchesOnce, SignalsRetired,
           [Next]_vars
    PROVE  SignalsRetired'
<1>1. TypeOK /\ TypeOK' /\ HostFrames /\ CallsIssued /\ CallsIssued' /\ OpsNumbered /\ ThreadFor /\ Telling /\ CallInv
  BY DEF IInv, VerdictInv, ProgressInv, DeviceInv, LayerInv, CallInv, Recorded
<1>2. IssuedStays /\ (issued' = issued \/ \E h \in Host : DriverAccept(h))
  BY <1>1, NextIssued
<1>3. ASSUME NEW x \in IssuedOps, Signals(x), Told(x)
      PROVE  \/ x[2] <= CbsRetired(x[1])'
             \/ \E op \in Pending(sem'[SemOf(x)]) : IsFor(op, x)
  <2>1. x[1] \in Queue /\ x[2] \in Nat /\ SemOf(x) \in BinarySem
    BY <1>1, IssuedOpType DEF Sem
  <2>2. CASE x[2] <= CbsRetired(x[1])
    BY <1>1, <2>1, <2>2, CbsForward
  <2>3. ASSUME NEW op \in Pending(sem[SemOf(x)]), IsFor(op, x), op \notin Pending(sem'[SemOf(x)]) PROVE x[2] <= CbsRetired(x[1])
    <3>1. Taken(SemOf(x)) /\ op = Head(sem[SemOf(x)].operations)
      BY <2>1, <2>3, NextPending
    <3> QED BY <1>1, <1>3, <2>1, <2>3, <3>1, TakenSignal
  <2> QED BY <1>3, <2>2, <2>3 DEF SignalsRetired
<1>4. CASE issued' = issued
  <2> SUFFICES ASSUME NEW x \in IssuedOps, Signals(x), Told(x)'
               PROVE  \/ x[2] <= CbsRetired(x[1])'
                      \/ \E op \in Pending(sem'[SemOf(x)]) : IsFor(op, x)
    BY <1>4, IssuedSame DEF SignalsRetired, IsFor
  <2>1. CASE ~Told(x)
    <3>1. Telling'
      BY DEF ProgressInv, LayerInv
    <3> QED BY <1>1, <1>4, <2>1, <3>1, NewlyTold
  <2> QED BY <1>3, <2>1
<1>5. ASSUME NEW h \in Host, DriverAccept(h) PROVE SignalsRetired'
  <2>1. seq_' = seq_ /\ \A q \in Queue : CbsRetired(q)' = CbsRetired(q)
    BY <1>5 DEF DriverAccept, queueVars, threadVars, CbsRetired
  <2>2. sem' = sem
    BY <1>5 DEF DriverAccept
  <2> SUFFICES ASSUME NEW x \in IssuedOps', Signals(x)', Told(x)'
               PROVE  \/ x[2] <= CbsRetired(x[1])'
                      \/ \E op \in Pending(sem'[SemOf(x)']) : IsFor(op, x)'
    BY DEF SignalsRetired
  <2>3. x \in IssuedOps
    <3>1. x = <<x[1], x[2], x[3]>> /\ x[1] \in Queue /\ x[2] \in DOMAIN issued'[x[1]] /\ x[3] \in Ops(issued'[x[1]][x[2]])
      BY DEF IssuedOps
    <3>2. x[2] <= seq_[x[1]] /\ seq_[x[1]] <= Len(issued[x[1]]) /\ seq_[x[1]] \in Nat /\ DOMAIN issued[x[1]] = 1..Len(issued[x[1]])
          /\ Len(issued[x[1]]) \in Nat /\ DOMAIN issued'[x[1]] = 1..Len(issued'[x[1]]) /\ Len(issued'[x[1]]) \in Nat
      <4>1. x[2] <= seq_[x[1]]
        BY <2>1 DEF Told
      <4>2. issued[x[1]] \in Seq(CB_SUBMISSION) /\ issued'[x[1]] \in Seq(CB_SUBMISSION)
        BY <1>1, <3>1 DEF TypeOK
      <4> QED BY <1>1, <3>1, <4>1, <4>2, NumbersIssued, QueueLengths, LenProperties
    <3>3. PICK m \in Nat, n \in Nat, L \in Nat, K \in Nat :
             /\ m = x[2] /\ n = seq_[x[1]] /\ L = Len(issued[x[1]]) /\ K = Len(issued'[x[1]]) /\ m \in 1..K /\ m <= n /\ n <= L
      BY <3>1, <3>2
    <3>4. x[2] \in DOMAIN issued[x[1]]
      BY <3>2, <3>3
    <3>5. issued'[x[1]][x[2]] = issued[x[1]][x[2]]
      BY <1>2, <3>1, <3>4 DEF IssuedStays
    <3> QED BY <3>1, <3>4, <3>5, IssuedOpIs
  <2>4. SemOf(x)' = SemOf(x) /\ (Signals(x)' <=> Signals(x)) /\ \A op : IsFor(op, x)' <=> IsFor(op, x)
    BY <1>2, <2>3 DEF IssuedStays, IsFor
  <2>5. Told(x)
    BY <1>1, <1>5, <2>3, AcceptTold DEF ToldSame
  <2> QED BY <1>3, <2>2, <2>3, <2>4, <2>5
<1> QED BY <1>2, <1>4, <1>5

-----------------------------------------------------------------------------
(* Waits that are retired *)

\* The operations of the submission that a thread has in hand are told.
LEMMA ThreadTold ==
    ASSUME IInv, NEW q \in Queue, InThread(q), NEW k
    PROVE  Told(<<q, tcur[q].seq, k>>)
<1>1. TypeOK /\ Numbering
  BY DEF IInv, Order
<1>2. PICK n \in Nat, m \in Nat, l \in Nat : n = tcur[q].seq /\ m = seq_[q] /\ l = Len(submissions_[q])
  <2>1. tcur[q] \in CB_SUBMISSION /\ submissions_[q] \in Seq(CB_SUBMISSION) /\ seq_[q] \in Nat
    BY <1>1 DEF TypeOK
  <2> QED BY <2>1, LenProperties DEF CB_SUBMISSION
<1>3. n + l + (IF Pushing(q) THEN 1 ELSE 0) = m
  BY <1>1, <1>2 DEF Numbering, Popped
<1>4. n <= m
  BY <1>2, <1>3
<1>5. ASSUME NEW h \in Host, hpc[h] = "enqueue", call[h].queue = q PROVE n # m
  <2>1. Pushing(q)
    BY <1>5 DEF Pushing, PushPc
  <2>2. n + l + 1 = m
    BY <1>3, <2>1
  <2> QED BY <1>2, <2>2
<1> QED BY <1>2, <1>4, <1>5 DEF Told

\* A thread comes to have retired a wait only by the last step of its Retire().
LEMMA ClearedStep ==
    ASSUME IInv, IInv', HostFrames, TimelineSem = {}, Retiring, [Next]_vars,
           NEW q \in Queue, NEW i \in Nat, i >= 1, i <= Len(tcur'[q].wait_semaphores), Cleared(q, i)'
    PROVE  tcur'[q] = tcur[q] /\ (Cleared(q, i) \/ (RetireEnd(q) /\ tpc[q] = "waits" /\ i = tidx[q] + 1))
<1>1. TypeOK /\ TypeOK'
  BY DEF IInv
<1>2. tpc'[q] \in {"waits", "cbs"} /\ tidx[q] \in Nat
  BY <1>1 DEF Cleared, TypeOK
<1>3. CASE ThreadsStay /\ tidx' = tidx
  BY <1>2, <1>3 DEF ThreadsStay, OutPc, Cleared
<1>4. ASSUME ThreadsStay, NEW p \in Queue, RetireEnd(p)
      PROVE  tcur'[q] = tcur[q] /\ (Cleared(q, i) \/ (RetireEnd(q) /\ tpc[q] = "waits" /\ i = tidx[q] + 1))
  <2>1. tcur'[q] = tcur[q] /\ tpc'[q] = tpc[q]
    BY <1>2, <1>4 DEF ThreadsStay, OutPc
  <2>2. tidx' = [tidx EXCEPT ![p] = @ + 1]
    BY <1>4 DEF RetireEnd
  <2>3. CASE p # q
    <3>1. tidx'[q] = tidx[q]
      BY <1>1, <2>2, <2>3 DEF TypeOK
    <3> QED BY <2>1, <3>1 DEF Cleared
  <2>4. CASE p = q
    <3>1. tidx'[q] = tidx[q] + 1
      BY <1>1, <2>2, <2>4 DEF TypeOK
    <3>2. CASE tpc[q] = "cbs"
      BY <2>1, <3>2 DEF Cleared
    <3>3. CASE tpc[q] = "waits"
      <4>1. i <= tidx[q] + 1
        BY <2>1, <3>1, <3>3 DEF Cleared
      <4>2. i <= tidx[q] \/ i = tidx[q] + 1
        BY <1>2, <4>1
      <4> QED BY <1>4, <2>1, <2>4, <3>3, <4>2 DEF Cleared
    <3> QED BY <1>2, <2>1, <3>2, <3>3
  <2> QED BY <2>3, <2>4
<1>5. ASSUME NEW h \in Host, SubmitPush(h) PROVE tcur'[q] = tcur[q] /\ Cleared(q, i)
  <2>1. tcur' = tcur /\ tidx' = tidx
    BY <1>5 DEF SubmitPush
  <2>2. tpc'[q] = tpc[q]
    BY <1>1, <1>2, <1>5 DEF SubmitPush, TypeOK
  <2> QED BY <2>1, <2>2 DEF Cleared
<1>6. ASSUME NEW p \in Queue, Moves(p) PROVE tcur'[q] = tcur[q] /\ Cleared(q, i)
  <2>1. CASE p # q
    <3>1. tpc'[q] = tpc[q] /\ tcur'[q] = tcur[q] /\ tidx'[q] = tidx[q]
      BY <1>1, <1>6, <2>1 DEF Moves, ThreadPop, ThreadEndUse, ThreadLoopDone, ThreadRetireCbs, ThreadRetireFence,
         ThreadComplete, TypeOK
    <3> QED BY <3>1 DEF Cleared
  <2>2. CASE ThreadPop(q) \/ ThreadRetireCbs(q) \/ ThreadRetireFence(q) \/ ThreadComplete(q)
    <3>1. tpc'[q] \in {"enduse", "signals", "complete", "next"}
      BY <1>1, <2>2 DEF ThreadPop, ThreadRetireCbs, ThreadRetireFence, ThreadComplete, TypeOK
    <3> QED BY <1>2, <3>1
  <2>3. CASE ThreadEndUse(q)
    <3>1. tpc'[q] = "waits" /\ tidx'[q] = 0
      BY <1>1, <2>3 DEF ThreadEndUse, TypeOK
    <3> QED BY <3>1 DEF Cleared
  <2>4. CASE ThreadLoopDone(q)
    <3>1. tcur' = tcur /\ tpc'[q] = (IF tpc[q] = "waits" THEN "cbs" ELSE "fence") /\ tidx[q] = Len(LoopSemaphores(q))
      BY <1>1, <2>4 DEF ThreadLoopDone, TypeOK
    <3>2. tpc[q] = "waits"
      BY <1>2, <3>1
    <3>3. i <= tidx[q]
      BY <3>1, <3>2 DEF LoopSemaphores
    <3> QED BY <3>1, <3>2, <3>3 DEF Cleared
  <2> QED BY <1>6, <2>1, <2>2, <2>3, <2>4 DEF Moves
<1> QED BY <1>3, <1>4, <1>5, <1>6, ThreadKinds

LEMMA NextCleared ==
    ASSUME IInv, IInv', VerdictInv, TimelineSem = {}, CallsIssued, ThreadFor, Telling, Retiring, Sorted, WaitsCleared, [Next]_vars
    PROVE  WaitsCleared'
<1>1. TypeOK /\ TypeOK' /\ HostFrames
  BY DEF IInv, VerdictInv
<1> SUFFICES ASSUME NEW q \in Queue, NEW i \in DOMAIN tcur'[q].wait_semaphores, Cleared(q, i)',
                    NEW op \in Pending(sem'[tcur'[q].wait_semaphores[i].semaphore])
             PROVE  tcur'[q].wait_semaphores[i].payload < op.payload
  BY DEF WaitsCleared
<1>2. i \in Nat /\ i >= 1 /\ i <= Len(tcur'[q].wait_semaphores)
  <2>1. tcur'[q].wait_semaphores \in Seq(SemInfo)
    BY <1>1 DEF TypeOK, CB_SUBMISSION
  <2> QED BY <2>1, LenProperties
<1>3. tcur'[q] = tcur[q] /\ (Cleared(q, i) \/ (RetireEnd(q) /\ tpc[q] = "waits" /\ i = tidx[q] + 1))
  BY <1>1, <1>2, ClearedStep
<1>4. InThread(q)
  <2>1. tpc[q] \in {"waits", "cbs"}
    BY <1>3 DEF Cleared
  <2> QED BY <2>1 DEF InThread
<1>5. PICK w : w = tcur[q].wait_semaphores[i]
  OBVIOUS
<1>6. PICK y \in IssuedOps : y = <<q, tcur[q].seq, i>> /\ SemOf(y) = w.semaphore /\ Number(y) = w.payload
  <2>1. PICK n, t : n = tcur[q].seq /\ t = tcur[q] /\ n \in DOMAIN issued[q] /\ SameSems(t, issued[q][n])
    BY <1>4, NumbersIssued DEF ThreadFor
  <2> QED BY <1>1, <1>3, <1>5, <2>1, SemsOps
<1>7. PICK s \in BinarySem, p \in Nat, v \in Nat : s = w.semaphore /\ p = w.payload /\ v = sem[s].next_payload
  <2>1. SemOf(y) \in BinarySem /\ SemOf(y) \in Sem /\ Number(y) \in Nat
    BY <1>1, IssuedOpType DEF Sem
  <2>2. sem[SemOf(y)].next_payload \in Nat
    BY <1>1, <2>1 DEF TypeOK, SemRecord
  <2> QED BY <1>6, <2>1, <2>2
<1>8. p < v
  BY <1>4, <1>6, <1>7, ThreadTold DEF Telling
<1>9. op \in Pending(sem'[s])
  BY <1>3, <1>5, <1>7
<1>10. CASE op \notin Pending(sem[s])
  BY <1>3, <1>5, <1>7, <1>8, <1>9, <1>10, NextPending
<1>11. CASE op \in Pending(sem[s]) /\ Cleared(q, i)
  BY <1>3, <1>5, <1>7, <1>11 DEF WaitsCleared
<1>12. CASE op \in Pending(sem[s]) /\ RetireEnd(q) /\ tpc[q] = "waits" /\ i = tidx[q] + 1
  <2>1. frame[q].semaphore = s /\ frame[q].payload = p
    BY <1>5, <1>7, <1>12 DEF RetireEnd, Retiring, LoopSemaphores
  <2>2. ~RetireCovers(sem[s], p)
    BY <1>12, <2>1 DEF RetireEnd
  <2>3. sem[s].operations \in Seq(SemOp)
    BY <1>1 DEF TypeOK, Sem, SemRecord
  <2>4. PICK L \in Nat : L = Len(sem[s].operations) /\ DOMAIN sem[s].operations = 1..L
    BY <2>3, LenProperties
  <2>5. PICK j \in 1..L : op = sem[s].operations[j]
    BY <1>12, <2>4 DEF Pending
  <2>6. sem[s].operations # << >> /\ Head(sem[s].operations) = sem[s].operations[1] /\ 1 \in 1..L
    <3>1. L >= 1
      BY <2>5
    <3> QED BY <2>3, <2>4, <3>1, HeadTailProperties, EmptySeq
  <2>7. PICK a \in Nat, c \in Nat : a = sem[s].operations[1].payload /\ c = op.payload
    <3>1. sem[s].operations[1] \in SemOp /\ op \in SemOp
      BY <2>3, <2>4, <2>5, <2>6, ElementOfSeq
    <3> QED BY <3>1 DEF SemOp
  <2>8. ~(a <= p)
    BY <2>2, <2>6, <2>7 DEF RetireCovers
  <2>9. a <= c
    <3>1. CASE j = 1
      BY <2>5, <2>7, <3>1
    <3>2. CASE j # 1
      <4>1. 1 < j
        BY <2>5, <3>2
      <4>2. a < c
        BY <2>4, <2>5, <2>6, <2>7, <4>1 DEF Sorted
      <4> QED BY <2>7, <4>2
    <3> QED BY <3>1, <3>2
  <2>10. p < c
    BY <1>7, <2>7, <2>8, <2>9
  <2> QED BY <1>3, <1>5, <1>7, <2>7, <2>10
<1> QED BY <1>3, <1>10, <1>11, <1>12

-----------------------------------------------------------------------------
(* The invariant of retirement in order *)

LEMMA InitRetirement ==
    ASSUME Init
    PROVE  OrderInv
<1>1. \A q \in Queue : issued[q] = << >> /\ tpc[q] = "none"
  BY DEF Init
<1>2. IssuedOps = {} /\ \A q \in Queue : DOMAIN issued[q] = {}
  BY <1>1 DEF IssuedOps
<1>3. \A s \in BinarySem : DOMAIN sem[s].operations = {}
  BY DEF Init, NewSemaphore, Sem
<1> QED BY <1>1, <1>2, <1>3 DEF OrderInv, BatchesOnce, Sorted, SignalsRetired, WaitsCleared, Cleared

LEMMA NextRetirement ==
    ASSUME IInv, IInv', VerdictInv, TimelineSem = {}, NoSharing, ProgressInv, ProgressInv', Retiring, OrderInv, [Next]_vars
    PROVE  OrderInv'
<1>1. HostFrames /\ CallsOnce /\ BatchesOnce /\ CallsIssued /\ ThreadFor /\ Telling
  BY DEF VerdictInv, ProgressInv, CallInv, OrderInv, LayerInv, Recorded
<1>2. BatchesOnce'
  BY <1>1, NextOnce
<1>3. Sorted'
  BY NextSorted DEF OrderInv
<1>4. SignalsRetired'
  BY NextSignals DEF OrderInv
<1>5. WaitsCleared'
  BY <1>1, NextCleared DEF OrderInv
<1> QED BY <1>2, <1>3, <1>4, <1>5 DEF OrderInv

\* The signals of a binary semaphore are retired in the order in which the device executed
\* them, each by the queue it is from, and a submission's waits have nothing pending before
\* them once its thread has retired them.
THEOREM OrderInvAlways ==
    ASSUME TimelineSem = {}, CallsNameOnce,
           {"vkImportFenceFdKHR", "vkGetFenceFdKHR", "vkGetFenceFdKHR_SYNC_FD"} \cap ApiUsed = {}
    PROVE  Spec => []OrderInv
<1>1. NoSharing
  BY Zenon DEF NoSharing, Uses
<1>2. Spec => [](ProgressInv /\ Retiring)
  BY ProgressAlways
<1>3. IInv /\ IInv' /\ VerdictInv /\ ProgressInv /\ Retiring /\ ProgressInv' /\ OrderInv /\ [Next]_vars => OrderInv'
  BY <1>1, NextRetirement
<1>4. Init => OrderInv
  BY InitRetirement
<1> QED BY <1>2, <1>3, <1>4, Invariance, VerdictAlways, PTL DEF Spec

-----------------------------------------------------------------------------
(* What is asked for *)

LEMMA NextRequests ==
    ASSUME IInv, HostFrames, TimelineSem = {}, NoSharing, [Next]_vars
    PROVE  request_seq_' = request_seq_ \/ \E q \in Queue, n \in Nat : Notify(q, n)
<1>1. TypeOK
  BY DEF IInv
<1>2. ASSUME NEW h \in Host, OtherStep(h) PROVE request_seq_' = request_seq_ \/ \E q \in Queue, n \in Nat : Notify(q, n)
  <2>1. ~SemaphoreWait(h) /\ ~SemaphorePoke(h) /\ ~SemaphoreReady(h) /\ ~RetireTimelineEnqueue(h)
    BY NoSemaphoreCall DEF SemaphoreWait, SemaphorePoke, SemaphoreReady, RetireTimelineEnqueue, SemaphorePc
  <2>2. CASE QueueNotify(h)
    <3>1. PICK q, n : /\ q = call[h].queue /\ hpc[h] = "qnotify" /\ Notify(q, n)
                      /\ n = IF call[h].until = AllSeq THEN seq_[q] ELSE call[h].until
      BY <2>2 DEF QueueNotify
    <3>2. q \in Queue
      BY <1>1, <3>1, CallQueue DEF QueuePc, IdlePc
    <3>3. seq_[q] \in Nat /\ call[h].until \in Nat
      BY <1>1, <3>2, CallFields DEF TypeOK, Call
    <3> QED BY <3>1, <3>2, <3>3
  <2>3. CASE ~QueueNotify(h)
    BY <1>2, <2>1, <2>3 DEF OtherStep, QueueWait, QueueWaitReady, FenceWaitReady, DestroyNotify, DestroyJoin, queueVars
  <2> QED BY <2>2, <2>3
<1>3. ASSUME NEW h \in Host, NEW f \in Fence, WaitForFence(h, f)
      PROVE  request_seq_' = request_seq_ \/ \E q \in Queue, n \in Nat : Notify(q, n)
  <2>1. FenceNotifiesQueue(fence[f]) => fence[f].queue \in Queue /\ fence[f].seq \in Nat
    BY <1>1 DEF FenceNotifiesQueue, TypeOK, FenceRecord
  <2> QED BY <1>3, <2>1 DEF WaitForFence
<1>4. ASSUME NEW h \in Host, NEW f \in Fence, FenceCall(h, f) PROVE request_seq_' = request_seq_
  BY <1>4 DEF FenceCall, ResetFence, ImportFence, ExportFence, AcquireNextImage, queueVars
<1>5. ASSUME NEW a \in Actor, Retire(a) PROVE request_seq_' = request_seq_ \/ \E q \in Queue, n \in Nat : Notify(q, n)
  <2>1. CASE request_seq_' # request_seq_
    <3>1. a \in Queue
      BY <1>5, NoSemaphoreCall
    <3>2. PICK s, op : s = frame[a].semaphore /\ op = Head(sem[s].operations)
      OBVIOUS
    <3>3. op.queue # NoQueue /\ Notify(op.queue, op.seq) /\ RetireCovers(sem[s], frame[a].payload) /\ rpc[a] # "idle"
      <4>1. CASE RetireAtOnce(a)
        BY <2>1, <3>2, <4>1 DEF RetireAtOnce
      <4>2. CASE RetireWaitOther(a)
        BY <3>2, <4>2 DEF RetireWaitOther, RetiresAtOnce
      <4> QED BY <1>5, <2>1, <4>1, <4>2 DEF Retire, RetireResume, RetireEnd, queueVars
    <3>4. s \in Sem
      BY <1>1, <1>5, <3>2, <3>3 DEF TypeOK, Frame
    <3>5. sem[s].operations \in Seq(SemOp) /\ sem[s].operations # << >>
      BY <1>1, <3>3, <3>4 DEF TypeOK, SemRecord, RetireCovers
    <3>6. op \in SemOp
      BY <3>2, <3>5, HeadTailProperties
    <3> QED BY <3>3, <3>6 DEF SemOp
  <2> QED BY <2>1
<1>6. ASSUME NEW q \in Queue, ThreadStep(q) \/ ThreadRetireFence(q) \/ DeviceExecute(q) PROVE request_seq_' = request_seq_
  BY <1>6 DEF ThreadStep, ThreadSleep, ThreadPop, ThreadExit, ThreadEndUse, ThreadRetireSemaphore, ThreadLoopDone,
              ThreadRetireCbs, ThreadComplete, ThreadRetireFence, DeviceExecute, queueVars
<1>7. ASSUME NEW h \in Host, SubmitPush(h) PROVE request_seq_' = request_seq_
  BY <1>7 DEF SubmitPush
<1>8. CASE UNCHANGED vars
  BY <1>8 DEF vars, queueVars
<1>9. CASE Next
  <2>1. CASE \E h \in Host : OtherStep(h) \/ OtherCall(h) \/ SubmitStep(h) \/ SemaphoreStep(h)
    BY <1>2, <2>1, HostQuiet
  <2>2. CASE \E h \in Host : DriverAccept(h) \/ SubmitFence(h) \/ SubmitPush(h)
    BY <1>7, <2>2, HostQuiet
  <2>3. CASE \E h \in Host, f \in Fence : WaitForFence(h, f) \/ FenceCall(h, f)
    BY <1>3, <1>4, <2>3
  <2>4. CASE \E a \in Actor : Retire(a)
    BY <1>5, <2>4
  <2>5. CASE \E q \in Queue : ThreadStep(q) \/ ThreadRetireFence(q) \/ DeviceExecute(q)
    BY <1>6, <2>5
  <2> QED BY <1>9, <2>1, <2>2, <2>3, <2>4, <2>5, NextCases
<1> QED BY <1>8, <1>9

\* A request is never withdrawn.
LEMMA RequestsGrow ==
    ASSUME IInv, HostFrames, TimelineSem = {}, NoSharing, [Next]_vars, NEW q \in Queue
    PROVE  request_seq_[q] <= request_seq_'[q]
<1>1. request_seq_ \in [Queue -> Nat]
  BY DEF IInv, TypeOK
<1>2. CASE request_seq_' = request_seq_
  BY <1>1, <1>2
<1>3. ASSUME NEW p \in Queue, NEW n \in Nat, Notify(p, n) PROVE request_seq_[q] <= request_seq_'[q]
  <2>1. request_seq_'[q] \in {request_seq_[q], Max2(request_seq_[q], n)}
    BY <1>1, <1>3 DEF Notify
  <2> QED BY <1>1, <2>1 DEF Max2
<1> QED BY <1>2, <1>3, NextRequests

\* Only the device executes batches.
LEMMA NextExecuted ==
    ASSUME IInv, HostFrames, TimelineSem = {}, NoSharing, [Next]_vars
    PROVE  executed' = executed \/ \E q \in Queue : DeviceExecute(q)
<1>1. ASSUME NEW h \in Host, SubmitStep(h) \/ DriverAccept(h) \/ SubmitFence(h) \/ SubmitPush(h) PROVE executed' = executed
  BY <1>1, HostQuiet, SubmitDevice DEF DeviceStill
<1>2. ASSUME NEW h \in Host, NEW s \in BinarySem, NEW f \in Fence, AcquireNextImage(h, s, f) PROVE executed' = executed
  BY <1>2 DEF AcquireNextImage
<1> QED BY <1>1, <1>2, StepKinds DEF DeviceStill

-----------------------------------------------------------------------------
(* The steps of Retirement *)

\* Batch b waits for a semaphore that batch c signals.
Unblocks(b, c) == \E w \in Elements(b.wait_semaphores), v \in Elements(c.signal_semaphores) :
                     v.semaphore = w.semaphore /\ v.payload = w.payload - 1

LEMMA BatchSems ==
    ASSUME TimelineSem = {}, NEW b \in CB_SUBMISSION
    PROVE  /\ \A w \in Elements(b.wait_semaphores) : w.semaphore \in BinarySem /\ w.payload \in Nat
           /\ \A v \in Elements(b.signal_semaphores) : v.semaphore \in BinarySem /\ v.payload \in Nat
<1>1. b.wait_semaphores \in Seq(SemInfo) /\ b.signal_semaphores \in Seq(SemInfo)
  BY DEF CB_SUBMISSION
<1>2. \A w \in Elements(b.wait_semaphores) \cup Elements(b.signal_semaphores) : w \in SemInfo
  BY <1>1, ElementOfSeq, LenProperties DEF Elements
<1> QED BY <1>2 DEF SemInfo, Sem

LEMMA BatchIs ==
    ASSUME TypeOK, NEW x \in Batches
    PROVE  x = <<x[1], x[2]>> /\ x[1] \in Queue /\ x[2] \in DOMAIN issued[x[1]] /\ Batch(x) \in CB_SUBMISSION
<1>1. x = <<x[1], x[2]>> /\ x[1] \in Queue /\ x[2] \in 1..MaxSeq /\ x[2] <= Len(issued[x[1]])
  BY DEF Batches
<1>2. PICK L \in Nat, n \in Nat : L = Len(issued[x[1]]) /\ n = x[2] /\ n >= 1 /\ n <= L
  BY <1>1, IssuedType
<1>3. x[2] \in 1..L
  BY <1>2
<1> QED BY <1>1, <1>2, <1>3, IssuedType DEF Batch

LEMMA WaitsForIs ==
    ASSUME TypeOK, TimelineSem = {}, NEW x \in Batches, NEW y \in Batches
    PROVE  WaitsFor(x, y) <=> Unblocks(Batch(x), Batch(y))
<1>1. \A v \in Elements(Batch(y).signal_semaphores) : v.semaphore \in BinarySem
  BY BatchIs, BatchSems
<1> QED BY <1>1 DEF WaitsFor, Unblocks, Releases

\* A batch waits for another by an operation whose number comes next to that of a signal.
LEMMA NeedIs ==
    ASSUME TypeOK, TimelineSem = {}, NEW pair \in Needs
    PROVE  \E q, n, i : \E o \in IssuedOps, r \in IssuedOps :
              /\ pair[1] = <<q, n>> /\ o = <<q, n, i>> /\ i \in DOMAIN issued[q][n].wait_semaphores
              /\ pair[2] = <<r[1], r[2]>> /\ Signals(r)
              /\ SemOf(r) = SemOf(o) /\ Number(r) = Number(o) - 1
              /\ SemOf(o) = issued[q][n].wait_semaphores[i].semaphore
              /\ Number(o) = issued[q][n].wait_semaphores[i].payload
<1>1. PICK x, y : x = pair[1] /\ y = pair[2] /\ x \in Batches /\ y \in Batches /\ WaitsFor(x, y)
  BY DEF Needs
<1>2. PICK q, n, b : q = x[1] /\ n = x[2] /\ b = Batch(x)
  OBVIOUS
<1>3. PICK p, m, c : p = y[1] /\ m = y[2] /\ c = Batch(y)
  OBVIOUS
<1>4. x = <<q, n>> /\ q \in Queue /\ n \in DOMAIN issued[q] /\ b = issued[q][n]
  BY <1>1, <1>2, BatchIs DEF Batch
<1>5. y = <<p, m>> /\ p \in Queue /\ m \in DOMAIN issued[p] /\ c = issued[p][m]
  BY <1>1, <1>3, BatchIs DEF Batch
<1>6. PICK w \in Elements(b.wait_semaphores), v \in Elements(c.signal_semaphores) : v.semaphore = w.semaphore /\ v.payload = w.payload - 1
  BY <1>1, <1>2, <1>3, WaitsForIs DEF Unblocks
<1>7. PICK i : i \in DOMAIN b.wait_semaphores /\ w = b.wait_semaphores[i]
  BY DEF Elements
<1>8. PICK j : j \in DOMAIN c.signal_semaphores /\ v = c.signal_semaphores[j]
  BY DEF Elements
<1>9. SameSems(b, issued[q][n]) /\ SameSems(c, issued[p][m])
  BY <1>4, <1>5 DEF SameSems
<1>10. PICK o \in IssuedOps : o = <<q, n, i>> /\ SemOf(o) = w.semaphore /\ Number(o) = w.payload
  BY <1>4, <1>7, <1>9, SemsOps
<1>11. PICK r \in IssuedOps : /\ r = <<p, m, Len(c.wait_semaphores) + j>> /\ Signals(r)
                              /\ SemOf(r) = v.semaphore /\ Number(r) = v.payload
  BY <1>5, <1>8, <1>9, SemsOps
<1>12. r[1] = p /\ r[2] = m
  BY <1>11
<1> QED BY <1>1, <1>4, <1>5, <1>6, <1>7, <1>10, <1>11, <1>12

\* A batch that waits for another has its command buffers retired after those of the other.
LEMMA RetireReady ==
    ASSUME IInv, TimelineSem = {}, CallsIssued, ThreadFor, Telling, SignalsRetired, WaitsCleared,
           NEW q \in Queue, ThreadRetireCbs(q), NEW pair \in Needs, pair[1] = <<q, tcur[q].seq>>
    PROVE  pair[2][2] <= CbsRetired(pair[2][1])
<1>1. TypeOK /\ tpc[q] = "cbs" /\ InThread(q)
  BY DEF IInv, ThreadRetireCbs, InThread
<1>2. PICK n, i : \E o \in IssuedOps, r \in IssuedOps :
              /\ pair[1] = <<q, n>> /\ o = <<q, n, i>> /\ i \in DOMAIN issued[q][n].wait_semaphores
              /\ pair[2] = <<r[1], r[2]>> /\ Signals(r)
              /\ SemOf(r) = SemOf(o) /\ Number(r) = Number(o) - 1
              /\ SemOf(o) = issued[q][n].wait_semaphores[i].semaphore
              /\ Number(o) = issued[q][n].wait_semaphores[i].payload
  BY <1>1, NeedIs
<1>3. PICK o \in IssuedOps, r \in IssuedOps :
              /\ pair[1] = <<q, n>> /\ o = <<q, n, i>> /\ i \in DOMAIN issued[q][n].wait_semaphores
              /\ pair[2] = <<r[1], r[2]>> /\ Signals(r)
              /\ SemOf(r) = SemOf(o) /\ Number(r) = Number(o) - 1
              /\ SemOf(o) = issued[q][n].wait_semaphores[i].semaphore
              /\ Number(o) = issued[q][n].wait_semaphores[i].payload
  BY <1>2
<1>4. n = tcur[q].seq
  BY <1>3
<1>5. PICK w : w = tcur[q].wait_semaphores[i] /\ i \in DOMAIN tcur[q].wait_semaphores
  BY <1>1, <1>3, <1>4 DEF ThreadFor, SameSems
<1>6. SemOf(o) = w.semaphore /\ Number(o) = w.payload
  BY <1>1, <1>3, <1>4, <1>5 DEF ThreadFor, SameSems
<1>7. PICK s \in BinarySem, p \in Nat, m \in Nat, v \in Nat :
         s = SemOf(o) /\ p = Number(o) /\ m = Number(r) /\ v = sem[s].next_payload /\ m = p - 1
  <2>1. SemOf(o) \in BinarySem /\ SemOf(o) \in Sem /\ Number(o) \in Nat /\ Number(r) \in Nat
    BY <1>1, IssuedOpType DEF Sem
  <2>2. sem[SemOf(o)].next_payload \in Nat
    BY <1>1, <2>1 DEF TypeOK, SemRecord
  <2> QED BY <1>3, <2>1, <2>2
<1>8. p < v
  BY <1>1, <1>3, <1>4, <1>7, ThreadTold DEF Telling
<1>9. Told(r)
  <2>1. m < v
    BY <1>7, <1>8
  <2> QED BY <1>3, <1>7, <2>1 DEF Telling
<1>10. ASSUME NEW op \in Pending(sem[s]), IsFor(op, r) PROVE FALSE
  <2>1. Cleared(q, i)
    BY <1>1 DEF Cleared
  <2>2. w.payload < op.payload
    BY <1>5, <1>6, <1>7, <1>10, <2>1 DEF WaitsCleared
  <2>3. p < m
    BY <1>6, <1>7, <1>10, <2>2 DEF IsFor
  <2> QED BY <1>7, <2>3
<1>11. r[2] <= CbsRetired(r[1])
  BY <1>3, <1>7, <1>9, <1>10 DEF SignalsRetired
<1> QED BY <1>3, <1>11

\* The device executes a batch after what it waits for.
LEMMA FinishReady ==
    ASSUME TypeOK, TimelineSem = {}, OpsExecuted, NEW q \in Queue, DeviceExecute(q),
           NEW pair \in Needs, pair[1] = <<q, executed[q] + 1>>
    PROVE  pair[2][2] <= executed[pair[2][1]]
<1>1. PICK n, i : \E o \in IssuedOps, r \in IssuedOps :
              /\ pair[1] = <<q, n>> /\ o = <<q, n, i>> /\ i \in DOMAIN issued[q][n].wait_semaphores
              /\ pair[2] = <<r[1], r[2]>> /\ Signals(r)
              /\ SemOf(r) = SemOf(o) /\ Number(r) = Number(o) - 1
              /\ SemOf(o) = issued[q][n].wait_semaphores[i].semaphore
              /\ Number(o) = issued[q][n].wait_semaphores[i].payload
  BY NeedIs
<1>2. PICK o \in IssuedOps, r \in IssuedOps :
              /\ pair[1] = <<q, n>> /\ o = <<q, n, i>> /\ i \in DOMAIN issued[q][n].wait_semaphores
              /\ pair[2] = <<r[1], r[2]>> /\ Signals(r)
              /\ SemOf(r) = SemOf(o) /\ Number(r) = Number(o) - 1
              /\ SemOf(o) = issued[q][n].wait_semaphores[i].semaphore
              /\ Number(o) = issued[q][n].wait_semaphores[i].payload
  BY <1>1
<1>3. n = executed[q] + 1
  BY <1>2
<1>4. PICK w : w = issued[q][n].wait_semaphores[i]
  OBVIOUS
<1>5. Satisfied(w)
  <2>1. w \in Elements(issued[q][n].wait_semaphores)
    BY <1>2, <1>4 DEF Elements
  <2> QED BY <1>3, <2>1 DEF DeviceExecute
<1>6. SemOf(o) \in BinarySem /\ Number(r) \in Nat /\ Number(o) \in Nat
  BY IssuedOpType DEF Sem
<1>7. vk_sem[SemOf(r)] = Number(r)
  BY <1>2, <1>4, <1>5, <1>6 DEF Satisfied
<1>8. Number(r) <= vk_sem[SemOf(r)]
  BY <1>6, <1>7
<1>9. r[2] <= executed[r[1]]
  BY <1>8 DEF OpsExecuted
<1> QED BY <1>2, <1>9

LEMMA NeedsSame ==
    ASSUME issued' = issued
    PROVE  Needs' = Needs
<1>1. Batches' = Batches /\ \A x : Batch(x)' = Batch(x)
  BY DEF Batches, Batch
<1>2. \A v, w : Releases(v, w)' <=> Releases(v, w)
  BY <1>1 DEF Releases
<1>3. \A x, y : WaitsFor(x, y)' <=> WaitsFor(x, y)
  BY <1>1, <1>2 DEF WaitsFor
<1> QED BY <1>1, <1>3 DEF Needs

\* The state of Retirement does not change.
LEMMA Unseen ==
    ASSUME issued' = issued, executed' = executed, request_seq_' = request_seq_, \A q \in Queue : CbsRetired(q)' = CbsRetired(q)
    PROVE  UNCHANGED Abstract!vars
<1>1. [q \in Queue |-> Len(issued[q])]' = [q \in Queue |-> Len(issued[q])]
  OBVIOUS
<1>2. [q \in Queue |-> CbsRetired(q)]' = [q \in Queue |-> CbsRetired(q)]
  OBVIOUS
<1>3. Needs' = Needs
  BY NeedsSame
<1> QED BY <1>1, <1>2, <1>3 DEF Abstract!vars

LEMMA Asks ==
    ASSUME issued' = issued, executed' = executed, \A q \in Queue : CbsRetired(q)' = CbsRetired(q),
           IInv, IInv', HostFrames, TimelineSem = {}, NoSharing, AskedFor', [Next]_vars, request_seq_' # request_seq_
    PROVE  Abstract!Ask
<1>1. TypeOK /\ TypeOK'
  BY DEF IInv
<1>2. request_seq_' \in [Queue -> Nat]
  BY <1>1 DEF TypeOK
<1>3. \A q \in Queue : request_seq_'[q] \in request_seq_[q]..executed[q]
  <2> SUFFICES ASSUME NEW q \in Queue PROVE request_seq_'[q] \in request_seq_[q]..executed[q]
    OBVIOUS
  <2>1. request_seq_'[q] \in Nat /\ request_seq_[q] \in Nat /\ executed[q] \in Nat
    BY <1>1, <1>2 DEF TypeOK
  <2>2. request_seq_[q] <= request_seq_'[q]
    BY RequestsGrow
  <2>3. request_seq_'[q] <= executed[q]
    BY DEF AskedFor
  <2> QED BY <2>1, <2>2, <2>3
<1>4. [q \in Queue |-> Len(issued[q])]' = [q \in Queue |-> Len(issued[q])]
  OBVIOUS
<1>5. [q \in Queue |-> CbsRetired(q)]' = [q \in Queue |-> CbsRetired(q)]
  OBVIOUS
<1>6. Needs' = Needs
  BY NeedsSame
<1>7. DOMAIN request_seq_' = Queue
  BY <1>2
<1> QED BY <1>3, <1>4, <1>5, <1>6, <1>7 DEF Abstract!Ask

\* ThreadRetireCbs(q) retires the next batch of q.
LEMMA Retires ==
    ASSUME IInv, ProgressInv, OrderInv, TimelineSem = {}, NEW q \in Queue, ThreadRetireCbs(q)
    PROVE  Abstract!Retire(q)
<1>1. PICK c \in Nat : /\ c = CbsRetired(q) /\ tcur[q].seq = c + 1 /\ CbsRetired(q)' = c + 1
                       /\ \A p \in Queue : p # q => CbsRetired(p)' = CbsRetired(p)
  BY RetireCbsNext
<1>2. issued' = issued /\ executed' = executed /\ request_seq_' = request_seq_
  BY DEF ThreadRetireCbs, deviceVars, queueVars
<1>3. [p \in Queue |-> CbsRetired(p)]' = [[p \in Queue |-> CbsRetired(p)] EXCEPT ![q] = @ + 1]
  BY <1>1
<1>4. c < request_seq_[q]
  <2>1. InThread(q) /\ request_seq_[q] \in Nat
    BY DEF ThreadRetireCbs, InThread, IInv, TypeOK
  <2>2. c + 1 <= request_seq_[q]
    BY <1>1, <2>1 DEF ProgressInv, LayerInv, InTime, AskedFor, Popped
  <2> QED BY <1>1, <2>1, <2>2
<1>5. \A pair \in Needs : pair[1] = <<q, c + 1>> => pair[2][2] <= CbsRetired(pair[2][1]) /\ pair[2][1] \in Queue
  <2> SUFFICES ASSUME NEW pair \in Needs, pair[1] = <<q, c + 1>>
               PROVE  pair[2][2] <= CbsRetired(pair[2][1]) /\ pair[2][1] \in Queue
    OBVIOUS
  <2>1. pair[2][1] \in Queue
    BY DEF Needs, Batches
  <2> QED BY <1>1, <2>1, RetireReady DEF ProgressInv, CallInv, LayerInv, Recorded, OrderInv
<1>6. [p \in Queue |-> Len(issued[p])]' = [p \in Queue |-> Len(issued[p])]
  BY <1>2
<1>7. Needs' = Needs
  BY <1>2, NeedsSame
<1>8. Abstract!CanRetire(q)
  BY <1>1, <1>4, <1>5 DEF Abstract!CanRetire, Abstract!Ready, Abstract!Reached
<1> QED BY <1>2, <1>3, <1>6, <1>7, <1>8 DEF Abstract!Retire

\* DeviceExecute(q) finishes the next batch of q.
LEMMA Finishes ==
    ASSUME IInv, ProgressInv, TimelineSem = {}, NEW q \in Queue, DeviceExecute(q)
    PROVE  Abstract!Finish(q)
<1>1. TypeOK /\ OpsExecuted
  BY DEF IInv, ProgressInv, DeviceInv
<1>2. issued' = issued /\ request_seq_' = request_seq_ /\ executed' = [executed EXCEPT ![q] = @ + 1] /\ executed[q] < Len(issued[q])
  BY DEF DeviceExecute, queueVars
<1>3. \A p \in Queue : CbsRetired(p)' = CbsRetired(p)
  BY DEF DeviceExecute, threadVars, CbsRetired
<1>4. \A pair \in Needs : pair[1] = <<q, executed[q] + 1>> => pair[2][2] <= executed[pair[2][1]]
  BY <1>1, FinishReady
<1>5. [p \in Queue |-> Len(issued[p])]' = [p \in Queue |-> Len(issued[p])]
  BY <1>2
<1>6. [p \in Queue |-> CbsRetired(p)]' = [p \in Queue |-> CbsRetired(p)]
  BY <1>3
<1>7. Needs' = Needs
  BY <1>2, NeedsSame
<1>8. Abstract!Ready(<<q, executed[q] + 1>>, executed)
  BY <1>4 DEF Abstract!Ready, Abstract!Reached
<1> QED BY <1>2, <1>5, <1>6, <1>7, <1>8 DEF Abstract!Finish

\* DriverAccept(h) accepts a batch.
LEMMA Accepts ==
    ASSUME IInv, IInv', TimelineSem = {}, NEW h \in Host, DriverAccept(h)
    PROVE  \E q \in Queue : Abstract!Accept(q)
<1>1. TypeOK /\ TypeOK'
  BY DEF IInv
<1>2. PICK q, b, n : q = call[h].queue /\ b = call[h].batches[call[h].idx + 1] /\ n = Len(issued[q]) + 1
  OBVIOUS
<1>3. /\ q \in Queue /\ n \in Nat /\ n > 0 /\ DOMAIN issued'[q] = 1..n /\ Len(issued'[q]) = n
      /\ \A m \in 1..(n - 1) : m \in DOMAIN issued[q] /\ issued'[q][m] = issued[q][m]
      /\ \A p \in Queue : p # q => issued'[p] = issued[p]
  <2>1. AcceptOf(h, q, b, n)
    BY <1>1, <1>2 DEF AcceptOf
  <2>2. BatchAdded(q, b, n) /\ OpsAdded(q, b, n)
    BY <1>1, <1>2, <2>1, AcceptIssued
  <2> QED BY <1>1, <1>2, <2>2 DEF BatchAdded, OpsAdded
<1>4. executed' = executed /\ request_seq_' = request_seq_ /\ \A p \in Queue : CbsRetired(p)' = CbsRetired(p)
  BY DEF DriverAccept, queueVars, threadVars, CbsRetired
<1>5. PICK L \in Nat : L = Len(issued[q]) /\ n = L + 1
  BY <1>1, <1>2, <1>3, QueueLengths
<1>6. [p \in Queue |-> Len(issued[p])]' = [[p \in Queue |-> Len(issued[p])] EXCEPT ![q] = @ + 1]
  BY <1>2, <1>3
<1>7. [p \in Queue |-> CbsRetired(p)]' = [p \in Queue |-> CbsRetired(p)]
  BY <1>4
<1>8. ASSUME NEW x \in Batches PROVE x \in Batches' /\ Batch(x)' = Batch(x)
  <2>1. x = <<x[1], x[2]>> /\ x[1] \in Queue /\ x[2] \in 1..MaxSeq /\ x[2] <= Len(issued[x[1]])
    BY DEF Batches
  <2>2. CASE x[1] = q
    <3>1. PICK m \in Nat : m = x[2] /\ m >= 1 /\ m <= L
      BY <1>1, <1>5, <2>1, <2>2, BatchIs, IssuedType
    <3>2. m \in 1..(n - 1) /\ m <= n
      BY <1>5, <3>1
    <3> QED BY <1>3, <2>1, <2>2, <3>1, <3>2 DEF Batches, Batch
  <2>3. CASE x[1] # q
    BY <1>3, <2>1, <2>3 DEF Batches, Batch
  <2> QED BY <2>2, <2>3
<1>9. ASSUME NEW x \in Batches', x \notin Batches PROVE x = <<q, n>>
  <2>1. x = <<x[1], x[2]>> /\ x[1] \in Queue /\ x[2] \in 1..MaxSeq /\ x[2] <= Len(issued'[x[1]])
    BY DEF Batches
  <2>2. ~(x[2] <= Len(issued[x[1]]))
    BY <1>9, <2>1 DEF Batches
  <2>3. x[1] = q
    BY <1>3, <2>1, <2>2
  <2>4. PICK m \in Nat : m = x[2]
    BY <2>1, QueueStateAssumption
  <2>5. m <= L + 1 /\ ~(m <= L)
    BY <1>3, <1>5, <2>1, <2>2, <2>3, <2>4
  <2>6. m = n
    BY <1>5, <2>4, <2>5
  <2> QED BY <2>1, <2>3, <2>4, <2>6
<1>10. ASSUME NEW x \in Batches, NEW y \in Batches PROVE WaitsFor(x, y)' <=> WaitsFor(x, y)
  <2>1. \A v \in Elements(Batch(y).signal_semaphores) : v.semaphore \in BinarySem
    BY <1>1, <1>10, BatchIs, BatchSems
  <2>2. \A v, w : v.semaphore \in BinarySem => (Releases(v, w)' <=> Releases(v, w))
    BY DEF Releases
  <2>3. Batch(x)' = Batch(x) /\ Batch(y)' = Batch(y)
    BY <1>8
  <2> QED BY <2>1, <2>2, <2>3 DEF WaitsFor
<1>11. Needs \subseteq Needs'
  BY <1>8, <1>10 DEF Needs
<1>12. \A pair \in Needs' \ Needs : <<q, n>> \in {pair[1], pair[2]}
  BY <1>9, <1>10 DEF Needs
<1>13. [p \in Queue |-> Len(issued[p])]'[q] = n
  BY <1>3
<1>14. Abstract!Accept(q)
  BY <1>4, <1>6, <1>7, <1>11, <1>12, <1>13 DEF Abstract!Accept
<1> QED BY <1>3, <1>14

\* Every step of the queue tracking is a step of Retirement, or none of its business.
LEMMA StepRefines ==
    ASSUME IInv, IInv', VerdictInv, TimelineSem = {}, NoSharing, ProgressInv, ProgressInv', OrderInv, [Next]_vars
    PROVE  [Abstract!Next]_(Abstract!vars)
<1>1. HostFrames /\ TypeOK /\ AskedFor'
  BY DEF VerdictInv, IInv, ProgressInv, LayerInv, InTime
<1>2. ASSUME NEW q \in Queue, ThreadRetireCbs(q) PROVE [Abstract!Next]_(Abstract!vars)
  BY <1>2, Retires DEF Abstract!Next
<1>3. ASSUME NEW q \in Queue, DeviceExecute(q) PROVE [Abstract!Next]_(Abstract!vars)
  BY <1>3, Finishes DEF Abstract!Next
<1>4. ASSUME NEW h \in Host, DriverAccept(h) PROVE [Abstract!Next]_(Abstract!vars)
  BY <1>4, Accepts DEF Abstract!Next
<1>5. CASE /\ \A q \in Queue : ~ThreadRetireCbs(q) /\ ~DeviceExecute(q)
           /\ \A h \in Host : ~DriverAccept(h)
  <2>1. issued' = issued /\ executed' = executed /\ \A q \in Queue : CbsRetired(q)' = CbsRetired(q)
    BY <1>1, <1>5, NextIssued, NextExecuted, NextCbs
  <2>2. CASE request_seq_' = request_seq_
    BY <2>1, <2>2, Unseen
  <2>3. CASE request_seq_' # request_seq_
    BY <1>1, <2>1, <2>3, Asks DEF Abstract!Next
  <2> QED BY <2>2, <2>3
<1> QED BY <1>2, <1>3, <1>4, <1>5

LEMMA InitRefines ==
    ASSUME Init
    PROVE  Abstract!Init
<1>1. /\ executed = [q \in Queue |-> 0] /\ request_seq_ = [q \in Queue |-> 0]
      /\ \A q \in Queue : Len(issued[q]) = 0 /\ CbsRetired(q) = 0
  BY DEF Init, CbsRetired
<1>2. [q \in Queue |-> Len(issued[q])] = [q \in Queue |-> 0] /\ [q \in Queue |-> CbsRetired(q)] = [q \in Queue |-> 0]
  BY <1>1
<1>3. Needs = {}
  BY <1>1 DEF Needs, Batches
<1> QED BY <1>1, <1>2, <1>3 DEF Abstract!Init

\* The detailed specification implements the safety part of the abstract one: through every
\* interleaving of host threads, queue threads, semaphore locks and the device, request_seq_
\* only asks for what the device has finished, and ThreadFunc() retires one batch at a time,
\* in the order of the queue, after what was asked for and after what the batch waited for.
THEOREM Refinement ==
    ASSUME TimelineSem = {}, CallsNameOnce,
           {"vkImportFenceFdKHR", "vkGetFenceFdKHR", "vkGetFenceFdKHR_SYNC_FD"} \cap ApiUsed = {}
    PROVE  Spec => RefinesRetirement
<1>1. NoSharing
  BY Zenon DEF NoSharing, Uses
<1>2. Spec => [](ProgressInv /\ Retiring)
  BY ProgressAlways
<1>3. Spec => []OrderInv
  BY OrderInvAlways
<1>4. Init => Abstract!Init
  BY InitRefines
<1>5. IInv /\ IInv' /\ VerdictInv /\ ProgressInv /\ ProgressInv' /\ OrderInv /\ [Next]_vars => [Abstract!Next]_(Abstract!vars)
  BY <1>1, StepRefines
<1> QED BY <1>2, <1>3, <1>4, <1>5, Invariance, VerdictAlways, PTL DEF Spec, RefinesRetirement
=============================================================================
