----------------------------- MODULE DeviceProofs ----------------------------
(* What the driver has accepted, the device executed and the calls under way  *)
(* still have to tell: DeviceInv and CallInv are kept, for any number of      *)
(* queues, host threads, fences and binary semaphores.                        *)
EXTENDS RetirementInv, VerdictProofs

\* What is assumed of the application: it uses no timeline semaphores, it shares no fence
\* with another process or API, and a batch names a semaphore once.
CallsNameOnce == \A q \in Queue : \A bs \in Calls[q] : \A i \in DOMAIN bs : NamesOnce(bs[i])

-----------------------------------------------------------------------------
(* Issued operations *)

LEMMA OpInfoType ==
    ASSUME NEW b \in CB_SUBMISSION, NEW k \in Ops(b)
    PROVE  /\ OpInfo(b, k) \in SemInfo /\ OpOn(b, k) = OpInfo(b, k).semaphore /\ k \in Nat /\ k >= 1
           /\ IsWait(b, k) => k \in DOMAIN b.wait_semaphores
           /\ ~IsWait(b, k) => k - Len(b.wait_semaphores) \in DOMAIN b.signal_semaphores
<1>1. PICK ws \in Seq(SemInfo), ss \in Seq(SemInfo) : ws = b.wait_semaphores /\ ss = b.signal_semaphores
  BY DEF CB_SUBMISSION
<1>2. /\ Len(ws) \in Nat /\ DOMAIN ws = 1..Len(ws) /\ \A i \in 1..Len(ws) : ws[i] \in SemInfo
      /\ Len(ss) \in Nat /\ DOMAIN ss = 1..Len(ss) /\ \A i \in 1..Len(ss) : ss[i] \in SemInfo
  BY LenProperties, ElementOfSeq
<1>3. k \in 1..(Len(ws) + Len(ss)) /\ (IsWait(b, k) <=> k <= Len(ws))
  BY <1>1 DEF Ops, IsWait
<1>4. CASE IsWait(b, k)
  <2>1. k \in 1..Len(ws)
    BY <1>2, <1>3, <1>4
  <2> QED BY <1>1, <1>2, <1>4, <2>1 DEF OpInfo, OpOn
<1>5. CASE ~IsWait(b, k)
  <2>1. k - Len(ws) \in 1..Len(ss) /\ k \in Nat /\ k >= 1
    BY <1>2, <1>3, <1>5
  <2> QED BY <1>1, <1>2, <1>5, <2>1 DEF OpInfo, OpOn
<1> QED BY <1>4, <1>5

LEMMA IssuedOpIs ==
    /\ \A x \in IssuedOps : /\ x = <<x[1], x[2], x[3]>> /\ x[1] \in Queue /\ x[2] \in DOMAIN issued[x[1]]
                            /\ x[3] \in Ops(issued[x[1]][x[2]])
    /\ \A q \in Queue : \A n \in DOMAIN issued[q] : \A k \in Ops(issued[q][n]) : <<q, n, k>> \in IssuedOps
BY DEF IssuedOps

LEMMA IssuedType ==
    ASSUME TypeOK, NEW q \in Queue
    PROVE  /\ issued[q] \in Seq(CB_SUBMISSION) /\ Len(issued[q]) \in Nat /\ DOMAIN issued[q] = 1..Len(issued[q])
           /\ \A n \in DOMAIN issued[q] : issued[q][n] \in CB_SUBMISSION
<1>1. issued[q] \in Seq(CB_SUBMISSION)
  BY DEF TypeOK
<1> QED BY <1>1, LenProperties, ElementOfSeq

LEMMA IssuedOpType ==
    ASSUME TypeOK, NEW x \in IssuedOps
    PROVE  SemOf(x) \in Sem /\ Number(x) \in Nat /\ x[1] \in Queue /\ x[2] \in 1..Len(issued[x[1]]) /\ x[2] \in Nat
           /\ Len(issued[x[1]]) \in Nat
<1>1. /\ x[1] \in Queue /\ x[2] \in DOMAIN issued[x[1]] /\ x[3] \in Ops(issued[x[1]][x[2]])
  BY IssuedOpIs
<1>2. issued[x[1]][x[2]] \in CB_SUBMISSION /\ x[2] \in 1..Len(issued[x[1]]) /\ Len(issued[x[1]]) \in Nat
  BY <1>1, IssuedType
<1>3. OpInfo(issued[x[1]][x[2]], x[3]) \in SemInfo
  BY <1>1, <1>2, OpInfoType
<1> QED BY <1>1, <1>2, <1>3 DEF SemOf, Number, SemInfo

LEMMA IssuedSame ==
    ASSUME issued' = issued
    PROVE  /\ IssuedOps' = IssuedOps
           /\ \A x : SemOf(x)' = SemOf(x) /\ Number(x)' = Number(x) /\ (Signals(x)' <=> Signals(x))
BY DEF IssuedOps, SemOf, Number, Signals, IsWait, OpInfo

-----------------------------------------------------------------------------
(* The driver accepts a batch *)

NumberedBatch(b, n) == [b EXCEPT !.wait_semaphores = NumberedSeq(b.wait_semaphores),
                                 !.signal_semaphores = NumberedSeq(b.signal_semaphores), !.seq = n]

LEMMA NumberedIs ==
    ASSUME app_sem \in [Sem -> Nat], TimelineSem = {}, NEW b \in CB_SUBMISSION, NEW n \in Nat, NEW c, c = NumberedBatch(b, n)
    PROVE  /\ SameOps(c, b) /\ c.fence = b.fence /\ Ops(c) = Ops(b)
           /\ \A k \in Ops(b) : /\ OpInfo(c, k).semaphore = OpOn(b, k) /\ OpInfo(c, k).payload = app_sem[OpOn(b, k)] + 1
                                /\ IsWait(c, k) <=> IsWait(b, k)
<1>1. PICK ws \in Seq(SemInfo), ss \in Seq(SemInfo) : ws = b.wait_semaphores /\ ss = b.signal_semaphores
  BY DEF CB_SUBMISSION
<1>2. c.wait_semaphores = NumberedSeq(ws) /\ c.signal_semaphores = NumberedSeq(ss) /\ c.fence = b.fence
  BY <1>1 DEF CB_SUBMISSION, NumberedBatch
<1>3. \A w \in SemInfo : Numbered(w).semaphore = w.semaphore /\ Numbered(w).payload = app_sem[w.semaphore] + 1
  BY DEF Numbered, SemInfo, Sem
<1>4. \A s \in Seq(SemInfo) : /\ NumberedSeq(s) \in Seq(SemInfo) /\ Len(NumberedSeq(s)) = Len(s)
                              /\ \A i \in DOMAIN s : NumberedSeq(s)[i] = Numbered(s[i]) /\ s[i] \in SemInfo
  <2> TAKE s \in Seq(SemInfo)
  <2>1. NumberedSeq(s) \in Seq(SemInfo)
    BY NumberedSeqType
  <2>2. DOMAIN NumberedSeq(s) = DOMAIN s /\ \A i \in DOMAIN s : NumberedSeq(s)[i] = Numbered(s[i])
    BY DEF NumberedSeq
  <2>3. \A i \in DOMAIN s : s[i] \in SemInfo
    BY LenProperties, ElementOfSeq
  <2> QED BY <2>1, <2>2, <2>3, SameLength
<1>5. Len(c.wait_semaphores) = Len(ws) /\ Len(c.signal_semaphores) = Len(ss)
  BY <1>2, <1>4
<1>6. Ops(c) = Ops(b) /\ \A k : IsWait(c, k) <=> IsWait(b, k)
  BY <1>1, <1>5 DEF Ops, IsWait
<1>7. ASSUME NEW k \in Ops(b)
      PROVE  /\ OpInfo(c, k).semaphore = OpOn(b, k) /\ OpInfo(c, k).payload = app_sem[OpOn(b, k)] + 1
             /\ OpOn(c, k) = OpOn(b, k)
  <2>1. OpOn(b, k) = OpInfo(b, k).semaphore
    BY OpInfoType
  <2>2. CASE IsWait(b, k)
    <3>1. k \in DOMAIN ws
      BY <1>1, <2>2, OpInfoType
    <3>2. OpInfo(c, k) = Numbered(ws[k]) /\ OpInfo(b, k) = ws[k] /\ ws[k] \in SemInfo
      BY <1>1, <1>2, <1>4, <1>6, <2>2, <3>1 DEF OpInfo
    <3>3. OpOn(c, k) = OpInfo(c, k).semaphore
      BY <1>6, <2>2 DEF OpInfo, OpOn
    <3> QED BY <1>3, <2>1, <3>2, <3>3
  <2>3. CASE ~IsWait(b, k)
    <3>1. k - Len(ws) \in DOMAIN ss
      BY <1>1, <2>3, OpInfoType
    <3>2. OpInfo(c, k) = Numbered(ss[k - Len(ws)]) /\ OpInfo(b, k) = ss[k - Len(ws)] /\ ss[k - Len(ws)] \in SemInfo
      BY <1>1, <1>2, <1>4, <1>5, <1>6, <2>3, <3>1 DEF OpInfo
    <3>3. OpOn(c, k) = OpInfo(c, k).semaphore
      BY <1>6, <2>3 DEF OpInfo, OpOn
    <3> QED BY <1>3, <2>1, <3>2, <3>3
  <2> QED BY <2>2, <2>3
<1>8. SameOps(c, b)
  BY <1>1, <1>5, <1>6, <1>7 DEF SameOps
<1> QED BY <1>2, <1>6, <1>7, <1>8

\* The driver accepts batch b of a call of h, as number n of queue q, with its operations.
AcceptOf(h, q, b, n) ==
    q = call[h].queue /\ b = call[h].batches[call[h].idx + 1] /\ n = Len(issued[q]) + 1
BatchAdded(q, b, n) ==
    /\ q \in Queue /\ n \in Nat /\ n > 0 /\ b \in CB_SUBMISSION
    /\ DOMAIN issued'[q] = 1..n /\ Len(issued'[q]) = n /\ SameBatch(issued'[q][n], b)
    /\ \A m \in 1..(n - 1) : m \in DOMAIN issued[q] /\ issued'[q][m] = issued[q][m]
    /\ \A p \in Queue : p # q => issued'[p] = issued[p]
OpsAdded(q, b, n) ==
    /\ \A k \in Ops(b) : <<q, n, k>> \in IssuedOps'
    /\ \A x \in IssuedOps : /\ x \in IssuedOps' /\ SemOf(x)' = SemOf(x) /\ Number(x)' = Number(x)
                            /\ Signals(x)' <=> Signals(x)
                            /\ x[1] = q => x[2] < n
    /\ \A x \in IssuedOps' : x \notin IssuedOps =>
          /\ x[1] = q /\ x[2] = n /\ x[3] \in Ops(b) /\ x = <<q, n, x[3]>>
          /\ SemOf(x)' = OpOn(b, x[3]) /\ Number(x)' = app_sem[OpOn(b, x[3])] + 1
          /\ Signals(x)' <=> ~IsWait(b, x[3])

LEMMA AcceptIssued ==
    ASSUME TypeOK, TimelineSem = {}, NEW h \in Host, DriverAccept(h), NEW q, NEW b, NEW n, AcceptOf(h, q, b, n)
    PROVE  BatchAdded(q, b, n) /\ OpsAdded(q, b, n)
<1>13. PICK c : c = NumberedBatch(b, n)
  OBVIOUS
<1>12. q = call[h].queue /\ b = call[h].batches[call[h].idx + 1] /\ n = Len(issued[q]) + 1
  BY DEF AcceptOf
<1>1. c = NumberedBatch(b, n)
  BY <1>13
<1>2. q \in Queue /\ b \in CB_SUBMISSION
  <2>1. hpc[h] \in QueuePc
    BY DEF DriverAccept, QueuePc, SubmitPc
  <2>2. call[h].queue \in Queue
    BY <2>1 DEF TypeOK
  <2> QED BY <1>12, <2>2, AcceptLeft
<1>3. issued' = [issued EXCEPT ![q] = Append(issued[q], c)]
  BY <1>1, <1>12 DEF DriverAccept, NumberedBatch
<1>4. issued[q] \in Seq(CB_SUBMISSION) /\ n \in Nat /\ n > 0 /\ Len(issued[q]) = n - 1 /\ DOMAIN issued[q] = 1..(n - 1)
  BY <1>2, <1>12, IssuedType
<1>5. /\ SameOps(c, b) /\ c.fence = b.fence /\ Ops(c) = Ops(b)
      /\ \A k \in Ops(b) : /\ OpInfo(c, k).semaphore = OpOn(b, k) /\ OpInfo(c, k).payload = app_sem[OpOn(b, k)] + 1
                           /\ IsWait(c, k) <=> IsWait(b, k)
  <2>1. app_sem \in [Sem -> Nat]
    BY DEF TypeOK
  <2>2. n \in Nat /\ b \in CB_SUBMISSION
    BY <1>2, <1>4
  <2> QED BY <1>1, <2>1, <2>2, NumberedIs
<1>6. issued'[q] = Append(issued[q], c) /\ \A p \in Queue : p # q => issued'[p] = issued[p]
  BY <1>2, <1>3 DEF TypeOK
<1>7. /\ DOMAIN issued'[q] = 1..n /\ issued'[q][n] = c /\ \A m \in 1..(n - 1) : issued'[q][m] = issued[q][m]
      /\ Len(issued'[q]) = n
  BY <1>4, <1>6, AppendProperties
<1>11. \A p \in Queue : /\ \A m \in DOMAIN issued[p] : m \in DOMAIN issued'[p] /\ issued'[p][m] = issued[p][m] /\ (p = q => m < n)
                        /\ \A m \in DOMAIN issued'[p] : p # q \/ m # n => m \in DOMAIN issued[p] /\ issued'[p][m] = issued[p][m]
  <2> TAKE p \in Queue
  <2>1. CASE p # q
    BY <1>6, <2>1
  <2>2. CASE p = q
    <3>1. \A m : m \in 1..(n - 1) <=> m \in 1..n /\ m # n /\ m < n
      BY <1>4
    <3>2. \A m \in DOMAIN issued[q] : m \in DOMAIN issued'[q] /\ issued'[q][m] = issued[q][m] /\ m < n
      BY <1>4, <1>7, <3>1
    <3>3. \A m \in DOMAIN issued'[q] : m # n => m \in DOMAIN issued[q] /\ issued'[q][m] = issued[q][m]
      BY <1>4, <1>7, <3>1
    <3> QED BY <2>2, <3>2, <3>3
  <2> QED BY <2>1, <2>2
<1>8. \A k \in Ops(b) : <<q, n, k>> \in IssuedOps'
  <2>1. n \in DOMAIN issued'[q] /\ Ops(issued'[q][n]) = Ops(b)
    BY <1>4, <1>5, <1>7
  <2> QED BY <1>2, <2>1 DEF IssuedOps
<1>9. ASSUME NEW x \in IssuedOps
      PROVE  /\ x \in IssuedOps' /\ SemOf(x)' = SemOf(x) /\ Number(x)' = Number(x)
             /\ Signals(x)' <=> Signals(x)
             /\ x[1] = q => x[2] < n
  <2>1. x[1] \in Queue /\ x[2] \in DOMAIN issued[x[1]] /\ x[3] \in Ops(issued[x[1]][x[2]])
    BY IssuedOpIs
  <2>4. x = <<x[1], x[2], x[3]>>
    BY IssuedOpIs
  <2>2. x[2] \in DOMAIN issued'[x[1]] /\ issued'[x[1]][x[2]] = issued[x[1]][x[2]] /\ (x[1] = q => x[2] < n)
    BY <1>11, <2>1
  <2>3. <<x[1], x[2], x[3]>> \in IssuedOps'
    BY <2>1, <2>2 DEF IssuedOps
  <2> QED BY <2>2, <2>3, <2>4 DEF SemOf, Number, Signals
<1>10. ASSUME NEW x \in IssuedOps', x \notin IssuedOps
       PROVE  /\ x[1] = q /\ x[2] = n /\ x[3] \in Ops(b) /\ x = <<q, n, x[3]>>
              /\ SemOf(x)' = OpOn(b, x[3]) /\ Number(x)' = app_sem[OpOn(b, x[3])] + 1
              /\ Signals(x)' <=> ~IsWait(b, x[3])
  <2>1. x[1] \in Queue /\ x[2] \in DOMAIN issued'[x[1]] /\ x[3] \in Ops(issued'[x[1]][x[2]])
    BY DEF IssuedOps
  <2>4. x = <<x[1], x[2], x[3]>>
    BY DEF IssuedOps
  <2>2. CASE x[1] # q \/ x[2] # n
    <3>1. x[2] \in DOMAIN issued[x[1]] /\ issued'[x[1]][x[2]] = issued[x[1]][x[2]]
      BY <1>11, <2>1, <2>2
    <3>2. <<x[1], x[2], x[3]>> \in IssuedOps
      BY <2>1, <3>1, IssuedOpIs
    <3> QED BY <1>10, <2>4, <3>2
  <2>3. CASE x[1] = q /\ x[2] = n
    <3>1. issued'[x[1]][x[2]] = c
      BY <1>7, <2>3
    <3> QED BY <1>5, <2>1, <2>3, <2>4, <3>1 DEF SemOf, Number, Signals
  <2> QED BY <2>2, <2>3
<1>14. BatchAdded(q, b, n)
  <2>1. \A m \in 1..(n - 1) : m \in DOMAIN issued[q] /\ issued'[q][m] = issued[q][m]
    BY <1>4, <1>7
  <2>2. SameBatch(issued'[q][n], b)
    BY <1>5, <1>7 DEF SameBatch
  <2> QED BY <1>2, <1>4, <1>6, <1>7, <2>1, <2>2 DEF BatchAdded
<1>15. OpsAdded(q, b, n)
  BY <1>8, <1>9, <1>10 DEF OpsAdded
<1> QED BY <1>14, <1>15

LEMMA AcceptSems ==
    ASSUME TypeOK, TimelineSem = {}, NEW h \in Host, DriverAccept(h), NEW b, b = call[h].batches[call[h].idx + 1],
           NEW s \in Sem
    PROVE  /\ app_sem[s] \in Nat
           /\ (\E k \in Ops(b) : OpOn(b, k) = s) => app_sem'[s] = app_sem[s] + 1
           /\ (\A k \in Ops(b) : OpOn(b, k) # s) => app_sem'[s] = app_sem[s]
<1>1. b \in CB_SUBMISSION /\ app_sem[s] \in Nat /\ s \in BinarySem
  <2>1. PICK n : n = call[h].idx + 1 /\ b = call[h].batches[n]
    OBVIOUS
  <2>2. b \in CB_SUBMISSION
    BY <2>1, AcceptLeft
  <2> QED BY <2>2 DEF TypeOK, Sem
<1>2. app_sem'[s] = app_sem[s] + (IF \E w \in Elements(b.wait_semaphores) \cup Elements(b.signal_semaphores) : w.semaphore = s
                                  THEN 1 ELSE 0)
  BY <1>1 DEF DriverAccept, AppEnqueue
<1>3. (\E w \in Elements(b.wait_semaphores) \cup Elements(b.signal_semaphores) : w.semaphore = s) <=> \E k \in Ops(b) : OpOn(b, k) = s
  <2>1. ASSUME NEW k \in Ops(b), OpOn(b, k) = s
        PROVE  \E w \in Elements(b.wait_semaphores) \cup Elements(b.signal_semaphores) : w.semaphore = s
    <3>1. At(b, k, s, TRUE) \/ At(b, k, s, FALSE)
      BY <2>1 DEF At, IsWait
    <3>2. CASE At(b, k, s, TRUE)
      <4>1. PICK v \in Elements(b.wait_semaphores) : v.semaphore = s
        BY <1>1, <3>2, OpsAre
      <4> QED BY <4>1
    <3>3. CASE At(b, k, s, FALSE)
      <4>1. PICK v \in Elements(b.signal_semaphores) : v.semaphore = s
        BY <1>1, <3>3, OpsAre
      <4> QED BY <4>1
    <3> QED BY <3>1, <3>2, <3>3
  <2>2. ASSUME NEW w \in Elements(b.wait_semaphores) \cup Elements(b.signal_semaphores), w.semaphore = s
        PROVE  \E k \in Ops(b) : OpOn(b, k) = s
    <3>1. PICK k, v : At(b, k, s, v)
      BY <1>1, <2>2, OpsAre
    <3> QED BY <3>1 DEF At
  <2> QED BY <2>1, <2>2
<1> QED BY <1>1, <1>2, <1>3

LEMMA DeviceAccept ==
    ASSUME TypeOK, TimelineSem = {}, DeviceInv, CallsOnce, NEW h \in Host, DriverAccept(h)
    PROVE  DeviceInv'
<1>1. OpsNumbered /\ OpsExecuted /\ FencesPending
  BY DEF DeviceInv
<1>2. PICK q, b, n : q = call[h].queue /\ b = call[h].batches[call[h].idx + 1] /\ n = Len(issued[q]) + 1
  OBVIOUS
<1>3. /\ q \in Queue /\ n \in Nat /\ n > 0 /\ b \in CB_SUBMISSION
      /\ DOMAIN issued'[q] = 1..n /\ Len(issued'[q]) = n /\ SameBatch(issued'[q][n], b)
      /\ \A m \in 1..(n - 1) : m \in DOMAIN issued[q] /\ issued'[q][m] = issued[q][m]
      /\ \A p \in Queue : p # q => issued'[p] = issued[p]
  <2>1. AcceptOf(h, q, b, n)
    BY <1>2 DEF AcceptOf
  <2>2. BatchAdded(q, b, n) /\ OpsAdded(q, b, n)
    BY <1>2, <2>1, AcceptIssued
  <2> QED BY <1>2, <2>2 DEF BatchAdded, OpsAdded
<1>4. /\ \A x \in IssuedOps : SemOf(x)' = SemOf(x) /\ Number(x)' = Number(x) /\ (x[1] = q => x[2] < n)
      /\ \A x \in IssuedOps' : x \notin IssuedOps =>
            /\ x[1] = q /\ x[2] = n /\ x[3] \in Ops(b) /\ x = <<q, n, x[3]>>
            /\ SemOf(x)' = OpOn(b, x[3]) /\ Number(x)' = app_sem[OpOn(b, x[3])] + 1
  <2>1. AcceptOf(h, q, b, n)
    BY <1>2 DEF AcceptOf
  <2>2. BatchAdded(q, b, n) /\ OpsAdded(q, b, n)
    BY <1>2, <2>1, AcceptIssued
  <2> QED BY <1>2, <2>2 DEF BatchAdded, OpsAdded
<1>5. \A s \in Sem : /\ app_sem[s] \in Nat
                     /\ (\E k \in Ops(b) : OpOn(b, k) = s) => app_sem'[s] = app_sem[s] + 1
                     /\ (\A k \in Ops(b) : OpOn(b, k) # s) => app_sem'[s] = app_sem[s]
  BY <1>2, AcceptSems
<1>6. \A x \in IssuedOps : SemOf(x) \in Sem /\ Number(x) \in Nat /\ x[2] \in Nat
  BY IssuedOpType
<1>7. \A k \in Ops(b) : OpOn(b, k) \in Sem
  BY <1>3, OpInfoType DEF SemInfo
<1>8. NamesOnce(b)
  <2>1. call[h].idx + 1 \in DOMAIN call[h].batches
    BY AcceptLeft
  <2>2. hpc[h] \in SubmitPc
    BY DEF DriverAccept, SubmitPc
  <2> QED BY <1>2, <2>1, <2>2 DEF CallsOnce
<1>9. \A x \in IssuedOps : Number(x) <= app_sem[SemOf(x)] /\ 1 <= Number(x)
  BY <1>1, <1>5, <1>6 DEF OpsNumbered
<1>10. OpsNumbered'
  <2>1. \A x \in IssuedOps' : Number(x)' \in 1..app_sem'[SemOf(x)']
    <3> SUFFICES ASSUME NEW x \in IssuedOps' PROVE Number(x)' \in 1..app_sem'[SemOf(x)']
      OBVIOUS
    <3>1. CASE x \in IssuedOps
      BY <1>4, <1>5, <1>6, <1>9, <3>1
    <3>2. CASE x \notin IssuedOps
      BY <1>4, <1>5, <1>7, <3>2
    <3> QED BY <3>1, <3>2
  <2>2. ASSUME NEW x \in IssuedOps', NEW y \in IssuedOps', SemOf(x)' = SemOf(y)', Number(x)' = Number(y)' PROVE x = y
    <3>1. CASE x \in IssuedOps /\ y \in IssuedOps
      BY <1>1, <1>4, <2>2, <3>1 DEF OpsNumbered
    <3>2. CASE x \in IssuedOps /\ y \notin IssuedOps
      BY <1>4, <1>5, <1>6, <1>9, <2>2, <3>2
    <3>3. CASE x \notin IssuedOps /\ y \in IssuedOps
      BY <1>4, <1>5, <1>6, <1>9, <2>2, <3>3
    <3>4. CASE x \notin IssuedOps /\ y \notin IssuedOps
      <4>1. x[3] = y[3]
        BY <1>4, <1>8, <2>2, <3>4 DEF NamesOnce
      <4> QED BY <1>4, <3>4, <4>1
    <3> QED BY <3>1, <3>2, <3>3, <3>4
  <2>3. ASSUME NEW x \in IssuedOps', NEW y \in IssuedOps', SemOf(x)' = SemOf(y)', x[1] = y[1], x[2] < y[2]
        PROVE  Number(x)' < Number(y)'
    <3>1. CASE x \in IssuedOps /\ y \in IssuedOps
      BY <1>1, <1>4, <2>3, <3>1 DEF OpsNumbered
    <3>2. CASE x \in IssuedOps /\ y \notin IssuedOps
      BY <1>4, <1>5, <1>6, <1>9, <2>3, <3>2
    <3>3. CASE x \notin IssuedOps
      <4>1. x[2] = n /\ y[1] = q
        BY <1>4, <2>3, <3>3
      <4>2. CASE y \in IssuedOps
        BY <1>3, <1>4, <1>6, <2>3, <4>1, <4>2
      <4>3. CASE y \notin IssuedOps
        BY <1>3, <1>4, <2>3, <4>1, <4>3
      <4> QED BY <4>2, <4>3
    <3> QED BY <3>1, <3>2, <3>3
  <2> QED BY <2>1, <2>2, <2>3 DEF OpsNumbered
<1>11. executed' = executed /\ vk_sem' = vk_sem
  BY DEF DriverAccept
<1>12. \A p \in Queue : executed[p] \in Nat /\ Len(issued[p]) \in Nat /\ executed[p] <= Len(issued[p])
  BY <1>1, IssuedType DEF TypeOK, OpsExecuted
<1>13. OpsExecuted'
  <2>1. \A p \in Queue : executed'[p] <= Len(issued'[p])
    BY <1>2, <1>3, <1>11, <1>12
  <2>2. \A s \in Sem : vk_sem[s] <= app_sem[s] /\ vk_sem[s] \in Nat
    BY <1>1 DEF OpsExecuted, TypeOK
  <2>3. \A s \in Sem : vk_sem'[s] <= app_sem'[s]
    BY <1>5, <1>11, <2>2
  <2>4. ASSUME NEW x \in IssuedOps' PROVE x[2] <= executed'[x[1]] <=> Number(x)' <= vk_sem'[SemOf(x)']
    <3>1. CASE x \in IssuedOps
      BY <1>1, <1>4, <1>11, <3>1 DEF OpsExecuted
    <3>2. CASE x \notin IssuedOps
      <4>3. PICK e \in Nat, l \in Nat : e = executed[q] /\ l = Len(issued[q]) /\ e <= l
        BY <1>3, <1>12
      <4>4. x[1] = q /\ x[2] = n /\ n = l + 1
        BY <1>2, <1>4, <3>2, <4>3
      <4>1. ~(x[2] <= executed[x[1]])
        <5>1. ~(n <= e)
          BY <4>3, <4>4
        <5> QED BY <4>3, <4>4, <5>1
      <4>2. ~(Number(x)' <= vk_sem[SemOf(x)'])
        BY <1>4, <1>5, <1>7, <2>2, <3>2
      <4> QED BY <1>11, <4>1, <4>2
    <3> QED BY <3>1, <3>2
  <2> QED BY <2>1, <2>3, <2>4 DEF OpsExecuted
<1>14. FencesPending'
  <2> SUFFICES ASSUME NEW p \in Queue, NEW m \in DOMAIN issued'[p], m > executed[p], issued'[p][m].fence # NoFence
               PROVE  vk_fence'[issued'[p][m].fence] = [st |-> "pending", queue |-> p, n |-> m]
    BY <1>11 DEF FencesPending
  <2>1. vk_fence' = IF b.fence = NoFence THEN vk_fence
                    ELSE [vk_fence EXCEPT ![b.fence] = [st |-> "pending", queue |-> q, n |-> n]]
    BY <1>2 DEF DriverAccept
  <2>2. b.fence \in Fence \cup {NoFence} /\ vk_fence \in [Fence -> VkFenceRecord] /\ (b.fence # NoFence => vk_fence[b.fence].st = "unsignaled")
    BY <1>2, <1>3 DEF DriverAccept, ValidBatch, TypeOK, CB_SUBMISSION
  <2>3. CASE p = q /\ m = n
    BY <1>3, <2>1, <2>2, <2>3 DEF SameBatch
  <2>4. CASE ~(p = q /\ m = n)
    <3>1. m \in DOMAIN issued[p] /\ issued'[p][m] = issued[p][m]
      <4>1. CASE p = q
        <5>1. m \in 1..(n - 1)
          BY <1>3, <2>4, <4>1
        <5> QED BY <1>3, <4>1, <5>1
      <4>2. CASE p # q
        BY <1>3, <4>2
      <4> QED BY <4>1, <4>2
    <3>2. vk_fence[issued[p][m].fence] = [st |-> "pending", queue |-> p, n |-> m]
      BY <1>1, <3>1 DEF FencesPending
    <3>3. issued[p][m].fence # b.fence
      BY <2>2, <3>1, <3>2
    <3>4. issued[p][m].fence \in Fence \cup {NoFence}
      <4>1. issued[p][m] \in CB_SUBMISSION
        BY <3>1, IssuedType
      <4> QED BY <4>1 DEF CB_SUBMISSION
    <3> QED BY <2>1, <2>2, <3>1, <3>2, <3>3, <3>4
  <2> QED BY <2>3, <2>4
<1> QED BY <1>10, <1>13, <1>14 DEF DeviceInv

-----------------------------------------------------------------------------
(* The device executes a batch *)

LEMMA ExecuteSems ==
    ASSUME TypeOK, TimelineSem = {}, OpsExecuted, NEW q \in Queue, DeviceExecute(q), NEW n, n = executed[q] + 1, NEW b, b = issued[q][n],
           NEW s \in Sem
    PROVE  /\ \A k \in Ops(b) : OpOn(b, k) = s => OpInfo(b, k).payload = vk_sem[s] + 1
           /\ (\E k \in Ops(b) : OpOn(b, k) = s) => vk_sem'[s] = vk_sem[s] + 1
           /\ (\A k \in Ops(b) : OpOn(b, k) # s) => vk_sem'[s] = vk_sem[s]
<1> DEFINE On(ws) == {w \in Elements(ws) : w.semaphore = s}
<1>1. n \in DOMAIN issued[q] /\ b \in CB_SUBMISSION
  <2>1. executed[q] \in Nat /\ executed[q] < Len(issued[q])
    BY DEF TypeOK, DeviceExecute
  <2>2. n \in 1..Len(issued[q])
    BY <2>1, IssuedType
  <2> QED BY <2>2, IssuedType
<1>2. vk_sem[s] \in Nat /\ s \in BinarySem
  BY DEF TypeOK, Sem
<1>3. PICK ws \in Seq(SemInfo), ss \in Seq(SemInfo) : ws = b.wait_semaphores /\ ss = b.signal_semaphores
  BY <1>1 DEF CB_SUBMISSION
<1>4. \A w \in Elements(ws) \cup Elements(ss) : w \in SemInfo /\ w.semaphore \in BinarySem /\ w.payload \in Nat
  <2>1. \A t \in Seq(SemInfo) : \A i \in DOMAIN t : t[i] \in SemInfo
    BY LenProperties, ElementOfSeq
  <2> QED BY <2>1 DEF Elements, SemInfo, Sem
<1>5. \A w \in Elements(ws) \cup Elements(ss) : w.semaphore = s => w.payload = vk_sem[s] + 1
  <2>1. \A w \in Elements(ws) \cup Elements(ss) : Satisfied(w)
    BY <1>1, <1>3, <1>4 DEF DeviceExecute
  <2> QED BY <1>2, <1>4, <2>1 DEF Satisfied
<1>6. vk_sem'[s] = IF On(ss) # {} THEN (CHOOSE w \in On(ss) : TRUE).payload
                   ELSE IF On(ws) # {} THEN vk_sem[s] + 1 ELSE vk_sem[s]
  BY <1>2, <1>3 DEF DeviceExecute
<1>7. \A k \in Ops(b) : OpInfo(b, k) \in Elements(ws) \cup Elements(ss) /\ OpOn(b, k) = OpInfo(b, k).semaphore
  BY <1>1, <1>3, OpInfoType DEF OpInfo, Elements
<1>8. On(ss) # {} \/ On(ws) # {} <=> \E k \in Ops(b) : OpOn(b, k) = s
  <2>1. ASSUME NEW k \in Ops(b), OpOn(b, k) = s PROVE On(ss) # {} \/ On(ws) # {}
    BY <1>7, <2>1
  <2>2. ASSUME On(ss) # {} \/ On(ws) # {} PROVE \E k \in Ops(b) : OpOn(b, k) = s
    <3>1. \E v \in Elements(b.wait_semaphores) \cup Elements(b.signal_semaphores) : v.semaphore = s
      BY <1>3, <2>2
    <3>2. PICK k, w : At(b, k, s, w)
      BY <1>1, <3>1, OpsAre
    <3> QED BY <3>2 DEF At
  <2> QED BY <2>1, <2>2
<1>9. On(ss) # {} => (CHOOSE w \in On(ss) : TRUE).payload = vk_sem[s] + 1
  <2>1. On(ss) # {} => (CHOOSE w \in On(ss) : TRUE) \in On(ss)
    OBVIOUS
  <2> QED BY <1>5, <2>1
<1>10. \A k \in Ops(b) : OpOn(b, k) = s => OpInfo(b, k).payload = vk_sem[s] + 1
  BY <1>5, <1>7
<1>11. (\E k \in Ops(b) : OpOn(b, k) = s) => vk_sem'[s] = vk_sem[s] + 1
  BY <1>6, <1>8, <1>9
<1>12. (\A k \in Ops(b) : OpOn(b, k) # s) => vk_sem'[s] = vk_sem[s]
  BY <1>6, <1>8
<1> QED BY <1>10, <1>11, <1>12

LEMMA DeviceExecutes ==
    ASSUME TypeOK, TimelineSem = {}, DeviceInv, NEW q \in Queue, DeviceExecute(q)
    PROVE  DeviceInv'
<1>1. OpsNumbered /\ OpsExecuted /\ FencesPending
  BY DEF DeviceInv
<1>2. PICK n, b : n = executed[q] + 1 /\ b = issued[q][n]
  OBVIOUS
<1>3. \A s \in Sem : /\ \A k \in Ops(b) : OpOn(b, k) = s => OpInfo(b, k).payload = vk_sem[s] + 1
                     /\ (\E k \in Ops(b) : OpOn(b, k) = s) => vk_sem'[s] = vk_sem[s] + 1
                     /\ (\A k \in Ops(b) : OpOn(b, k) # s) => vk_sem'[s] = vk_sem[s]
  BY <1>1, <1>2, ExecuteSems
<1>4. /\ issued' = issued /\ app_sem' = app_sem /\ executed[q] < Len(issued[q])
      /\ executed' = [executed EXCEPT ![q] = executed[q] + 1]
  BY DEF DeviceExecute
<1>5. /\ IssuedOps' = IssuedOps /\ \A x : SemOf(x)' = SemOf(x) /\ Number(x)' = Number(x)
  BY <1>4, IssuedSame
<1>6. \A p \in Queue : executed[p] \in Nat /\ executed'[p] = (IF p = q THEN n ELSE executed[p])
  BY <1>2, <1>4 DEF TypeOK
<1>7. \A x \in IssuedOps : SemOf(x) \in Sem /\ Number(x) \in Nat /\ x[1] \in Queue /\ x[2] \in Nat
  BY IssuedOpType
<1>8. \A s \in Sem : vk_sem[s] \in Nat /\ app_sem[s] \in Nat /\ vk_sem[s] <= app_sem[s]
  BY <1>1 DEF TypeOK, OpsExecuted
<1>9. OpsNumbered'
  BY <1>1, <1>4, <1>5 DEF OpsNumbered
\* The operations of the batch are the next ones.
<1>10. n \in DOMAIN issued[q] /\ b \in CB_SUBMISSION
  <2>1. n \in 1..Len(issued[q])
    BY <1>2, <1>4, <1>6, IssuedType
  <2> QED BY <1>2, <2>1, IssuedType
<1>11. \A x \in IssuedOps : x[1] = q /\ x[2] = n => Number(x) = vk_sem[SemOf(x)] + 1 /\ vk_sem'[SemOf(x)] = vk_sem[SemOf(x)] + 1
  <2> TAKE x \in IssuedOps
  <2> HAVE x[1] = q /\ x[2] = n
  <2>1. issued[x[1]][x[2]] = b /\ x[3] \in Ops(b)
    BY <1>2, IssuedOpIs
  <2>2. OpOn(b, x[3]) = OpInfo(b, x[3]).semaphore
    BY <1>10, <2>1, OpInfoType
  <2>3. SemOf(x) = OpOn(b, x[3]) /\ Number(x) = OpInfo(b, x[3]).payload
    BY <2>1, <2>2 DEF SemOf, Number
  <2> QED BY <1>3, <1>7, <2>1, <2>3
<1>12. \A s \in Sem : \/ vk_sem'[s] = vk_sem[s]
                      \/ /\ vk_sem'[s] = vk_sem[s] + 1
                         /\ \E x \in IssuedOps : x[1] = q /\ x[2] = n /\ SemOf(x) = s
  <2> TAKE s \in Sem
  <2>1. ASSUME NEW k \in Ops(b), OpOn(b, k) = s
        PROVE  \E x \in IssuedOps : x[1] = q /\ x[2] = n /\ SemOf(x) = s
    <3>1. <<q, n, k>> \in IssuedOps
      BY <1>2, <1>10, IssuedOpIs
    <3>2. SemOf(<<q, n, k>>) = s
      BY <1>2, <1>10, <2>1, OpInfoType DEF SemOf
    <3> QED BY <3>1, <3>2
  <2> QED BY <1>3, <2>1
<1>13. OpsExecuted'
  <2>1. \A p \in Queue : executed'[p] <= Len(issued'[p])
    BY <1>1, <1>2, <1>4, <1>6, IssuedType DEF OpsExecuted
  <2>2. \A s \in Sem : vk_sem'[s] <= app_sem'[s]
    <3> TAKE s \in Sem
    <3>1. CASE vk_sem'[s] = vk_sem[s]
      BY <1>4, <1>8, <3>1
    <3>2. CASE vk_sem'[s] = vk_sem[s] + 1 /\ \E x \in IssuedOps : x[1] = q /\ x[2] = n /\ SemOf(x) = s
      <4>1. PICK x \in IssuedOps : x[1] = q /\ x[2] = n /\ SemOf(x) = s
        BY <3>2
      <4>2. Number(x) = vk_sem[s] + 1 /\ Number(x) \in 1..app_sem[s]
        BY <1>1, <1>11, <4>1 DEF OpsNumbered
      <4> QED BY <1>4, <1>8, <3>2, <4>2
    <3> QED BY <1>12, <3>1, <3>2
  <2>3. ASSUME NEW x \in IssuedOps PROVE x[2] <= executed'[x[1]] <=> Number(x) <= vk_sem'[SemOf(x)]
    <3>1. CASE x[1] = q /\ x[2] = n
      BY <1>6, <1>7, <1>8, <1>11, <3>1
    <3>2. CASE ~(x[1] = q /\ x[2] = n)
      <4>1. x[2] <= executed'[x[1]] <=> x[2] <= executed[x[1]]
        BY <1>2, <1>6, <1>7, <3>2
      <4>2. x[2] <= executed[x[1]] <=> Number(x) <= vk_sem[SemOf(x)]
        BY <1>1 DEF OpsExecuted
      <4>3. CASE vk_sem'[SemOf(x)] = vk_sem[SemOf(x)]
        BY <4>1, <4>2, <4>3
      <4>4. CASE vk_sem'[SemOf(x)] = vk_sem[SemOf(x)] + 1 /\ \E y \in IssuedOps : y[1] = q /\ y[2] = n /\ SemOf(y) = SemOf(x)
        <5>1. PICK y \in IssuedOps : y[1] = q /\ y[2] = n /\ SemOf(y) = SemOf(x)
          BY <4>4
        <5>2. Number(y) = vk_sem[SemOf(x)] + 1
          BY <1>11, <5>1
        <5>3. Number(x) # Number(y)
          BY <1>1, <3>2, <5>1 DEF OpsNumbered
        <5> QED BY <1>7, <1>8, <4>1, <4>2, <4>4, <5>2, <5>3
      <4> QED BY <1>7, <1>12, <4>3, <4>4
    <3> QED BY <3>1, <3>2
  <2> QED BY <1>5, <2>1, <2>2, <2>3 DEF OpsExecuted
<1>14. FencesPending'
  <2> SUFFICES ASSUME NEW p \in Queue, NEW m \in DOMAIN issued[p], m > executed'[p], issued[p][m].fence # NoFence
               PROVE  vk_fence'[issued[p][m].fence] = [st |-> "pending", queue |-> p, n |-> m]
    BY <1>4 DEF FencesPending
  <2>1. m \in Nat /\ m > executed[p] /\ ~(p = q /\ m = n)
    <3>1. m \in Nat
      BY IssuedType
    <3> QED BY <1>2, <1>6, <3>1
  <2>2. vk_fence[issued[p][m].fence] = [st |-> "pending", queue |-> p, n |-> m]
    BY <1>1, <2>1 DEF FencesPending
  <2>3. issued[p][m].fence \in Fence
    <3>1. issued[p][m] \in CB_SUBMISSION
      BY IssuedType
    <3> QED BY <3>1 DEF CB_SUBMISSION
  <2>4. vk_fence[issued[p][m].fence] # [st |-> "pending", queue |-> q, n |-> n]
    BY <2>1, <2>2
  <2> QED BY <1>2, <2>2, <2>3, <2>4, DeviceExecuteFences
<1> QED BY <1>9, <1>13, <1>14 DEF DeviceInv

-----------------------------------------------------------------------------
(* The other steps *)

\* Nothing happens to the device, except to fences that nothing is pending for.
DeviceStill ==
    /\ issued' = issued /\ executed' = executed /\ vk_sem' = vk_sem /\ app_sem' = app_sem
    /\ \A f \in Fence : vk_fence[f].st = "pending" => vk_fence'[f] = vk_fence[f]

\* No submission starts, goes on or ends.
CallsStill ==
    /\ seq_' = seq_
    /\ \A g \in Host : hpc[g] \in SubmitPc \/ hpc'[g] \in SubmitPc => hpc'[g] = hpc[g] /\ call'[g] = call[g]

LEMMA NoSemaphoreCall ==
    ASSUME IInv, HostFrames, TimelineSem = {}
    PROVE  /\ \A h \in Host : hpc[h] \notin SemaphorePc /\ rpc[h] = "idle"
           /\ \A a \in Actor : Retire(a) => a \in Queue
<1>1. \A h \in Host : hpc[h] \notin SemaphorePc
  BY DEF HostFrames
<1>2. \A h \in Host : rpc[h] = "idle"
  <2>1. HostRetires
    BY DEF IInv, Order
  <2> QED BY <1>1, <2>1 DEF HostRetires, SemaphorePc
<1>3. \A a \in Actor : Retire(a) => rpc[a] # "idle"
  BY DEF Retire, RetireAtOnce, RetireWaitOther, RetireResume, RetireEnd
<1> QED BY <1>1, <1>2, <1>3 DEF Actor

LEMMA DeviceKept ==
    ASSUME TypeOK, DeviceInv, DeviceStill
    PROVE  DeviceInv'
<1>1. OpsNumbered /\ OpsExecuted /\ FencesPending
  BY DEF DeviceInv
<1>2. issued' = issued /\ executed' = executed /\ vk_sem' = vk_sem /\ app_sem' = app_sem
  BY DEF DeviceStill
<1>3. /\ IssuedOps' = IssuedOps /\ \A x : SemOf(x)' = SemOf(x) /\ Number(x)' = Number(x)
  BY <1>2, IssuedSame
<1>4. OpsNumbered' /\ OpsExecuted'
  BY <1>1, <1>2, <1>3 DEF OpsNumbered, OpsExecuted
<1>5. FencesPending'
  <2> SUFFICES ASSUME NEW p \in Queue, NEW m \in DOMAIN issued[p], m > executed[p], issued[p][m].fence # NoFence
               PROVE  vk_fence'[issued[p][m].fence] = [st |-> "pending", queue |-> p, n |-> m]
    BY <1>2 DEF FencesPending
  <2>1. vk_fence[issued[p][m].fence] = [st |-> "pending", queue |-> p, n |-> m]
    BY <1>1 DEF FencesPending
  <2>2. issued[p][m].fence \in Fence
    <3>1. issued[p][m] \in CB_SUBMISSION
      BY IssuedType
    <3> QED BY <3>1 DEF CB_SUBMISSION
  <2> QED BY <2>1, <2>2 DEF DeviceStill
<1> QED BY <1>4, <1>5 DEF DeviceInv

\* The steps that matter to the device or to submissions, and the others.
LEMMA StepKinds ==
    ASSUME IInv, HostFrames, TimelineSem = {}, NoSharing, [Next]_vars
    PROVE  \/ DeviceStill /\ CallsStill
           \/ \E h \in Host : SubmitStep(h) \/ DriverAccept(h) \/ SubmitFence(h) \/ SubmitPush(h)
           \/ \E h \in Host, s \in BinarySem, f \in Fence : AcquireNextImage(h, s, f)
           \/ \E q \in Queue : DeviceExecute(q)
<1>1. TypeOK
  BY DEF IInv
<1>2. ASSUME NEW h \in Host, Elsewhere(h), seq_' = seq_ PROVE CallsStill
  BY <1>2 DEF Elsewhere, OnlyHost, CallsStill
<1>3. ASSUME NEW h \in Host, OtherStep(h) PROVE DeviceStill /\ CallsStill
  <2>1. ~SemaphoreWait(h) /\ ~SemaphorePoke(h) /\ ~SemaphoreReady(h) /\ ~RetireTimelineEnqueue(h)
    BY NoSemaphoreCall DEF SemaphoreWait, SemaphorePoke, SemaphoreReady, RetireTimelineEnqueue, SemaphorePc
  <2>2. deviceVars' = deviceVars /\ seq_' = seq_
    BY <1>3, <2>1 DEF OtherStep, QueueNotify, QueueWait, QueueWaitReady, FenceWaitReady, DestroyNotify, DestroyJoin, queueVars
  <2> QED BY <1>1, <1>2, <1>3, <2>2, OtherStepElsewhere DEF DeviceStill, deviceVars
<1>4. ASSUME NEW h \in Host, OtherCall(h) PROVE DeviceStill /\ CallsStill
  <2>1. \E q \in Queue : QueueWaitIdle(h, q) \/ DeviceWaitIdle(h, q) \/ DestroyDevice(h, q)
    BY <1>4 DEF OtherCall
  <2>2. deviceVars' = deviceVars /\ seq_' = seq_
    BY <2>1 DEF QueueWaitIdle, DeviceWaitIdle, DestroyDevice, queueVars
  <2> QED BY <1>1, <1>2, <1>4, <2>2, OtherCallElsewhere DEF DeviceStill, deviceVars
<1>5. ASSUME NEW h \in Host, SemaphoreStep(h) PROVE DeviceStill /\ CallsStill
  BY <1>5 DEF SemaphoreStep, RetireTimelineBegin, ImportSemaphore, ExportSemaphore, DeviceStill, CallsStill, deviceVars, hostVars, queueVars
<1>6. ASSUME NEW h \in Host, NEW f \in Fence, WaitForFence(h, f) PROVE DeviceStill /\ CallsStill
  <2>1. /\ issued' = issued /\ executed' = executed /\ vk_sem' = vk_sem /\ app_sem' = app_sem /\ seq_' = seq_
        /\ vk_fence[f].st # "pending"
    BY <1>6 DEF WaitForFence
  <2>2. Elsewhere(h) /\ \A e \in Fence : e # f => vk_fence'[e] = vk_fence[e]
    BY <1>1, <1>6, WaitForFenceIs
  <2> QED BY <1>2, <2>1, <2>2 DEF DeviceStill
<1>7. ASSUME NEW h \in Host, NEW f \in Fence, FenceCall(h, f), \A s \in BinarySem : ~AcquireNextImage(h, s, f)
      PROVE  DeviceStill /\ CallsStill
  <2>1. ResetFence(h, f)
    BY <1>7 DEF FenceCall, NoSharing
  <2>2. /\ issued' = issued /\ executed' = executed /\ vk_sem' = vk_sem /\ app_sem' = app_sem /\ seq_' = seq_
        /\ vk_fence[f].st # "pending" /\ hpc' = hpc /\ call' = call
    BY <2>1 DEF ResetFence, hostVars, queueVars
  <2>3. \A e \in Fence : e # f => vk_fence'[e] = vk_fence[e]
    BY <1>1, <1>7, FenceCallIs
  <2> QED BY <2>2, <2>3 DEF DeviceStill, CallsStill
<1>8. ASSUME NEW a \in Actor, Retire(a) PROVE DeviceStill /\ CallsStill
  <2>1. a \in Queue
    BY <1>8, NoSemaphoreCall
  <2>2. /\ issued' = issued /\ executed' = executed /\ vk_sem' = vk_sem /\ app_sem' = app_sem /\ vk_fence' = vk_fence
        /\ seq_' = seq_ /\ hpc' = hpc /\ call' = call
    BY <1>8, <2>1 DEF Retire, RetireAtOnce, RetireWaitOther, RetireResume, RetireEnd, deviceVars, hostVars, queueVars
  <2> QED BY <2>2 DEF DeviceStill, CallsStill
<1>9. ASSUME NEW q \in Queue, ThreadStep(q) \/ ThreadRetireFence(q) PROVE DeviceStill /\ CallsStill
  BY <1>9 DEF ThreadStep, ThreadSleep, ThreadPop, ThreadExit, ThreadEndUse, ThreadRetireSemaphore, ThreadLoopDone,
              ThreadRetireCbs, ThreadComplete, ThreadRetireFence, DeviceStill, CallsStill, deviceVars, hostVars, queueVars
<1>10. CASE UNCHANGED vars
  BY <1>10 DEF vars, DeviceStill, CallsStill, deviceVars, hostVars, queueVars
<1>11. CASE Next
  BY <1>3, <1>4, <1>5, <1>6, <1>7, <1>8, <1>9, <1>11, NextCases
<1> QED BY <1>10, <1>11

LEMMA SubmitDevice ==
    ASSUME NEW h \in Host, SubmitStep(h) \/ SubmitFence(h) \/ SubmitPush(h)
    PROVE  DeviceStill
BY DEF SubmitStep, QueueSubmit, SubmitCbs, SubmitSeq, SubmitWait, SubmitSignal, SubmitFence, SubmitPush, DeviceStill, deviceVars

\* An image is acquired: the semaphore was idle, and the presentation engine signals it.
LEMMA DeviceAcquire ==
    ASSUME TypeOK, TimelineSem = {}, DeviceInv, NEW h \in Host, NEW s \in BinarySem, NEW f \in Fence, AcquireNextImage(h, s, f)
    PROVE  DeviceInv'
<1>1. OpsNumbered /\ OpsExecuted /\ FencesPending
  BY DEF DeviceInv
<1>2. /\ issued' = issued /\ executed' = executed /\ vk_sem[s] = app_sem[s] /\ vk_fence[f].st = "unsignaled"
      /\ app_sem' = [app_sem EXCEPT ![s] = app_sem[s] + 1] /\ vk_sem' = [vk_sem EXCEPT ![s] = vk_sem[s] + 1]
      /\ \A e \in Fence : e # f => vk_fence'[e] = vk_fence[e]
  BY DEF AcquireNextImage, TypeOK
<1>3. \A r \in Sem : /\ app_sem[r] \in Nat /\ vk_sem[r] \in Nat
                     /\ r # s => app_sem'[r] = app_sem[r] /\ vk_sem'[r] = vk_sem[r]
                     /\ r = s => app_sem'[r] = app_sem[r] + 1 /\ vk_sem'[r] = vk_sem[r] + 1 /\ vk_sem[r] = app_sem[r]
  BY <1>2 DEF TypeOK
<1>4. /\ IssuedOps' = IssuedOps /\ \A x : SemOf(x)' = SemOf(x) /\ Number(x)' = Number(x)
  BY <1>2, IssuedSame
<1>5. \A x \in IssuedOps : SemOf(x) \in Sem /\ Number(x) \in Nat /\ Number(x) \in 1..app_sem[SemOf(x)]
  BY <1>1, IssuedOpType DEF OpsNumbered
<1>6. OpsNumbered'
  <2>1. \A x \in IssuedOps : Number(x) \in 1..app_sem'[SemOf(x)]
    BY <1>3, <1>5
  <2> QED BY <1>1, <1>4, <2>1 DEF OpsNumbered
<1>7. OpsExecuted'
  <2>1. \A r \in Sem : vk_sem'[r] <= app_sem'[r]
    BY <1>1, <1>3 DEF OpsExecuted
  <2>2. \A x \in IssuedOps : Number(x) <= vk_sem'[SemOf(x)] <=> Number(x) <= vk_sem[SemOf(x)]
    BY <1>3, <1>5
  <2> QED BY <1>1, <1>2, <1>4, <2>1, <2>2 DEF OpsExecuted
<1>8. FencesPending'
  <2> SUFFICES ASSUME NEW p \in Queue, NEW m \in DOMAIN issued[p], m > executed[p], issued[p][m].fence # NoFence
               PROVE  vk_fence'[issued[p][m].fence] = [st |-> "pending", queue |-> p, n |-> m]
    BY <1>2 DEF FencesPending
  <2>1. vk_fence[issued[p][m].fence] = [st |-> "pending", queue |-> p, n |-> m]
    BY <1>1 DEF FencesPending
  <2>2. issued[p][m].fence \in Fence
    <3>1. issued[p][m] \in CB_SUBMISSION
      BY IssuedType
    <3> QED BY <3>1 DEF CB_SUBMISSION
  <2>3. issued[p][m].fence # f
    BY <1>2, <2>1
  <2> QED BY <1>2, <2>1, <2>2, <2>3
<1> QED BY <1>6, <1>7, <1>8 DEF DeviceInv

LEMMA NextDevice ==
    ASSUME IInv, HostFrames, TimelineSem = {}, NoSharing, DeviceInv, CallsOnce, [Next]_vars
    PROVE  DeviceInv'
<1>1. TypeOK
  BY DEF IInv
<1>2. CASE DeviceStill
  BY <1>1, <1>2, DeviceKept
<1>3. ASSUME NEW h \in Host, SubmitStep(h) \/ SubmitFence(h) \/ SubmitPush(h) PROVE DeviceInv'
  BY <1>1, <1>3, SubmitDevice, DeviceKept
<1> QED BY <1>1, <1>2, <1>3, StepKinds, DeviceAccept, DeviceAcquire, DeviceExecutes

-----------------------------------------------------------------------------
(* Submissions under way *)

LEMMA OneHost ==
    ASSUME IInv, NEW g \in Host, NEW h \in Host, g # h, hpc[g] \in QueuePc
    PROVE  call[g].queue \in Queue /\ ~Claims(call[h], call[g].queue)
<1>1. TypeOK /\ QueueExclusive
  BY DEF IInv, Order
<1>2. call[g].queue \in Queue
  BY <1>1 DEF TypeOK
<1> QED BY <1>1, <1>2 DEF QueueExclusive, Claims

\* Only the call of h moves, and it is about queue q.
LEMMA MoveCall ==
    ASSUME CallsIssued, SubIssued, NEW h \in Host, NEW q \in Queue, OnlyHost(h),
           \A g \in Host : hpc[g] \in SubmitPc => call[g].queue \in Queue /\ (call[g].queue # q \/ g = h),
           hpc[h] \in SubmitPc => call[h].queue = q,
           \A p \in Queue : p # q => issued'[p] = issued[p] /\ seq_'[p] = seq_[p],
           hpc'[h] \in SubmitPc => call'[h].queue = q /\ CallIssued(h)' /\ SubIs(h)',
           hpc'[h] \notin SubmitPc => Len(issued'[q]) - seq_'[q] = 0
    PROVE  CallsIssued' /\ SubIssued'
<1>1. ASSUME NEW g \in Host, g # h, hpc[g] \in SubmitPc
      PROVE  CallIssued(g)' /\ SubIs(g)'
  <2>1. hpc'[g] = hpc[g] /\ call'[g] = call[g]
    BY <1>1 DEF OnlyHost
  <2>2. issued'[call[g].queue] = issued[call[g].queue] /\ seq_'[call[g].queue] = seq_[call[g].queue]
    BY <1>1
  <2>3. CallIssued(g) /\ SubIs(g)
    BY <1>1 DEF CallsIssued, SubIssued
  <2>6. Accepted(g)' = Accepted(g) /\ Skip(g)' = Skip(g)
    BY <2>1 DEF Accepted, Skip
  <2>4. CallIssued(g)'
    BY <2>1, <2>2, <2>3, <2>6 DEF CallIssued, Ahead
  <2>5. SubIs(g)'
    BY <2>1, <2>2, <2>3 DEF SubIs
  <2> QED BY <2>4, <2>5
<1>2. \A g \in Host : g # h => hpc'[g] = hpc[g] /\ call'[g] = call[g]
  BY DEF OnlyHost
<1>3. \A g \in Host : hpc'[g] \in SubmitPc => CallIssued(g)'
  BY <1>1, <1>2
<1>4. \A g \in Host : SubIs(g)'
  <2> SUFFICES ASSUME NEW g \in Host PROVE SubIs(g)'
    OBVIOUS
  <2>1. CASE hpc'[g] \notin SubmitPc
    BY <2>1 DEF SubIs, SubmitPc
  <2>2. CASE hpc'[g] \in SubmitPc
    BY <1>1, <1>2, <2>2
  <2> QED BY <2>1, <2>2
<1>5. ASSUME NEW p \in Queue, \A g \in Host : hpc'[g] \in SubmitPc => call'[g].queue # p
      PROVE  Len(issued'[p]) - seq_'[p] = 0
  <2>1. CASE p = q
    BY <1>5, <2>1
  <2>2. CASE p # q
    <3>1. \A g \in Host : hpc[g] \in SubmitPc => call[g].queue # p
      BY <1>2, <1>5, <2>2
    <3> QED BY <2>2, <3>1 DEF CallsIssued, Ahead
  <2> QED BY <2>1, <2>2
<1> QED BY <1>3, <1>4, <1>5 DEF CallsIssued, SubIssued, Ahead

LEMMA CallsKept ==
    ASSUME CallInv, issued' = issued, CallsStill
    PROVE  CallInv'
<1>1. \A g \in Host : hpc[g] \in SubmitPc \/ hpc'[g] \in SubmitPc => hpc'[g] = hpc[g] /\ call'[g] = call[g]
  BY DEF CallsStill
<1>2. CallsIssued /\ SubIssued /\ CallsOnce /\ Room /\ issued' = issued /\ seq_' = seq_
  BY DEF CallInv, CallsStill
<1>3. ASSUME NEW g \in Host, hpc'[g] \in SubmitPc PROVE CallIssued(g)'
  BY <1>1, <1>2, <1>3 DEF CallsIssued, CallIssued, Ahead, Accepted, Skip
<1>4. CallsIssued'
  BY <1>1, <1>2, <1>3 DEF CallsIssued, Ahead
<1>5. ASSUME NEW g \in Host PROVE SubIs(g)'
  <2>1. CASE hpc'[g] \notin SubmitPc
    BY <2>1 DEF SubIs, SubmitPc
  <2>2. CASE hpc'[g] \in SubmitPc
    BY <1>1, <1>2, <2>2 DEF SubIs, SubIssued
  <2> QED BY <2>1, <2>2
<1>6. CallsOnce'
  BY <1>1, <1>2 DEF CallsOnce
<1>7. Room'
  BY <1>1, <1>2 DEF Room, SubmitPc
<1> QED BY <1>4, <1>5, <1>6, <1>7 DEF CallInv, SubIssued

LEMMA SameBatchRules ==
    /\ \A a : SameBatch(a, a)
    /\ \A a, b : SameBatch(a, b) => SameBatch(b, a)
    /\ \A a, b, c : SameBatch(a, b) /\ SameBatch(b, c) => SameBatch(a, c)
    /\ \A a, b : SameBatch(a, b) => Ops(a) = Ops(b) /\ \A k : IsWait(a, k) <=> IsWait(b, k)
<1>1. \A a, b : SameOps(a, b) => Ops(a) = Ops(b) /\ \A k : IsWait(a, k) <=> IsWait(b, k)
  BY DEF SameOps, Ops, IsWait
<1>2. \A a, b : SameOps(a, b) => SameOps(b, a)
  BY <1>1 DEF SameOps
<1> QED BY <1>1, <1>2, SameOpsTrans, SameOpsWhole DEF SameBatch

LEMMA SubmitCallIs ==
    ASSUME IInv, NEW h \in Host, hpc[h] \in SubmitPc
    PROVE  /\ call[h].queue \in Queue
           /\ \A g \in Host : hpc[g] \in SubmitPc => call[g].queue \in Queue /\ (call[g].queue # call[h].queue \/ g = h)
<1>1. \A g \in Host : hpc[g] \in SubmitPc => hpc[g] \in QueuePc
  BY DEF QueuePc
<1>2. call[h].queue \in Queue
  BY <1>1 DEF IInv, TypeOK
<1>3. ASSUME NEW g \in Host, hpc[g] \in SubmitPc, g # h PROVE call[g].queue \in Queue /\ call[g].queue # call[h].queue
  BY <1>1, <1>3, OneHost DEF Claims
<1> QED BY <1>2, <1>3

LEMMA QueueLengths ==
    ASSUME TypeOK, NEW q \in Queue
    PROVE  Len(issued[q]) \in Nat /\ seq_[q] \in Nat /\ executed[q] \in Nat /\ request_seq_[q] \in Nat
BY IssuedType DEF TypeOK

\* vkQueueSubmit and its like: the call begins.
LEMMA CallsStart ==
    ASSUME IInv, IInv', CallInv, CallsNameOnce, NEW h \in Host, NEW q \in Queue, NEW bs \in Calls[q], QueueSubmit(h, q, bs)
    PROVE  CallInv'
<1>1. CallsIssued /\ SubIssued /\ CallsOnce /\ Room /\ TypeOK
  BY DEF CallInv, IInv
<1>2. /\ hpc[h] = "idle" /\ \A g \in Host : call[g].queue # q
      /\ Len(issued[q]) + Len(bs) <= MaxSeq
      /\ issued' = issued /\ seq_' = seq_
  BY DEF QueueSubmit, QueueFree, deviceVars, queueVars
<1>3. /\ OnlyHost(h) /\ hpc'[h] = "driver" /\ call'[h].queue = q /\ call'[h].batches = bs /\ call'[h].idx = 0 /\ call'[h].early = 0
  BY <1>1 DEF QueueSubmit, OnlyHost, TypeOK, NoCall
<1>4. \A g \in Host : hpc[g] \in SubmitPc => call[g].queue \in Queue
  BY <1>1 DEF TypeOK, QueuePc
<1>5. CallIssued(h)' /\ SubIs(h)'
  <2>1. Ahead(q) = 0
    BY <1>1, <1>2 DEF CallsIssued
  <2>2. Accepted(h)' = 0
    BY <1>3 DEF Accepted
  <2> QED BY <1>2, <1>3, <2>1, <2>2 DEF CallIssued, SubIs, Ahead
<1>6. hpc[h] \notin SubmitPc /\ hpc'[h] \in SubmitPc
  BY <1>2, <1>3 DEF SubmitPc
<1>7. CallsIssued' /\ SubIssued'
  BY <1>1, <1>2, <1>3, <1>4, <1>5, <1>6, MoveCall
<1>8. CallsOnce'
  BY <1>1, <1>3 DEF CallsOnce, CallsNameOnce, OnlyHost
<1>9. Room'
  <2>1. Len(bs) \in Nat /\ Len(issued[q]) \in Nat
    <3>1. bs \in Seq(CB_SUBMISSION)
      BY QueueStateAssumption
    <3> QED BY <1>1, <3>1, LenProperties, QueueLengths
  <2>2. Len(issued'[call'[h].queue]) + Len(call'[h].batches) - call'[h].idx <= MaxSeq
    BY <1>2, <1>3, <2>1
  <2>3. call'[h].idx < Len(call'[h].batches)
    <3>1. bs \in Seq(CB_SUBMISSION) /\ bs # << >>
      BY QueueStateAssumption
    <3>2. Len(bs) > 0
      BY <2>1, <3>1, EmptySeq
    <3> QED BY <1>3, <3>2
  <2> QED BY <1>1, <1>2, <1>3, <2>2, <2>3 DEF Room, OnlyHost
<1> QED BY <1>7, <1>8, <1>9 DEF CallInv

LEMMA CallsAccept ==
    ASSUME IInv, TimelineSem = {}, CallInv, NEW h \in Host, DriverAccept(h)
    PROVE  CallInv'
<1>1. CallsIssued /\ SubIssued /\ CallsOnce /\ Room /\ TypeOK
  BY DEF CallInv, IInv
<1>2. hpc[h] = "driver" /\ hpc[h] \in SubmitPc /\ seq_' = seq_
  BY DEF DriverAccept, SubmitPc, queueVars
<1>3. PICK q, n, b, i : q = call[h].queue /\ n = Len(issued[q]) + 1 /\ i = call[h].idx /\ b = call[h].batches[i + 1]
  OBVIOUS
<1>4. /\ q \in Queue
      /\ \A g \in Host : hpc[g] \in SubmitPc => call[g].queue \in Queue /\ (call[g].queue # q \/ g = h)
  BY <1>2, <1>3, SubmitCallIs
<1>5. /\ DOMAIN issued'[q] = 1..n /\ Len(issued'[q]) = n /\ SameBatch(issued'[q][n], b)
      /\ \A m \in 1..(n - 1) : issued'[q][m] = issued[q][m]
      /\ \A p \in Queue : p # q => issued'[p] = issued[p]
  <2>1. AcceptOf(h, q, b, n)
    BY <1>1, <1>3 DEF AcceptOf
  <2>2. BatchAdded(q, b, n) /\ OpsAdded(q, b, n)
    BY <1>1, <1>3, <2>1, AcceptIssued
  <2> QED BY <1>1, <1>3, <2>2 DEF BatchAdded, OpsAdded
<1>6. /\ OnlyHost(h) /\ call'[h].batches = call[h].batches /\ call'[h].queue = q /\ call'[h].early = call[h].early
      /\ \/ hpc'[h] = "driver" /\ call'[h].idx = i + 1
         \/ hpc'[h] = "cbs" /\ call'[h].idx = 0 /\ i + 1 = Len(call[h].batches)
  BY <1>1, <1>3, DriverAcceptCall
<1>7. /\ Ahead(q) = i /\ call[h].early = 0
      /\ \A j \in 1..i : SameBatch(issued[q][seq_[q] + j], call[h].batches[j])
  <2>1. CallIssued(h) /\ Accepted(h) = i /\ Skip(h) = 0
    BY <1>1, <1>2, <1>3 DEF CallsIssued, Accepted, Skip, PushPc
  <2>2. Accepted(h) \in Nat
    BY <1>1, <1>3, <2>1, CallFields
  <2>3. \A j \in 1..i : j + 0 = j
    BY <2>1, <2>2
  <2> QED BY <1>3, <2>1, <2>3 DEF CallIssued
<1>8. i \in Nat /\ seq_[q] \in Nat /\ n \in Nat /\ n = seq_[q] + i + 1 /\ Len(call[h].batches) \in Nat
  <2>1. PICK l \in Nat, m \in Nat : l = Len(issued[q]) /\ m = seq_[q]
    BY <1>1, <1>4, QueueLengths
  <2>2. i \in Nat /\ Len(call[h].batches) \in Nat
    BY <1>1, <1>3, CallFields, LenProperties
  <2>3. n = l + 1 /\ l - m = i
    BY <1>3, <1>7, <2>1 DEF Ahead
  <2>4. n \in Nat /\ n = m + i + 1
    BY <2>2, <2>3
  <2> QED BY <2>1, <2>2, <2>4
<1>9. \A j \in 1..(i + 1) : SameBatch(issued'[q][seq_[q] + j], call[h].batches[j])
  <2> TAKE j \in 1..(i + 1)
  <2>1. CASE j = i + 1
    <3>1. seq_[q] + j = n
      BY <1>8, <2>1
    <3> QED BY <1>3, <1>5, <2>1, <3>1
  <2>2. CASE j # i + 1
    <3>1. j \in 1..i /\ seq_[q] + j \in 1..(n - 1)
      BY <1>8, <2>2
    <3> QED BY <1>5, <1>7, <3>1
  <2> QED BY <2>1, <2>2
<1>10. hpc'[h] \in SubmitPc /\ Accepted(h)' = i + 1 /\ Skip(h)' = 0
  <2>1. Skip(h)' = 0 /\ hpc'[h] \in SubmitPc
    BY <1>6 DEF Skip, PushPc, SubmitPc
  <2>2. CASE hpc'[h] = "driver"
    BY <1>6, <2>1, <2>2 DEF Accepted
  <2>3. CASE hpc'[h] = "cbs"
    <3>1. Len(call'[h].batches) = i + 1 /\ Len(call'[h].batches) - 0 = i + 1
      BY <1>6, <1>8, <2>3
    <3> QED BY <2>1, <2>3, <3>1 DEF Accepted
  <2> QED BY <1>6, <2>1, <2>2, <2>3
<1>11. CallIssued(h)'
  <2>1. Len(issued'[q]) - seq_'[q] = i + 1
    BY <1>2, <1>5, <1>8
  <2>2. \A j \in 1..(i + 1) : j + 0 = j
    BY <1>8
  <2>3. \A j \in 1..Accepted(h)' : SameBatch(issued'[q][seq_'[q] + j], call'[h].batches[j + Skip(h)'])
    BY <1>2, <1>6, <1>9, <1>10, <2>2
  <2> QED BY <1>6, <1>7, <1>10, <2>1, <2>3 DEF CallIssued, Ahead
<1>12. SubIs(h)'
  BY <1>6 DEF SubIs
<1>13. CallsIssued' /\ SubIssued'
  BY <1>1, <1>2, <1>3, <1>4, <1>5, <1>6, <1>10, <1>11, <1>12, MoveCall
<1>14. CallsOnce'
  BY <1>1, <1>2, <1>6 DEF CallsOnce, OnlyHost
<1>15. Room'
  <2>6. PICK L \in Nat : L = Len(call[h].batches)
    BY <1>8
  <2>1. i < L /\ n - 1 + L - i <= MaxSeq /\ MaxSeq \in Nat
    <3>1. Len(issued[q]) + L - i <= MaxSeq /\ i < L
      BY <1>1, <1>2, <1>3, <2>6 DEF Room, DriverAccept
    <3>2. Len(issued[q]) = n - 1 /\ MaxSeq \in Nat
      BY <1>1, <1>3, <1>4, QueueLengths, QueueStateAssumption
    <3> QED BY <3>1, <3>2
  <2>2. n <= MaxSeq /\ n + L - (i + 1) <= MaxSeq
    <3>1. PICK x \in Nat, y \in Nat, M \in Nat : x = i /\ y = n /\ M = MaxSeq
      BY <1>8, <2>1
    <3>2. x < L /\ y - 1 + L - x <= M
      BY <2>1, <3>1
    <3>3. y <= M /\ y + L - (x + 1) <= M
      BY <3>2
    <3> QED BY <3>1, <3>3
  <2>3. ASSUME hpc'[h] = "driver"
        PROVE  call'[h].idx < Len(call'[h].batches) /\ Len(issued'[call'[h].queue]) + Len(call'[h].batches) - call'[h].idx <= MaxSeq
    <3>1. call'[h].idx = i + 1 /\ i + 1 # L
      BY <1>1, <1>3, <2>3, <2>6, DriverAcceptCall
    <3>2. i + 1 < L
      BY <1>8, <2>1, <3>1
    <3> QED BY <1>5, <1>6, <2>2, <2>6, <3>1, <3>2
  <2>4. \A p \in Queue : Len(issued'[p]) <= MaxSeq
    BY <1>1, <1>5, <2>2 DEF Room
  <2>5. ASSUME NEW g \in Host, hpc'[g] = "driver", g # h
        PROVE  call'[g].idx < Len(call'[g].batches) /\ Len(issued'[call'[g].queue]) + Len(call'[g].batches) - call'[g].idx <= MaxSeq
    <3>1. hpc[g] = "driver" /\ call'[g] = call[g] /\ hpc[g] \in SubmitPc
      BY <1>6, <2>5 DEF OnlyHost, SubmitPc
    <3>2. issued'[call[g].queue] = issued[call[g].queue]
      BY <1>4, <1>5, <2>5, <3>1
    <3> QED BY <1>1, <3>1, <3>2 DEF Room
  <2> QED BY <2>3, <2>4, <2>5 DEF Room
<1> QED BY <1>13, <1>14, <1>15 DEF CallInv

\* The rest of a call: no batch is accepted any more, and none is dropped.
LEMMA CallsOnceRoom ==
    ASSUME CallsOnce, Room, NEW h \in Host, OnlyHost(h), issued' = issued, hpc[h] \in SubmitPc, hpc'[h] # "driver",
           \A i \in DOMAIN call'[h].batches : call'[h].batches = call[h].batches \/ NamesOnce(call'[h].batches[i])
    PROVE  CallsOnce' /\ Room'
<1>1. CallsOnce'
  BY DEF CallsOnce, OnlyHost
<1>2. Room'
  BY DEF Room, OnlyHost
<1> QED BY <1>1, <1>2

\* QUEUE_STATE::Submit() takes the first batch, and numbers it.
LEMMA SubmitCbsCall ==
    ASSUME TypeOK, NEW h \in Host, SubmitCbs(h)
    PROVE  /\ OnlyHost(h) /\ hpc[h] = "cbs" /\ hpc'[h] = "seq"
           /\ call'[h].queue = call[h].queue /\ call'[h].batches = call[h].batches /\ call'[h].early = call[h].early
           /\ call'[h].sub = call[h].batches[1]
<1> DEFINE c == [call[h] EXCEPT !.sub = call[h].batches[1]]
<1>1. call' = [call EXCEPT ![h] = c] /\ hpc[h] = "cbs" /\ hpc' = [hpc EXCEPT ![h] = "seq"]
  BY DEF SubmitCbs
<1>2. OnlyHost(h) /\ hpc'[h] = "seq" /\ call'[h] = c
  BY <1>1 DEF TypeOK, OnlyHost
<1> QED BY <1>1, <1>2, CallFields DEF Call

LEMMA CallsCbs ==
    ASSUME IInv, CallInv, NEW h \in Host, SubmitCbs(h)
    PROVE  CallInv'
<1>1. CallsIssued /\ SubIssued /\ CallsOnce /\ Room /\ TypeOK
  BY DEF CallInv, IInv
<1>2. /\ OnlyHost(h) /\ hpc[h] = "cbs" /\ hpc'[h] = "seq"
      /\ call'[h].queue = call[h].queue /\ call'[h].batches = call[h].batches /\ call'[h].early = call[h].early
      /\ call'[h].sub = call[h].batches[1]
  BY <1>1, SubmitCbsCall
<1>3. issued' = issued /\ seq_' = seq_
  BY DEF SubmitCbs, deviceVars, queueVars
<1>4. hpc[h] \in SubmitPc /\ hpc'[h] \in SubmitPc
  BY <1>2 DEF SubmitPc
<1>5. /\ call[h].queue \in Queue
      /\ \A g \in Host : hpc[g] \in SubmitPc => call[g].queue \in Queue /\ (call[g].queue # call[h].queue \/ g = h)
  BY <1>4, SubmitCallIs
<1>6. CallIssued(h)' /\ SubIs(h)'
  <2>1. Accepted(h)' = Accepted(h) /\ Skip(h)' = Skip(h)
    BY <1>2 DEF Accepted, Skip, PushPc
  <2>2. CallIssued(h)
    BY <1>1, <1>4 DEF CallsIssued
  <2> QED BY <1>2, <1>3, <2>1, <2>2, SameBatchRules DEF CallIssued, Ahead, SubIs
<1>7. CallsIssued' /\ SubIssued'
  BY <1>1, <1>2, <1>3, <1>4, <1>5, <1>6, MoveCall
<1>8. CallsOnce' /\ Room'
  BY <1>1, <1>2, <1>3, <1>4, CallsOnceRoom
<1> QED BY <1>7, <1>8 DEF CallInv

LEMMA CallsSeq ==
    ASSUME IInv, CallInv, NEW h \in Host, SubmitSeq(h)
    PROVE  CallInv'
<1>1. CallsIssued /\ SubIssued /\ CallsOnce /\ Room /\ TypeOK
  BY DEF CallInv, IInv
<1>2. /\ OnlyHost(h) /\ hpc[h] = "seq" /\ hpc'[h] = "enqueue"
      /\ call'[h].queue = call[h].queue /\ call'[h].batches = call[h].batches /\ call'[h].idx = 1
      /\ call'[h].early = call[h].early /\ call'[h].sub = [call[h].sub EXCEPT !.seq = seq_[call[h].queue] + 1]
  BY <1>1, SubmitSeqCall
<1>3. hpc[h] \in SubmitPc /\ hpc'[h] \in SubmitPc
  BY <1>2 DEF SubmitPc
<1>4. PICK q, n : q = call[h].queue /\ n = seq_[q] + 1
  OBVIOUS
<1>5. /\ q \in Queue
      /\ \A g \in Host : hpc[g] \in SubmitPc => call[g].queue \in Queue /\ (call[g].queue # q \/ g = h)
  BY <1>3, <1>4, SubmitCallIs
<1>6. issued' = issued /\ seq_' = [seq_ EXCEPT ![q] = n]
  BY <1>4 DEF SubmitSeq, deviceVars
<1>7. seq_'[q] = n /\ \A p \in Queue : p # q => seq_'[p] = seq_[p]
  BY <1>1, <1>5, <1>6 DEF TypeOK
<1>8. PICK L \in Nat : L = Len(call[h].batches) /\ L >= 1
  BY <1>1, <1>3, BatchOne, CallFields, LenProperties
<1>9. /\ Ahead(q) = L /\ call[h].early = 0
      /\ \A i \in 1..L : SameBatch(issued[q][seq_[q] + i], call[h].batches[i])
  <2>1. CallIssued(h) /\ Accepted(h) = L /\ Skip(h) = 0
    BY <1>1, <1>2, <1>3, <1>8 DEF CallsIssued, Accepted, Skip, PushPc
  <2>2. \A i \in 1..L : i + 0 = i
    BY <1>8
  <2> QED BY <1>4, <2>1, <2>2 DEF CallIssued
<1>10. PICK m \in Nat, N \in Nat : m = seq_[q] /\ N = Len(issued[q]) /\ N - m = L /\ n = m + 1
  BY <1>1, <1>4, <1>5, <1>9, QueueLengths DEF Ahead
<1>11. CallIssued(h)'
  <2>1. Accepted(h)' = L - 1 /\ Skip(h)' = 1
    BY <1>2, <1>8 DEF Accepted, Skip, PushPc
  <2>2. Len(issued'[q]) - seq_'[q] = L - 1
    <3>2. \A a, b, c \in Nat : a - b = c => a - (b + 1) = c - 1
      OBVIOUS
    <3>1. N - n = L - 1
      BY <1>10, <3>2
    <3> QED BY <1>6, <1>7, <1>10, <3>1
  <2>3. \A i \in 1..(L - 1) : SameBatch(issued[q][n + i], call[h].batches[i + 1])
    <3> TAKE i \in 1..(L - 1)
    <3>3. \A a, b \in Nat : \A j \in 1..(a - 1) : j + 1 \in 1..a /\ (b + 1) + j = b + (j + 1)
      OBVIOUS
    <3>1. i + 1 \in 1..L /\ n + i = m + (i + 1)
      BY <1>10, <3>3
    <3>2. SameBatch(issued[q][seq_[q] + (i + 1)], call[h].batches[i + 1])
      BY <1>9, <3>1
    <3> QED BY <1>10, <3>1, <3>2
  <2> QED BY <1>2, <1>4, <1>6, <1>7, <1>9, <2>1, <2>2, <2>3 DEF CallIssued, Ahead
<1>12. SubIs(h)'
  <2>1. call'[h].sub.seq = n /\ SameOps(call'[h].sub, call[h].batches[1]) /\ call'[h].sub.fence = call[h].sub.fence
    <3>1. call[h].sub \in CB_SUBMISSION
      BY <1>1, CallFields
    <3>2. SameOps(call'[h].sub, call[h].sub)
      BY <1>2, <3>1 DEF SameOps, OpOn, IsWait, Ops, CB_SUBMISSION
    <3>3. SameOps(call[h].sub, call[h].batches[1])
      BY <1>1, <1>2 DEF SubIssued, SubIs, SameBatch
    <3> QED BY <1>2, <1>4, <3>1, <3>2, <3>3, SameOpsTrans DEF CB_SUBMISSION
  <2>2. SameBatch(call'[h].sub, call[h].batches[1])
    BY <1>1, <1>2, <2>1 DEF SubIssued, SubIs, SameBatch
  <2>3. SameBatch(issued[q][n], call[h].batches[1])
    <3>1. 1 \in 1..L
      BY <1>8
    <3> QED BY <1>4, <1>9, <3>1
  <2>4. SameBatch(issued[q][n], call'[h].sub)
    BY <2>2, <2>3, SameBatchRules
  <2>5. \A k \in Ops(call'[h].sub) : ~(k < 1)
    BY DEF Ops
  <2> QED BY <1>2, <1>4, <1>6, <2>1, <2>4, <2>5 DEF SubIs
<1>13. CallsIssued' /\ SubIssued'
  BY <1>1, <1>2, <1>3, <1>4, <1>5, <1>6, <1>7, <1>11, <1>12, MoveCall
<1>14. CallsOnce' /\ Room'
  BY <1>1, <1>2, <1>3, <1>6, CallsOnceRoom
<1> QED BY <1>13, <1>14 DEF CallInv

-----------------------------------------------------------------------------
(* A semaphore is told of an operation *)

\* Submission c is b with payload p of operation k.
Paid(b, k, p, c) ==
    /\ SameBatch(c, b) /\ c.seq = b.seq /\ OpInfo(c, k).payload = p
    /\ \A l \in Ops(b) : l # k => OpInfo(c, l) = OpInfo(b, l)

LEMMA WaitPaid ==
    ASSUME NEW b \in CB_SUBMISSION, NEW c \in CB_SUBMISSION, NEW k \in 1..Len(b.wait_semaphores), NEW p \in Nat,
           PaysWait(b, k, p, c)
    PROVE  Paid(b, k, p, c) /\ k \in Ops(b) /\ OpInfo(b, k) = b.wait_semaphores[k]
<1>1. SameOps(c, b)
  BY WaitPayload
<1>2. /\ b.wait_semaphores \in Seq(SemInfo) /\ b.signal_semaphores \in Seq(SemInfo)
      /\ c.wait_semaphores = [b.wait_semaphores EXCEPT ![k] = [b.wait_semaphores[k] EXCEPT !.payload = p]]
      /\ c.signal_semaphores = b.signal_semaphores /\ c.fence = b.fence /\ c.seq = b.seq
  BY DEF CB_SUBMISSION, PaysWait
<1>3. PICK m \in Nat, n \in Nat : m = Len(b.wait_semaphores) /\ n = Len(b.signal_semaphores) /\ DOMAIN b.wait_semaphores = 1..m
  BY <1>2, LenProperties
<1>4. k \in Ops(b) /\ IsWait(b, k) /\ Ops(b) = 1..(m + n)
  <2>1. \A x, y \in Nat : \A l \in 1..x : l \in 1..(x + y) /\ l <= x
    OBVIOUS
  <2>2. k \in 1..(m + n) /\ k <= m
    BY <1>3, <2>1
  <2> QED BY <1>3, <2>2 DEF Ops, IsWait
<1>5. \A l : IsWait(b, l) <=> IsWait(c, l)
  BY <1>1 DEF SameOps, IsWait
<1>6. b.wait_semaphores[k] \in SemInfo /\ k \in DOMAIN b.wait_semaphores
  BY <1>2, ElementOfSeq, LenProperties
<1>9. PICK d : d = [b.wait_semaphores[k] EXCEPT !.payload = p]
  OBVIOUS
<1>10. c.wait_semaphores[k] = d /\ d.payload = p
  <2>1. d.payload = p
    BY <1>6, <1>9 DEF SemInfo
  <2>2. c.wait_semaphores = [b.wait_semaphores EXCEPT ![k] = d]
    BY <1>2, <1>9
  <2> QED BY <1>6, <2>1, <2>2
<1>7. OpInfo(c, k).payload = p /\ OpInfo(b, k) = b.wait_semaphores[k]
  BY <1>4, <1>5, <1>10 DEF OpInfo
<1>8. \A l \in Ops(b) : l # k => OpInfo(c, l) = OpInfo(b, l)
  <2>1. \A l : l # k => c.wait_semaphores[l] = b.wait_semaphores[l]
    BY <1>2
  <2>2. Len(c.wait_semaphores) = Len(b.wait_semaphores)
    BY <1>1 DEF SameOps
  <2> SUFFICES ASSUME NEW l \in Ops(b), l # k PROVE OpInfo(c, l) = OpInfo(b, l)
    OBVIOUS
  <2>3. CASE IsWait(b, l)
    <3>1. c.wait_semaphores[l] = b.wait_semaphores[l] /\ IsWait(c, l)
      BY <1>5, <2>1, <2>3
    <3> QED BY <2>3, <3>1 DEF OpInfo
  <2>4. CASE ~IsWait(b, l)
    <3>1. ~IsWait(c, l)
      BY <1>5, <2>4
    <3> QED BY <1>2, <2>2, <2>4, <3>1 DEF OpInfo
  <2> QED BY <2>3, <2>4
<1> QED BY <1>1, <1>2, <1>4, <1>7, <1>8 DEF Paid, SameBatch

LEMMA SignalPaid ==
    ASSUME NEW b \in CB_SUBMISSION, NEW c \in CB_SUBMISSION, NEW k \in Nat, NEW i, i = k - Len(b.wait_semaphores),
           i \in 1..Len(b.signal_semaphores), NEW p \in Nat,
           PaysSignal(b, i, p, c)
    PROVE  Paid(b, k, p, c) /\ k \in Ops(b) /\ OpInfo(b, k) = b.signal_semaphores[i]
<1>1. SameOps(c, b)
  BY SignalPayload
<1>2. /\ b.wait_semaphores \in Seq(SemInfo) /\ b.signal_semaphores \in Seq(SemInfo)
      /\ c.signal_semaphores = [b.signal_semaphores EXCEPT ![i] = [b.signal_semaphores[i] EXCEPT !.payload = p]]
      /\ c.wait_semaphores = b.wait_semaphores /\ c.fence = b.fence /\ c.seq = b.seq
  BY DEF CB_SUBMISSION, PaysSignal
<1>3. PICK m \in Nat, n \in Nat : m = Len(b.wait_semaphores) /\ n = Len(b.signal_semaphores) /\ DOMAIN b.signal_semaphores = 1..n
  BY <1>2, LenProperties
<1>4. k \in Ops(b) /\ ~IsWait(b, k) /\ Ops(b) = 1..(m + n)
  <2>1. \A x, y, l \in Nat : l - x \in 1..y => l \in 1..(x + y) /\ ~(l <= x)
    OBVIOUS
  <2>2. k \in 1..(m + n) /\ ~(k <= m)
    BY <1>3, <2>1
  <2> QED BY <1>3, <2>2 DEF Ops, IsWait
<1>5. \A l : IsWait(b, l) <=> IsWait(c, l)
  BY <1>1 DEF SameOps, IsWait
<1>6. b.signal_semaphores[i] \in SemInfo /\ i \in DOMAIN b.signal_semaphores
  BY <1>2, ElementOfSeq, LenProperties
<1>9. PICK d : d = [b.signal_semaphores[i] EXCEPT !.payload = p]
  OBVIOUS
<1>10. c.signal_semaphores[i] = d /\ d.payload = p
  <2>1. d.payload = p
    BY <1>6, <1>9 DEF SemInfo
  <2>2. c.signal_semaphores = [b.signal_semaphores EXCEPT ![i] = d]
    BY <1>2, <1>9
  <2> QED BY <1>6, <2>1, <2>2
<1>7. OpInfo(c, k).payload = p /\ OpInfo(b, k) = b.signal_semaphores[i]
  BY <1>2, <1>4, <1>5, <1>10 DEF OpInfo
<1>8. \A l \in Ops(b) : l # k => OpInfo(c, l) = OpInfo(b, l)
  <2> SUFFICES ASSUME NEW l \in Ops(b), l # k PROVE OpInfo(c, l) = OpInfo(b, l)
    OBVIOUS
  <2>1. \A x, y \in Nat : \A j \in 1..y : j - x = k - x => j = k
    OBVIOUS
  <2>2. l - m # i
    BY <1>3, <1>4, <2>1
  <2>3. c.signal_semaphores[l - m] = b.signal_semaphores[l - m]
    BY <1>2, <2>2
  <2>4. CASE IsWait(b, l)
    <3>1. IsWait(c, l)
      BY <1>5, <2>4
    <3> QED BY <1>2, <2>4, <3>1 DEF OpInfo
  <2>5. CASE ~IsWait(b, l)
    <3>1. ~IsWait(c, l)
      BY <1>5, <2>5
    <3> QED BY <1>2, <1>3, <2>3, <2>5, <3>1 DEF OpInfo
  <2> QED BY <2>4, <2>5
<1> QED BY <1>1, <1>2, <1>4, <1>7, <1>8 DEF Paid, SameBatch

\* A new operation is the last one.
Appended(ops, op, ops2) ==
    /\ DOMAIN ops2 = 1..(Len(ops) + 1) /\ ops2[Len(ops) + 1] = op
    /\ \A i \in DOMAIN ops : ops2[i] = ops[i]

LEMMA EnqueueAppends ==
    ASSUME NEW r \in SemRecord, Below(r), NEW op \in SemOp, op.payload = r.next_payload
    PROVE  /\ SemEnqueue(r, TRUE, op).next_payload = r.next_payload + 1
           /\ Appended(r.operations, op, SemEnqueue(r, TRUE, op).operations)
<1>1. PICK ops \in Seq(SemOp) : ops = r.operations /\ r.next_payload \in Nat
  BY DEF SemRecord
<1>2. SemEnqueue(r, TRUE, op).operations = Emplace(ops, op) /\ SemEnqueue(r, TRUE, op).next_payload = r.next_payload + 1
  BY <1>1 DEF SemEnqueue, SemRecord
<1>3. \A i \in DOMAIN ops : ops[i].payload < op.payload
  BY <1>1 DEF Below
<1>4. /\ Len(Emplace(ops, op)) = Len(ops) + 1 /\ Emplace(ops, op)[Len(ops) + 1] = op
      /\ \A i \in 1..Len(ops) : Emplace(ops, op)[i] = ops[i]
  BY <1>3, EmplaceLast
<1>5. DOMAIN Emplace(ops, op) = 1..(Len(ops) + 1) /\ DOMAIN ops = 1..Len(ops)
  BY LenProperties DEF Emplace
<1> QED BY <1>1, <1>2, <1>4, <1>5 DEF Appended

\* EnqueueWait() and EnqueueSignal() of operation k of submission b, on semaphore s.
TellsOp(h, q, b, k, s, p) ==
    /\ OnlyHost(h) /\ hpc[h] = "enqueue" /\ hpc'[h] = "enqueue"
    /\ q \in Queue /\ call[h].queue = q /\ call'[h].queue = q /\ call'[h].batches = call[h].batches /\ call'[h].early = call[h].early
    /\ b \in CB_SUBMISSION /\ call[h].sub = b /\ Paid(b, k, p, call'[h].sub)
    /\ k \in Ops(b) /\ k \in Nat /\ call[h].idx = k /\ call'[h].idx = k + 1
    /\ s \in BinarySem /\ s = OpOn(b, k) /\ p \in Nat /\ sem[s].next_payload = p /\ sem'[s].next_payload = p + 1
    /\ \A r \in Sem : r # s => sem'[r] = sem[r]
    /\ \E op \in SemOp : /\ op.queue = q /\ op.seq = b.seq /\ op.payload = p
                         /\ Appended(sem[s].operations, op, sem'[s].operations)

LEMMA WaitPath ==
    ASSUME NEW f \in [Host -> Call], NEW h \in Host, NEW j, NEW p, NEW q, NEW g,
           g = [f EXCEPT ![h].idx = q, ![h].sub.wait_semaphores[j].payload = p]
    PROVE  PaysWait(f[h].sub, j, p, g[h].sub)
BY DEF PaysWait, Call

LEMMA ToldWaitCall ==
    ASSUME TypeOK, NEW h \in Host, SubmitWait(h), NEW w, NEW p, NEW j, j = call[h].idx, w = call[h].sub.wait_semaphores[j],
           p = OpPayload(sem[w.semaphore], w.semaphore \in BinarySem, w.payload)
    PROVE  PaysWait(call[h].sub, j, p, call'[h].sub)
<1>1. PICK q, f, g : q = call[h].idx + 1 /\ f = call /\ g = call'
  OBVIOUS
<1>2. g = [f EXCEPT ![h].idx = q, ![h].sub.wait_semaphores[j].payload = p]
  BY <1>1 DEF SubmitWait
<1>3. f \in [Host -> Call]
  BY <1>1 DEF TypeOK
<1>4. PaysWait(f[h].sub, j, p, g[h].sub)
  BY <1>2, <1>3, WaitPath
<1> QED BY <1>1, <1>4

LEMMA SignalPath ==
    ASSUME NEW f \in [Host -> Call], NEW h \in Host, NEW j, NEW p, NEW q, NEW g,
           g = [f EXCEPT ![h].idx = q, ![h].sub.signal_semaphores[j].payload = p]
    PROVE  PaysSignal(f[h].sub, j, p, g[h].sub)
BY DEF PaysSignal, Call

LEMMA ToldSignalCall ==
    ASSUME TypeOK, NEW h \in Host, SubmitSignal(h), NEW w, NEW p, NEW j, j = call[h].idx - Len(call[h].sub.wait_semaphores), w = call[h].sub.signal_semaphores[j],
           p = OpPayload(sem[w.semaphore], w.semaphore \in BinarySem, w.payload)
    PROVE  PaysSignal(call[h].sub, j, p, call'[h].sub)
<1>1. PICK q, f, g : q = call[h].idx + 1 /\ f = call /\ g = call'
  OBVIOUS
<1>2. g = [f EXCEPT ![h].idx = q, ![h].sub.signal_semaphores[j].payload = p]
  BY <1>1 DEF SubmitSignal
<1>3. f \in [Host -> Call]
  BY <1>1 DEF TypeOK
<1>4. PaysSignal(f[h].sub, j, p, g[h].sub)
  BY <1>2, <1>3, SignalPath
<1> QED BY <1>1, <1>4

LEMMA TellIs ==
    ASSUME TypeOK, TypeOK', TimelineSem = {}, AllBelow, NEW h \in Host, SubmitWait(h) \/ SubmitSignal(h)
    PROVE  /\ \E q, b, k, s, p : TellsOp(h, q, b, k, s, p)
           /\ issued' = issued /\ UNCHANGED <<executed, vk_sem, app_sem, queueVars, threadVars, retireVars, fence, hpc>>
<1>1. PICK b \in CB_SUBMISSION, d \in Call, c \in CB_SUBMISSION : b = call[h].sub /\ d = call[h] /\ c = call'[h].sub
  <2>1. call'[h].sub \in CB_SUBMISSION
    BY DEF TypeOK, Call
  <2> QED BY <2>1, CallFields
<1>2. b.wait_semaphores \in Seq(SemInfo) /\ b.signal_semaphores \in Seq(SemInfo) /\ b.seq \in Nat
  BY DEF CB_SUBMISSION
<1>3. PICK q \in Queue : q = d.queue
  <2>1. hpc[h] = "enqueue"
    BY DEF SubmitWait, SubmitSignal
  <2>2. hpc[h] \in QueuePc
    BY <2>1 DEF QueuePc, SubmitPc
  <2> QED BY <1>1, <2>2 DEF TypeOK
<1>4. \A t \in OpType, v \in Nat : /\ NewOp(t, q, b.seq, v) \in SemOp /\ NewOp(t, q, b.seq, v).payload = v
                                   /\ NewOp(t, q, b.seq, v).queue = q /\ NewOp(t, q, b.seq, v).seq = b.seq
  BY <1>2 DEF NewOp, SemOp
<1>5. PICK k \in Nat : k = call[h].idx
  BY CallFields
<1>6. CASE SubmitWait(h)
  <2>1. k \in 1..Len(b.wait_semaphores)
    BY <1>1, <1>5, <1>6 DEF SubmitWait
  <2>2. PICK v \in SemInfo : v = b.wait_semaphores[k]
    BY <1>2, <2>1, ElementOfSeq
  <2>3. PICK s \in BinarySem : s = v.semaphore /\ v.payload \in Nat /\ s \in Sem
    BY <2>2 DEF SemInfo, Sem
  <2>4. PICK r \in SemRecord, p \in Nat : r = sem[s] /\ p = r.next_payload /\ Below(r)
    BY <2>3 DEF TypeOK, SemRecord, AllBelow
  <2>5. sem' = [sem EXCEPT ![s] = SemEnqueueWait(r, TRUE, q, b.seq, v.payload)]
    <3>1. (s \in BinarySem) = TRUE
      BY <2>3
    <3> QED BY <1>1, <1>3, <1>5, <1>6, <2>1, <2>2, <2>3, <2>4, <3>1 DEF SubmitWait
  <2>6. sem'[s] = SemEnqueueWait(r, TRUE, q, b.seq, v.payload) /\ \A t \in Sem : t # s => sem'[t] = sem[t]
    BY <2>3, <2>5 DEF TypeOK
  <2>7. PICK r2 : r2 = [r EXCEPT !.scope = IF @ = "kSyncScopeExternalTemporary" THEN "kSyncScopeInternal" ELSE @]
    OBVIOUS
  <2>8. r2 \in SemRecord /\ r2.operations = r.operations /\ r2.next_payload = p /\ Below(r2)
    BY <2>4, <2>7 DEF SemRecord, SyncScope, Below
  <2>9. PICK op \in SemOp : op = NewOp("kWait", q, b.seq, p) /\ op.queue = q /\ op.seq = b.seq /\ op.payload = p
    <3>1. "kWait" \in OpType
      BY DEF OpType
    <3> QED BY <1>4, <3>1
  <2>10. sem'[s] = SemEnqueue(r2, TRUE, op)
    BY <2>6, <2>7, <2>8, <2>9 DEF SemEnqueueWait, OpPayload
  <2>11. sem'[s].next_payload = p + 1 /\ Appended(sem[s].operations, op, sem'[s].operations)
    BY <2>4, <2>8, <2>9, <2>10, EnqueueAppends
  <2>12. PaysWait(b, k, p, c)
    <3>1. OpPayload(sem[s], s \in BinarySem, v.payload) = p
      BY <2>3, <2>4 DEF OpPayload
    <3>5. PICK w, p2, j : /\ w = call[h].sub.wait_semaphores[j] /\ p2 = OpPayload(sem[w.semaphore], w.semaphore \in BinarySem, w.payload)
                          /\ j = call[h].idx
      OBVIOUS
    <3>6. PaysWait(call[h].sub, j, p2, call'[h].sub)
      BY <1>6, <3>5, ToldWaitCall
    <3>7. j = k /\ w = v /\ p2 = p
      BY <1>1, <1>5, <2>2, <2>3, <3>1, <3>5
    <3> QED BY <1>1, <3>6, <3>7
  <2>13. Paid(b, k, p, c) /\ k \in Ops(b) /\ OpInfo(b, k) = v
    <3>2. Paid(b, k, p, c) /\ k \in Ops(b) /\ OpInfo(b, k) = b.wait_semaphores[k]
      BY <2>1, <2>12, WaitPaid
    <3> QED BY <2>2, <3>2
  <2>14. OpOn(b, k) = s
    BY <2>3, <2>13, OpInfoType
  <2>15. TellsOp(h, q, b, k, s, p)
    BY <1>1, <1>3, <1>5, <1>6, <2>3, <2>4, <2>6, <2>9, <2>11, <2>13, <2>14, SubmitWaitCall DEF TellsOp
  <2> QED BY <1>6, <2>15 DEF SubmitWait, deviceVars
<1>7. CASE SubmitSignal(h)
  <2>1. PICK i \in 1..Len(b.signal_semaphores) : i = k - Len(b.wait_semaphores)
    BY <1>1, <1>5, <1>7 DEF SubmitSignal
  <2>2. PICK v \in SemInfo : v = b.signal_semaphores[i]
    BY <1>2, <2>1, ElementOfSeq
  <2>3. PICK s \in BinarySem : s = v.semaphore /\ v.payload \in Nat /\ s \in Sem
    BY <2>2 DEF SemInfo, Sem
  <2>4. PICK r \in SemRecord, p \in Nat : r = sem[s] /\ p = r.next_payload /\ Below(r)
    BY <2>3 DEF TypeOK, SemRecord, AllBelow
  <2>5. sem' = [sem EXCEPT ![s] = SemEnqueueSignal(r, TRUE, q, b.seq, v.payload)]
    <3>1. (s \in BinarySem) = TRUE
      BY <2>3
    <3> QED BY <1>1, <1>3, <1>5, <1>7, <2>1, <2>2, <2>3, <2>4, <3>1 DEF SubmitSignal
  <2>6. sem'[s] = SemEnqueueSignal(r, TRUE, q, b.seq, v.payload) /\ \A t \in Sem : t # s => sem'[t] = sem[t]
    BY <2>3, <2>5 DEF TypeOK
  <2>9. PICK op \in SemOp : op = NewOp("kSignal", q, b.seq, p) /\ op.queue = q /\ op.seq = b.seq /\ op.payload = p
    <3>1. "kSignal" \in OpType
      BY DEF OpType
    <3> QED BY <1>4, <3>1
  <2>10. sem'[s] = SemEnqueue(r, TRUE, op)
    BY <2>4, <2>6, <2>9 DEF SemEnqueueSignal, OpPayload
  <2>11. sem'[s].next_payload = p + 1 /\ Appended(sem[s].operations, op, sem'[s].operations)
    BY <2>4, <2>9, <2>10, EnqueueAppends
  <2>12. PaysSignal(b, i, p, c)
    <3>1. OpPayload(sem[s], s \in BinarySem, v.payload) = p
      BY <2>3, <2>4 DEF OpPayload
    <3>5. PICK w, p2, j : /\ w = call[h].sub.signal_semaphores[j] /\ p2 = OpPayload(sem[w.semaphore], w.semaphore \in BinarySem, w.payload)
                          /\ j = (call[h].idx - Len(call[h].sub.wait_semaphores))
      OBVIOUS
    <3>6. PaysSignal(call[h].sub, j, p2, call'[h].sub)
      BY <1>7, <3>5, ToldSignalCall
    <3>7. j = i /\ w = v /\ p2 = p
      BY <1>1, <1>5, <2>1, <2>2, <2>3, <3>1, <3>5
    <3> QED BY <1>1, <3>6, <3>7
  <2>13. Paid(b, k, p, c) /\ k \in Ops(b) /\ OpInfo(b, k) = v
    <3>1. i = k - Len(b.wait_semaphores) /\ i \in 1..Len(b.signal_semaphores)
      BY <2>1
    <3>2. Paid(b, k, p, c) /\ k \in Ops(b) /\ OpInfo(b, k) = b.signal_semaphores[i]
      BY <2>12, <3>1, SignalPaid
    <3> QED BY <2>2, <3>2
  <2>14. OpOn(b, k) = s
    BY <2>3, <2>13, OpInfoType
  <2>16. /\ OnlyHost(h) /\ hpc[h] = "enqueue" /\ hpc'[h] = "enqueue" /\ call'[h].early = call[h].early
         /\ call'[h].queue = call[h].queue /\ call'[h].batches = call[h].batches /\ call'[h].idx = call[h].idx + 1
    BY <1>7, SubmitSignalCall
  <2>15. TellsOp(h, q, b, k, s, p)
    BY <1>1, <1>3, <1>5, <2>3, <2>4, <2>6, <2>9, <2>11, <2>13, <2>14, <2>16 DEF TellsOp
  <2> QED BY <1>7, <2>15 DEF SubmitSignal, deviceVars
<1> QED BY <1>6, <1>7

LEMMA CallsTell ==
    ASSUME IInv, IInv', CallInv, NEW h \in Host, NEW q, NEW b, NEW k, NEW s, NEW p, TellsOp(h, q, b, k, s, p),
           issued' = issued, seq_' = seq_, b.seq \in DOMAIN issued[q], Number(<<q, b.seq, k>>) = p
    PROVE  CallInv'
<1>1. CallsIssued /\ SubIssued /\ CallsOnce /\ Room /\ TypeOK /\ TypeOK'
  BY DEF CallInv, IInv
<1>2. /\ OnlyHost(h) /\ hpc[h] = "enqueue" /\ hpc'[h] = "enqueue"
      /\ call[h].queue = q /\ call'[h].queue = q /\ call'[h].batches = call[h].batches /\ call'[h].early = call[h].early
      /\ b \in CB_SUBMISSION /\ call[h].sub = b /\ k \in Ops(b) /\ k \in Nat /\ call[h].idx = k /\ call'[h].idx = k + 1
  BY DEF TellsOp
<1>3. hpc[h] \in SubmitPc /\ hpc'[h] \in SubmitPc
  BY <1>2 DEF SubmitPc
<1>4. /\ q \in Queue
      /\ \A g \in Host : hpc[g] \in SubmitPc => call[g].queue \in Queue /\ (call[g].queue # q \/ g = h)
  BY <1>2, <1>3, SubmitCallIs
<1>5. PICK c \in CB_SUBMISSION, d \in CB_SUBMISSION : c = call'[h].sub /\ d = issued[q][b.seq]
  <2>1. call'[h].sub \in CB_SUBMISSION
    BY <1>1 DEF TypeOK, Call
  <2> QED BY <1>1, <1>4, <2>1, IssuedType
<1>6. /\ SameBatch(c, b) /\ c.seq = b.seq /\ OpInfo(c, k).payload = p
      /\ \A l \in Ops(b) : l # k => OpInfo(c, l) = OpInfo(b, l)
  BY <1>5 DEF TellsOp, Paid
<1>7. /\ SameBatch(d, b)
      /\ \A l \in Ops(b) : l < k => OpInfo(b, l) = OpInfo(d, l)
  BY <1>1, <1>2, <1>5 DEF SubIssued, SubIs
<1>8. SameBatch(d, c) /\ Ops(c) = Ops(b) /\ Ops(d) = Ops(b)
  BY <1>6, <1>7, SameBatchRules
<1>9. OpInfo(c, k) = OpInfo(d, k)
  <2>1. OpInfo(c, k) \in SemInfo /\ OpInfo(d, k) \in SemInfo
    BY <1>2, <1>5, <1>8, OpInfoType
  <2>2. OpInfo(c, k).semaphore = OpInfo(d, k).semaphore
    <3>1. OpOn(d, k) = OpOn(c, k)
      BY <1>2, <1>8 DEF SameBatch, SameOps
    <3> QED BY <1>2, <1>5, <1>8, <3>1, OpInfoType
  <2>3. OpInfo(d, k).payload = p
    BY <1>5 DEF Number
  <2>4. \A v, w \in SemInfo : v.semaphore = w.semaphore /\ v.payload = w.payload => v = w
    BY DEF SemInfo
  <2> QED BY <1>6, <2>1, <2>2, <2>3, <2>4
<1>10. SubIs(h)'
  <2>1. \A l \in Ops(c) : l < k + 1 => OpInfo(c, l) = OpInfo(d, l)
    <3> SUFFICES ASSUME NEW l \in Ops(c), l < k + 1 PROVE OpInfo(c, l) = OpInfo(d, l)
      OBVIOUS
    <3>1. l \in Nat
      BY <1>5, OpInfoType
    <3>2. CASE l = k
      BY <1>9, <3>2
    <3>3. CASE l # k
      <4>1. l < k
        BY <1>2, <3>1, <3>3
      <4> QED BY <1>6, <1>7, <1>8, <3>3, <4>1
    <3> QED BY <3>2, <3>3
  <2> QED BY <1>2, <1>5, <1>6, <1>8, <2>1 DEF SubIs
<1>11. CallIssued(h)'
  <2>1. Accepted(h)' = Accepted(h) /\ Skip(h)' = Skip(h)
    BY <1>2 DEF Accepted, Skip
  <2>2. CallIssued(h)
    BY <1>1, <1>3 DEF CallsIssued
  <2> QED BY <1>2, <2>1, <2>2 DEF CallIssued, Ahead
<1>12. CallsIssued' /\ SubIssued'
  BY <1>1, <1>2, <1>3, <1>4, <1>10, <1>11, MoveCall
<1>13. CallsOnce' /\ Room'
  BY <1>1, <1>2, <1>3, CallsOnceRoom
<1> QED BY <1>12, <1>13 DEF CallInv

\* Submissions with the same operations have the same semaphores.
LEMMA SameInfos ==
    ASSUME NEW b \in CB_SUBMISSION, NEW d \in CB_SUBMISSION, SameBatch(d, b), \A k \in Ops(b) : OpInfo(b, k) = OpInfo(d, k)
    PROVE  SameSems(b, d)
<1>1. PICK m \in Nat, n \in Nat : /\ m = Len(b.wait_semaphores) /\ m = Len(d.wait_semaphores)
                                  /\ n = Len(b.signal_semaphores) /\ n = Len(d.signal_semaphores)
  <2>1. b.wait_semaphores \in Seq(SemInfo) /\ b.signal_semaphores \in Seq(SemInfo)
    BY DEF CB_SUBMISSION
  <2> QED BY <2>1, LenProperties DEF SameBatch, SameOps
<1>2. \A l : IsWait(b, l) <=> IsWait(d, l)
  BY <1>1 DEF IsWait
<1>3. \A i \in 1..m : i \in Ops(b) /\ IsWait(b, i)
  <2>1. \A x, y \in Nat : \A l \in 1..x : l \in 1..(x + y) /\ l <= x
    OBVIOUS
  <2> QED BY <1>1, <2>1 DEF Ops, IsWait
<1>4. \A i \in 1..n : (m + i) \in Ops(b) /\ ~IsWait(b, m + i) /\ (m + i) - m = i
  <2>1. \A x, y \in Nat : \A l \in 1..y : (x + l) \in 1..(x + y) /\ ~(x + l <= x) /\ (x + l) - x = l
    OBVIOUS
  <2> QED BY <1>1, <2>1 DEF Ops, IsWait
<1>5. \A i \in 1..m : b.wait_semaphores[i] = d.wait_semaphores[i]
  BY <1>2, <1>3 DEF OpInfo
<1>6. \A i \in 1..n : b.signal_semaphores[i] = d.signal_semaphores[i]
  <2> TAKE i \in 1..n
  <2>1. OpInfo(b, m + i) = b.signal_semaphores[(m + i) - m]
    BY <1>1, <1>4 DEF OpInfo
  <2>2. OpInfo(d, m + i) = d.signal_semaphores[(m + i) - m]
    BY <1>1, <1>2, <1>4 DEF OpInfo
  <2> QED BY <1>4, <2>1, <2>2
<1>7. \A s, t \in Seq(SemInfo) : Len(s) = Len(t) /\ (\A i \in 1..Len(s) : s[i] = t[i]) => s = t
  BY SeqEqual
<1>8. /\ b.wait_semaphores \in Seq(SemInfo) /\ b.signal_semaphores \in Seq(SemInfo)
      /\ d.wait_semaphores \in Seq(SemInfo) /\ d.signal_semaphores \in Seq(SemInfo)
  BY DEF CB_SUBMISSION
<1>9. b.wait_semaphores = d.wait_semaphores
  BY <1>1, <1>5, <1>7, <1>8
<1>10. b.signal_semaphores = d.signal_semaphores
  BY <1>1, <1>6, <1>7, <1>8
<1> QED BY <1>9, <1>10 DEF SameSems

\* A host thread that has a submission in hand has its number.
LEMMA PositiveSeq ==
    ASSUME IInv, NEW h \in Host, hpc[h] \in PushPc
    PROVE  call[h].queue \in Queue /\ seq_[call[h].queue] >= 1 /\ seq_[call[h].queue] = call[h].sub.seq
<1>1. TypeOK /\ Numbering
  BY DEF IInv, Order
<1>2. PICK q \in Queue : q = call[h].queue
  <2>1. hpc[h] \in QueuePc
    BY DEF PushPc, QueuePc, SubmitPc
  <2> QED BY <1>1, <2>1 DEF TypeOK
<1>3. Pushing(q)
  BY <1>2 DEF Pushing
<1>4. Popped(q) + Len(submissions_[q]) + 1 = seq_[q]
  BY <1>1, <1>3 DEF Numbering
<1>5. PICK m \in Nat, n \in Nat : m = Popped(q) /\ n = Len(submissions_[q])
  <2>1. Len(submissions_[q]) \in Nat
    BY <1>1, LenProperties DEF TypeOK
  <2>2. Popped(q) \in Nat
    BY <1>1 DEF TypeOK, Popped, CB_SUBMISSION
  <2> QED BY <2>1, <2>2
<1>6. m + n + 1 >= 1
  OBVIOUS
<1> QED BY <1>1, <1>2, <1>4, <1>5, <1>6 DEF Numbering

\* A fence is told: all semaphores are.
LEMMA CallsFence ==
    ASSUME IInv, CallInv, SubIsFirst, Tracked, NEW h \in Host, SubmitFence(h)
    PROVE  CallInv'
<1>1. CallsIssued /\ SubIssued /\ CallsOnce /\ Room /\ TypeOK
  BY DEF CallInv, IInv
<1>2. /\ OnlyHost(h) /\ hpc[h] = "enqueue" /\ hpc'[h] = "push" /\ issued' = issued /\ seq_' = seq_
      /\ call'[h].queue = call[h].queue /\ call'[h].batches = call[h].batches /\ call'[h].sub = call[h].sub
  BY <1>1, SubmitFenceCall DEF SubmitFence, deviceVars, queueVars
<1>3. hpc[h] \in SubmitPc /\ hpc'[h] \in SubmitPc
  BY <1>2 DEF SubmitPc
<1>4. PICK q : q = call[h].queue
  OBVIOUS
<1>5. /\ q \in Queue
      /\ \A g \in Host : hpc[g] \in SubmitPc => call[g].queue \in Queue /\ (call[g].queue # q \/ g = h)
  BY <1>3, <1>4, SubmitCallIs
<1>6. call'[h].early = call[h].early
  <2>1. call[h].sub.fence \in Fence \cup {NoFence}
    BY <1>1, CallFields DEF CB_SUBMISSION
  <2>2. CASE call[h].sub.fence \in Fence
    BY <1>1, <2>2, SubmitFenceCall DEF Tracked
  <2>3. CASE call[h].sub.fence = NoFence
    BY <2>3 DEF SubmitFence
  <2> QED BY <2>1, <2>2, <2>3
<1>7. CallIssued(h)'
  <2>1. Accepted(h)' = Accepted(h) /\ Skip(h)' = Skip(h)
    BY <1>2 DEF Accepted, Skip, PushPc
  <2>2. CallIssued(h)
    BY <1>1, <1>3 DEF CallsIssued
  <2> QED BY <1>2, <1>6, <2>1, <2>2 DEF CallIssued, Ahead
<1>8. SubIs(h)'
  <2>1. PICK b, n : b \in CB_SUBMISSION /\ b = call[h].sub /\ n = b.seq
    BY <1>1, CallFields
  <2>2. PICK L \in Nat, M \in Nat : L = Len(b.wait_semaphores) /\ M = Len(b.signal_semaphores) /\ Ops(b) = 1..(L + M)
    <3>1. b.wait_semaphores \in Seq(SemInfo) /\ b.signal_semaphores \in Seq(SemInfo)
      BY <2>1 DEF CB_SUBMISSION
    <3> QED BY <3>1, LenProperties DEF Ops
  <2>3. \A k \in Ops(b) : k < call[h].idx
    <3>1. call[h].idx = L + M + 1
      BY <2>1, <2>2 DEF SubmitFence
    <3>2. \A l \in 1..(L + M) : l < L + M + 1
      OBVIOUS
    <3> QED BY <2>2, <3>1, <3>2
  <2>4. SameBatch(issued[q][n], b) /\ \A k \in Ops(b) : OpInfo(b, k) = OpInfo(issued[q][n], k)
    BY <1>1, <1>2, <1>4, <2>1, <2>3 DEF SubIssued, SubIs
  <2>5. n \in DOMAIN issued[q]
    <3>1. n = seq_[q] /\ Ahead(q) = Accepted(h) /\ Accepted(h) = Len(call[h].batches) - 1
      BY <1>1, <1>2, <1>3, <1>4, <2>1 DEF IInv, Order, Numbering, PushPc, CallsIssued, CallIssued, Accepted, Skip
    <3>2. PICK N \in Nat, K \in Nat, m \in Nat : N = Len(issued[q]) /\ K = Len(call[h].batches) /\ m = seq_[q] /\ K >= 1
      <4>1. Len(issued[q]) \in Nat /\ seq_[q] \in Nat
        BY <1>1, <1>5, QueueLengths
      <4>2. PICK bs \in Seq(CB_SUBMISSION) : bs = call[h].batches
        BY <1>1, CallFields
      <4>3. Len(bs) \in Nat /\ DOMAIN bs = 1..Len(bs) /\ 1 \in DOMAIN bs
        BY <1>1, <1>3, <4>2, BatchOne, LenProperties
      <4> QED BY <4>1, <4>2, <4>3
    <3>3. N - m = K - 1
      BY <3>1, <3>2 DEF Ahead
    <3>4. m >= 1
      BY <1>2, <1>4, <3>2, PositiveSeq DEF PushPc
    <3>5. m \in 1..N
      BY <3>2, <3>3, <3>4
    <3> QED BY <1>1, <1>5, <3>1, <3>2, <3>5, IssuedType
  <2>6. SameSems(b, issued[q][n])
    BY <1>1, <1>5, <2>1, <2>4, <2>5, IssuedType, SameInfos
  <2> QED BY <1>2, <1>4, <2>1, <2>6 DEF SubIs
<1>9. CallsIssued' /\ SubIssued'
  BY <1>1, <1>2, <1>3, <1>4, <1>5, <1>7, <1>8, MoveCall
<1>10. CallsOnce' /\ Room'
  BY <1>1, <1>2, <1>3, CallsOnceRoom
<1> QED BY <1>9, <1>10 DEF CallInv

LEMMA TailIs ==
    ASSUME NEW S, NEW s \in Seq(S), Len(s) > 1
    PROVE  /\ Len(s) \in Nat /\ Len(Tail(s)) = Len(s) - 1 /\ DOMAIN s = 1..Len(s) /\ DOMAIN Tail(s) = 1..(Len(s) - 1)
           /\ \A i \in DOMAIN Tail(s) : i + 1 \in DOMAIN s /\ Tail(s)[i] = s[i + 1]
<1>1. PICK n \in Nat : n = Len(s) /\ DOMAIN s = 1..n /\ s # << >>
  BY LenProperties, EmptySeq
<1>2. /\ Tail(s) \in Seq(S) /\ Len(Tail(s)) = n - 1
      /\ \A i \in 1..Len(Tail(s)) : Tail(s)[i] = s[i + 1]
  BY <1>1, HeadTailProperties
<1>3. DOMAIN Tail(s) = 1..(n - 1)
  BY <1>2, LenProperties
<1>4. \A i \in 1..(n - 1) : i + 1 \in 1..n
  BY <1>1
<1> QED BY <1>1, <1>2, <1>3, <1>4

\* A submission goes into the deque, and the call goes on to the next batch or ends.
LEMMA CallsPush ==
    ASSUME IInv, CallInv, NEW h \in Host, SubmitPush(h)
    PROVE  CallInv'
<1>1. CallsIssued /\ SubIssued /\ CallsOnce /\ Room /\ TypeOK
  BY DEF CallInv, IInv
<1>2. /\ OnlyHost(h) /\ hpc[h] = "push"
      /\ \/ /\ Len(call[h].batches) > 1 /\ hpc'[h] = "cbs"
            /\ call'[h].batches = Tail(call[h].batches)
            /\ call'[h].queue = call[h].queue /\ call'[h].early = call[h].early
         \/ /\ Len(call[h].batches) = 1 /\ hpc'[h] \in {"idle", "qnotify"} /\ call'[h].batches = << >>
            /\ hpc'[h] = "qnotify" =>
                  call[h].early > 0 /\ call'[h].until = call[h].early /\ call'[h].queue = call[h].queue
  BY <1>1, SubmitPushCall
<1>3. issued' = issued /\ seq_' = seq_
  BY DEF SubmitPush, deviceVars
<1>4. PICK q : q = call[h].queue
  OBVIOUS
<1>5. /\ q \in Queue /\ hpc[h] \in SubmitPc
      /\ \A g \in Host : hpc[g] \in SubmitPc => call[g].queue \in Queue /\ (call[g].queue # q \/ g = h)
  BY <1>2, <1>4, SubmitCallIs DEF SubmitPc
<1>6. PICK bs \in Seq(CB_SUBMISSION), L \in Nat : bs = call[h].batches /\ L = Len(bs)
  BY <1>1, CallFields, LenProperties
<1>7. /\ Ahead(q) = L - 1 /\ call[h].early = 0
      /\ \A i \in 1..(L - 1) : SameBatch(issued[q][seq_[q] + i], bs[i + 1])
  <2>1. CallIssued(h) /\ Accepted(h) = L - 1 /\ Skip(h) = 1
    BY <1>1, <1>2, <1>5, <1>6 DEF CallsIssued, Accepted, Skip, PushPc
  <2> QED BY <1>4, <1>6, <2>1 DEF CallIssued
<1>8. CASE L > 1
  <2>1. /\ hpc'[h] = "cbs" /\ call'[h].batches = Tail(bs) /\ call'[h].queue = q /\ call'[h].early = call[h].early
    <3>1. Len(call[h].batches) # 1
      <4>1. \A n \in Nat : n > 1 => n # 1
        OBVIOUS
      <4>2. L # 1
        BY <1>8, <4>1
      <4> QED BY <1>6, <4>2
    <3> QED BY <1>2, <1>4, <1>6, <3>1
  <2>2. /\ Len(Tail(bs)) = L - 1 /\ DOMAIN bs = 1..L /\ DOMAIN Tail(bs) = 1..(L - 1)
        /\ \A i \in DOMAIN Tail(bs) : i + 1 \in DOMAIN bs /\ Tail(bs)[i] = bs[i + 1]
    BY <1>6, <1>8, TailIs
  <2>3. Skip(h)' = 0 /\ hpc'[h] \in SubmitPc
    BY <2>1 DEF Skip, PushPc, SubmitPc
  <2>4. Accepted(h)' = L - 1
    <3>1. (L - 1) - 0 = L - 1
      OBVIOUS
    <3> QED BY <2>1, <2>2, <2>3, <3>1 DEF Accepted
  <2>5. CallIssued(h)'
    <3>1. \A i \in 1..(L - 1) : i + 0 = i
      OBVIOUS
    <3>2. \A i \in 1..(L - 1) : SameBatch(issued[q][seq_[q] + i], Tail(bs)[i + 0])
      BY <1>7, <2>2, <3>1
    <3> QED BY <1>3, <1>7, <2>1, <2>3, <2>4, <3>2 DEF CallIssued, Ahead
  <2>6. SubIs(h)'
    BY <2>1 DEF SubIs
  <2>7. CallsIssued' /\ SubIssued'
    BY <1>1, <1>2, <1>3, <1>4, <1>5, <2>1, <2>3, <2>5, <2>6, MoveCall
  <2>8. \A i \in DOMAIN call'[h].batches : NamesOnce(call'[h].batches[i])
    BY <1>1, <1>5, <1>6, <2>1, <2>2 DEF CallsOnce
  <2>9. CallsOnce' /\ Room'
    BY <1>1, <1>2, <1>3, <1>5, <2>1, <2>8, CallsOnceRoom
  <2> QED BY <2>7, <2>9 DEF CallInv
<1>9. CASE ~(L > 1)
  <2>1. hpc'[h] = "idle" /\ call'[h].batches = << >> /\ L = 1
    BY <1>2, <1>6, <1>7, <1>9
  <2>2. hpc'[h] \notin SubmitPc /\ hpc'[h] # "driver"
    BY <2>1 DEF SubmitPc
  <2>3. Len(issued'[q]) - seq_'[q] = 0
    BY <1>3, <1>7, <2>1 DEF Ahead
  <2>4. CallsIssued' /\ SubIssued'
    BY <1>1, <1>2, <1>3, <1>4, <1>5, <2>2, <2>3, MoveCall
  <2>5. CallsOnce' /\ Room'
    BY <1>1, <1>2, <1>3, <1>5, <2>1, <2>2, CallsOnceRoom
  <2> QED BY <2>4, <2>5 DEF CallInv
<1> QED BY <1>8, <1>9
=============================================================================
