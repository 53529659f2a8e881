----------------------------- MODULE InUseProofs ----------------------------
(***************************************************************************)
(* Proofs about InUseExact: in_use_ counts the references of the submissions *)
(* in use.  The sum is a fold over a finite set; what it computes is proved  *)
(* with smallest counterexamples.                                            *)
(***************************************************************************)
EXTENDS InUseInv, RetirementProofs

-----------------------------------------------------------------------------
(* Sums over finite sets *)

\* Every nonempty family of finite sets has a minimal member.
LEMMA SmallestSet ==
    ASSUME NEW U, IsFiniteSet(U), NEW F \in SUBSET (SUBSET U), F # {}
    PROVE  \E S \in F : \A T \in F : T \subseteq S => T = S
<1>1. F \subseteq FiniteSubsetsOf(U)
  BY FS_FiniteSubsetsOfFinite
<1>2. PICK S \in F : \A T \in F : ~(<<T, S>> \in StrictSubsetOrdering(U))
  <2>1. IsWellFoundedOn(StrictSubsetOrdering(U), FiniteSubsetsOf(U))
    BY FS_StrictSubsetOrderingWellFounded
  <2> QED BY <1>1, <2>1, WFMin
<1>3. ASSUME NEW T \in F, T \subseteq S, T # S PROVE FALSE
  <2>1. <<T, S>> \in (SUBSET U) \X (SUBSET U)
    BY <1>3
  <2>2. <<T, S>> \in StrictSubsetOrdering(U)
    BY <1>3, <2>1 DEF StrictSubsetOrdering
  <2> QED BY <1>2, <1>3, <2>2
<1> QED BY <1>3

\* The recursion of SumFunctionOnSet: g gives the sums of f over the subsets of S.
Pick(S) == CHOOSE x \in S : TRUE
SumStep(f, g, T) == IF T = {} THEN 0 ELSE f[Pick(T)] + g[T \ {Pick(T)}]
Sums(f, g, S) == g = [T \in SUBSET S |-> SumStep(f, g, T)]

LEMMA SumIs ==
    ASSUME NEW f, NEW S
    PROVE  SumFunctionOnSet(f, S) = (CHOOSE g : Sums(f, g, S))[S]
BY DEF SumFunctionOnSet, FoldFunctionOnSet, MapThenFoldSet, Sums, SumStep, Pick

LEMMA PickIn == \A T : T # {} => Pick(T) \in T /\ T \ {Pick(T)} \subseteq T /\ T \ {Pick(T)} # T
BY DEF Pick

LEMMA SumsAt ==
    ASSUME NEW f, NEW g, NEW S, Sums(f, g, S), NEW T \in SUBSET S
    PROVE  g[T] = SumStep(f, g, T)
BY DEF Sums

\* There is one such g, whichever set it is restricted to.
LEMMA SumsAgree ==
    ASSUME NEW f, NEW S, IsFiniteSet(S), NEW g, Sums(f, g, S), NEW R \in SUBSET S, NEW k, Sums(f, k, R), NEW V \in SUBSET R
    PROVE  g[V] = k[V]
<1>1. SUFFICES ASSUME {T \in SUBSET R : g[T] # k[T]} # {} PROVE FALSE
  OBVIOUS
<1>2. IsFiniteSet(R)
  BY FS_Subset
<1>3. PICK T \in SUBSET R : g[T] # k[T] /\ \A X \in SUBSET R : g[X] # k[X] /\ X \subseteq T => X = T
  <2> DEFINE F == {X \in SUBSET R : g[X] # k[X]}
  <2>1. F \in SUBSET (SUBSET R) /\ F # {}
    BY <1>1
  <2>2. PICK X \in F : \A Y \in F : Y \subseteq X => Y = X
    <3> HIDE DEF F
    <3> QED BY <1>2, <2>1, SmallestSet
  <2> QED BY <2>2
<1>4. T \in SUBSET S /\ g[T] = SumStep(f, g, T) /\ k[T] = SumStep(f, k, T)
  BY SumsAt
<1>5. T # {}
  BY <1>3, <1>4 DEF SumStep
<1>6. g[T \ {Pick(T)}] = k[T \ {Pick(T)}]
  <2>1. T \ {Pick(T)} \in SUBSET R /\ T \ {Pick(T)} \subseteq T /\ T \ {Pick(T)} # T
    BY <1>5, PickIn
  <2> QED BY <1>3, <2>1
<1> QED BY <1>3, <1>4, <1>5, <1>6 DEF SumStep

LEMMA SumsExist ==
    ASSUME NEW f, NEW S, IsFiniteSet(S)
    PROVE  \E g : Sums(f, g, S)
<1>1. SUFFICES ASSUME ~\E g : Sums(f, g, S) PROVE FALSE
  OBVIOUS
<1>2. PICK R \in SUBSET S : /\ ~\E g : Sums(f, g, R)
                            /\ \A X \in SUBSET S : (~\E g : Sums(f, g, X)) /\ X \subseteq R => X = R
  <2> DEFINE F == {X \in SUBSET S : ~\E g : Sums(f, g, X)}
  <2>1. F \in SUBSET (SUBSET S) /\ F # {}
    BY <1>1
  <2>2. PICK X \in F : \A Y \in F : Y \subseteq X => Y = X
    <3> HIDE DEF F
    <3> QED BY <2>1, SmallestSet
  <2> QED BY <2>2
<1> DEFINE k(X) == CHOOSE g : Sums(f, g, X)
<1>3. ASSUME NEW X \in SUBSET R, X # R PROVE Sums(f, k(X), X) /\ IsFiniteSet(X)
  <2>1. \E g : Sums(f, g, X)
    BY <1>2, <1>3
  <2> QED BY <2>1, FS_Subset
<1> DEFINE h == [X \in SUBSET R |-> IF X = R THEN SumStep(f, k(R \ {Pick(R)}), R) ELSE k(X)[X]]
<1>4. ASSUME NEW X \in SUBSET R PROVE h[X] = SumStep(f, h, X)
  <2>1. CASE X = {}
    <3>1. CASE X = R
      BY <2>1, <3>1 DEF SumStep
    <3>2. CASE X # R
      <4>1. k(X)[X] = SumStep(f, k(X), X)
        <5>1. Sums(f, k(X), X)
          BY <1>3, <3>2
        <5> HIDE DEF k
        <5> QED BY <5>1, SumsAt
      <4>2. h[X] = k(X)[X]
        BY <3>2
      <4> HIDE DEF h, k
      <4> QED BY <2>1, <4>1, <4>2 DEF SumStep
    <3> QED BY <3>1, <3>2
  <2>2. CASE X # {}
    <3> DEFINE Y == X \ {Pick(X)}
    <3>1. Y \in SUBSET R /\ Y # R /\ Y \subseteq X /\ Y # X /\ Y \in SUBSET X
      BY <2>2, PickIn
    <3>2. h[Y] = k(Y)[Y]
      BY <3>1
    <3>3. Sums(f, k(Y), Y)
      BY <1>3, <3>1
    <3>4. CASE X = R
      <4>1. h[X] = SumStep(f, k(Y), X)
        BY <3>4
      <4> HIDE DEF h, k
      <4> QED BY <2>2, <3>2, <4>1 DEF SumStep
    <3>5. CASE X # R
      <4>1. h[X] = k(X)[X]
        BY <3>5
      <4>2. Sums(f, k(X), X) /\ IsFiniteSet(X)
        BY <1>3, <3>5
      <4> HIDE DEF h, k
      <4>3. k(X)[X] = SumStep(f, k(X), X)
        BY <4>2, SumsAt
      <4>4. k(X)[Y] = k(Y)[Y]
        <5>1. Y \in SUBSET X /\ Y \in SUBSET Y
          BY <3>1
        <5> HIDE DEF Y
        <5> QED BY <3>3, <4>2, <5>1, SumsAgree
      <4> QED BY <2>2, <3>2, <4>1, <4>3, <4>4 DEF SumStep
    <3> QED BY <3>4, <3>5
  <2> QED BY <2>1, <2>2
<1>5. Sums(f, h, R)
  <2>1. h = [X \in SUBSET R |-> h[X]]
    OBVIOUS
  <2> HIDE DEF h
  <2> QED BY <1>4, <2>1 DEF Sums
<1> QED BY <1>2, <1>5

\* The recursion of the sum itself.
LEMMA SumPick ==
    ASSUME NEW f, NEW S, IsFiniteSet(S)
    PROVE  /\ S = {} => SumFunctionOnSet(f, S) = 0
           /\ S # {} => SumFunctionOnSet(f, S) = f[Pick(S)] + SumFunctionOnSet(f, S \ {Pick(S)})
<1> DEFINE k(X) == CHOOSE g : Sums(f, g, X)
<1>1. ASSUME NEW X \in SUBSET S PROVE Sums(f, k(X), X) /\ IsFiniteSet(X) /\ SumFunctionOnSet(f, X) = k(X)[X]
  <2>1. IsFiniteSet(X)
    BY FS_Subset
  <2>2. \E g : Sums(f, g, X)
    BY <2>1, SumsExist
  <2> QED BY <2>1, <2>2, SumIs
<1> HIDE DEF k
<1>2. k(S)[S] = SumStep(f, k(S), S)
  BY <1>1, SumsAt
<1>3. ASSUME S # {} PROVE k(S)[S \ {Pick(S)}] = k(S \ {Pick(S)})[S \ {Pick(S)}]
  <2>1. S \ {Pick(S)} \in SUBSET S
    OBVIOUS
  <2> QED BY <1>1, <2>1, SumsAgree
<1>4. ASSUME S # {} PROVE SumFunctionOnSet(f, S \ {Pick(S)}) = k(S \ {Pick(S)})[S \ {Pick(S)}]
  BY <1>1
<1>5. SumFunctionOnSet(f, S) = k(S)[S]
  BY <1>1
<1> QED BY <1>2, <1>3, <1>4, <1>5 DEF SumStep

LEMMA SumType ==
    ASSUME NEW f, NEW S, IsFiniteSet(S), \A x \in S : f[x] \in Int
    PROVE  SumFunctionOnSet(f, S) \in Int
<1>1. SUFFICES ASSUME ~(SumFunctionOnSet(f, S) \in Int) PROVE FALSE
  OBVIOUS
<1> DEFINE F == {X \in SUBSET S : ~(SumFunctionOnSet(f, X) \in Int)}
<1>2. PICK R \in F : \A Y \in F : Y \subseteq R => Y = R
  <2>1. F \in SUBSET (SUBSET S) /\ F # {}
    BY <1>1
  <2> HIDE DEF F
  <2> QED BY <2>1, SmallestSet
<1>3. R \in SUBSET S /\ IsFiniteSet(R) /\ SumFunctionOnSet(f, R) \notin Int
  BY <1>2, FS_Subset
<1>4. R # {}
  <2>1. R = {} => SumFunctionOnSet(f, R) = 0
    BY <1>3, SumPick
  <2>2. 0 \in Int
    OBVIOUS
  <2> QED BY <1>3, <2>1, <2>2
<1>5. SumFunctionOnSet(f, R) = f[Pick(R)] + SumFunctionOnSet(f, R \ {Pick(R)})
  BY <1>3, <1>4, SumPick
<1>6. SumFunctionOnSet(f, R \ {Pick(R)}) \in Int
  <2>1. R \ {Pick(R)} \in SUBSET S /\ R \ {Pick(R)} \subseteq R /\ R \ {Pick(R)} # R
    BY <1>3, <1>4, PickIn
  <2>2. R \ {Pick(R)} \notin F
    <3> HIDE DEF F
    <3> QED BY <1>2, <2>1
  <2> QED BY <2>1, <2>2
<1>7. f[Pick(R)] \in Int
  BY <1>3, <1>4, PickIn
<1> QED BY <1>3, <1>5, <1>6, <1>7

\* One more element is one more summand, whichever element the recursion picks.
LEMMA SumAdds ==
    ASSUME NEW f, NEW S, IsFiniteSet(S), \A x \in S : f[x] \in Int, NEW z \in S
    PROVE  SumFunctionOnSet(f, S) = SumFunctionOnSet(f, S \ {z}) + f[z]
<1> DEFINE Sum(X) == SumFunctionOnSet(f, X)
           Bad(X) == \E y \in X : Sum(X) # Sum(X \ {y}) + f[y]
           F == {X \in SUBSET S : Bad(X)}
<1>1. SUFFICES ASSUME Bad(S) PROVE FALSE
  OBVIOUS
<1>2. PICK R \in F : \A Y \in F : Y \subseteq R => Y = R
  <2>1. F \in SUBSET (SUBSET S) /\ F # {}
    BY <1>1
  <2> HIDE DEF F
  <2> QED BY <2>1, SmallestSet
<1>3. R \in SUBSET S /\ \A X \in SUBSET R : IsFiniteSet(X) /\ Sum(X) \in Int
  <2>1. R \in SUBSET S
    BY <1>2
  <2> QED BY <2>1, FS_Subset, SumType
<1>4. ASSUME NEW X \in SUBSET R, X # R, NEW y \in X PROVE Sum(X) = Sum(X \ {y}) + f[y]
  <2>1. X \notin F /\ X \in SUBSET S
    <3> HIDE DEF F
    <3> QED BY <1>2, <1>3, <1>4
  <2> QED BY <1>4, <2>1
<1>5. PICK y \in R : Sum(R) # Sum(R \ {y}) + f[y]
  BY <1>2
<1>6. Sum(R) = f[Pick(R)] + Sum(R \ {Pick(R)}) /\ Pick(R) \in R
  BY <1>3, <1>5, SumPick, PickIn
<1> HIDE DEF Sum, F
<1>7. PICK x \in R : x = Pick(R)
  BY <1>6
<1>8. x # y
  <2>1. f[x] \in Int /\ Sum(R \ {x}) \in Int
    BY <1>3
  <2>2. \A a, b \in Int : a + b = b + a
    OBVIOUS
  <2> QED BY <1>5, <1>6, <1>7, <2>1, <2>2
<1>9. Sum(R \ {x}) = Sum((R \ {x}) \ {y}) + f[y]
  <2>1. R \ {x} \in SUBSET R /\ R \ {x} # R /\ y \in R \ {x}
    BY <1>8
  <2> QED BY <1>4, <2>1
<1>10. Sum(R \ {y}) = Sum((R \ {y}) \ {x}) + f[x]
  <2>1. R \ {y} \in SUBSET R /\ R \ {y} # R /\ x \in R \ {y}
    BY <1>8
  <2> QED BY <1>4, <2>1
<1>11. (R \ {x}) \ {y} = (R \ {y}) \ {x}
  OBVIOUS
<1>12. PICK a \in Int, b \in Int, c \in Int : a = f[x] /\ b = f[y] /\ c = Sum((R \ {y}) \ {x})
  <2>1. f[x] \in Int /\ f[y] \in Int /\ (R \ {y}) \ {x} \in SUBSET R
    BY <1>3
  <2> QED BY <1>3, <2>1
<1>13. Sum(R) = a + (c + b) /\ Sum(R \ {y}) = c + a
  BY <1>6, <1>7, <1>9, <1>10, <1>11, <1>12
<1>14. a + (c + b) = (c + a) + b
  OBVIOUS
<1> QED BY <1>5, <1>12, <1>13, <1>14

\* The sum depends on the summands only.
LEMMA SumSame ==
    ASSUME NEW f, NEW g, NEW S, IsFiniteSet(S), \A x \in S : f[x] = g[x]
    PROVE  SumFunctionOnSet(f, S) = SumFunctionOnSet(g, S)
<1> DEFINE F == {X \in SUBSET S : SumFunctionOnSet(f, X) # SumFunctionOnSet(g, X)}
<1>1. SUFFICES ASSUME SumFunctionOnSet(f, S) # SumFunctionOnSet(g, S) PROVE FALSE
  OBVIOUS
<1>2. PICK R \in F : \A Y \in F : Y \subseteq R => Y = R
  <2>1. F \in SUBSET (SUBSET S) /\ F # {}
    BY <1>1
  <2> HIDE DEF F
  <2> QED BY <2>1, SmallestSet
<1>3. R \in SUBSET S /\ IsFiniteSet(R) /\ SumFunctionOnSet(f, R) # SumFunctionOnSet(g, R)
  BY <1>2, FS_Subset
<1>4. R # {}
  BY <1>3, SumPick
<1>5. SumFunctionOnSet(f, R \ {Pick(R)}) = SumFunctionOnSet(g, R \ {Pick(R)})
  <2>1. R \ {Pick(R)} \in SUBSET S /\ R \ {Pick(R)} \subseteq R /\ R \ {Pick(R)} # R
    BY <1>3, <1>4, PickIn
  <2>2. R \ {Pick(R)} \notin F
    <3> HIDE DEF F
    <3> QED BY <1>2, <2>1
  <2> QED BY <2>1, <2>2
<1>6. f[Pick(R)] = g[Pick(R)]
  BY <1>3, <1>4, PickIn
<1> QED BY <1>3, <1>4, <1>5, <1>6, SumPick
-----------------------------------------------------------------------------
(* What a submission references *)

LEMMA ReferencedIs ==
    ASSUME NEW a, NEW b
    PROVE  Referenced(a) = Referenced(b) <=>
              /\ SemsOn(a.wait_semaphores) = SemsOn(b.wait_semaphores)
              /\ SemsOn(a.signal_semaphores) = SemsOn(b.signal_semaphores)
              /\ a.cbs = b.cbs /\ a.fence = b.fence
BY DEF Referenced

LEMMA SameReferences ==
    ASSUME NEW a, NEW b, Referenced(a) = Referenced(b), NEW o
    PROVE  References(a, o) = References(b, o)
<1>1. \A ws : {i \in DOMAIN ws : ws[i].semaphore = o} = {i \in DOMAIN SemsOn(ws) : SemsOn(ws)[i] = o}
  BY DEF SemsOn
<1>2. /\ SemsOn(a.wait_semaphores) = SemsOn(b.wait_semaphores) /\ SemsOn(a.signal_semaphores) = SemsOn(b.signal_semaphores)
      /\ a.cbs = b.cbs /\ a.fence = b.fence
  BY ReferencedIs
<1>3. /\ {i \in DOMAIN a.wait_semaphores : a.wait_semaphores[i].semaphore = o}
            = {i \in DOMAIN b.wait_semaphores : b.wait_semaphores[i].semaphore = o}
      /\ {i \in DOMAIN a.signal_semaphores : a.signal_semaphores[i].semaphore = o}
            = {i \in DOMAIN b.signal_semaphores : b.signal_semaphores[i].semaphore = o}
  BY <1>1, <1>2
<1> QED BY <1>2, <1>3 DEF References

\* The number of a submission, its payloads and the driver's numbers are no references.
LEMMA NumberRefers ==
    ASSUME NEW b \in CB_SUBMISSION, NEW n
    PROVE  Referenced([b EXCEPT !.seq = n]) = Referenced(b)
BY DEF Referenced, CB_SUBMISSION

Pays(vs, ws, k, p) == vs = [ws EXCEPT ![k] = [ws[k] EXCEPT !.payload = p]]

LEMMA PaidSems ==
    ASSUME NEW ws \in Seq(SemInfo), NEW k, NEW p, NEW vs, Pays(vs, ws, k, p)
    PROVE  SemsOn(vs) = SemsOn(ws)
<1>1. DOMAIN vs = DOMAIN ws
  BY DEF Pays
<1>2. ASSUME NEW i \in DOMAIN ws PROVE vs[i].semaphore = ws[i].semaphore
  <2>1. ws[i] \in SemInfo
    BY ElementOfSeq, LenProperties
  <2>2. CASE i = k
    <3>1. vs[i] = [ws[i] EXCEPT !.payload = p]
      BY <2>2 DEF Pays
    <3> QED BY <2>1, <3>1 DEF SemInfo
  <2>3. CASE i # k
    BY <2>3 DEF Pays
  <2> QED BY <2>2, <2>3
<1> QED BY <1>1, <1>2 DEF SemsOn

LEMMA NumberedSems ==
    ASSUME NEW ws \in Seq(SemInfo)
    PROVE  SemsOn(NumberedSeq(ws)) = SemsOn(ws)
<1>1. DOMAIN NumberedSeq(ws) = DOMAIN ws /\ \A i \in DOMAIN ws : NumberedSeq(ws)[i] = Numbered(ws[i])
  BY DEF NumberedSeq
<1>2. ASSUME NEW i \in DOMAIN ws PROVE NumberedSeq(ws)[i].semaphore = ws[i].semaphore
  <2>1. ws[i] \in SemInfo
    BY ElementOfSeq, LenProperties
  <2> QED BY <1>1, <2>1 DEF Numbered, SemInfo
<1> QED BY <1>1, <1>2 DEF SemsOn

\* The driver has taken batch b as number n of queue q.
Takes(q, n, b) ==
    /\ q \in Queue /\ n \in Nat /\ n > 0
    /\ DOMAIN issued'[q] = 1..n /\ Len(issued'[q]) = n /\ Referenced(issued'[q][n]) = Referenced(b)
    /\ DOMAIN issued[q] = 1..(n - 1)
    /\ \A m \in 1..(n - 1) : issued'[q][m] = issued[q][m]
    /\ \A p \in Queue : p # q => issued'[p] = issued[p]

LEMMA AcceptRefers ==
    ASSUME TypeOK, NEW h \in Host, DriverAccept(h), NEW q, q = call[h].queue,
           NEW b, b = call[h].batches[call[h].idx + 1], NEW n, n = Len(issued[q]) + 1
    PROVE  Takes(q, n, b)
<1>1. PICK c : c = NumberedBatch(b, n)
  OBVIOUS
<1>2. q \in Queue /\ b \in CB_SUBMISSION
  <2>1. hpc[h] \in QueuePc
    BY DEF DriverAccept, QueuePc, SubmitPc
  <2>2. call[h].queue \in Queue
    BY <2>1 DEF TypeOK
  <2> QED BY <2>2, AcceptLeft
<1>3. issued' = [issued EXCEPT ![q] = Append(issued[q], c)]
  BY <1>1 DEF DriverAccept, NumberedBatch
<1>4. issued[q] \in Seq(CB_SUBMISSION) /\ n \in Nat /\ n > 0 /\ Len(issued[q]) = n - 1 /\ DOMAIN issued[q] = 1..(n - 1)
  BY <1>2, IssuedType
<1>5. Referenced(c) = Referenced(b)
  <2>1. b.wait_semaphores \in Seq(SemInfo) /\ b.signal_semaphores \in Seq(SemInfo)
    BY <1>2 DEF CB_SUBMISSION
  <2>2. /\ c.wait_semaphores = NumberedSeq(b.wait_semaphores) /\ c.signal_semaphores = NumberedSeq(b.signal_semaphores)
        /\ c.cbs = b.cbs /\ c.fence = b.fence
    BY <1>1, <1>2 DEF NumberedBatch, CB_SUBMISSION
  <2> QED BY <2>1, <2>2, NumberedSems DEF Referenced
<1>6. issued'[q] = Append(issued[q], c) /\ \A p \in Queue : p # q => issued'[p] = issued[p]
  BY <1>2, <1>3 DEF TypeOK
<1>7. /\ DOMAIN issued'[q] = 1..n /\ issued'[q][n] = c /\ \A m \in 1..(n - 1) : issued'[q][m] = issued[q][m]
      /\ Len(issued'[q]) = n
  BY <1>4, <1>6, AppendProperties
<1> QED BY <1>2, <1>4, <1>5, <1>6, <1>7 DEF Takes

-----------------------------------------------------------------------------
(* Calls under way *)

\* Only the call of h moves, and it is about queue q.
LEMMA MoveRefers ==
    ASSUME CallsRefer, NEW h \in Host, NEW q \in Queue, OnlyHost(h),
           \A g \in Host : hpc[g] \in SubmitPc => call[g].queue \in Queue /\ (call[g].queue # q \/ g = h),
           hpc[h] \in SubmitPc => call[h].queue = q,
           \A p \in Queue : p # q => issued'[p] = issued[p] /\ seq_'[p] = seq_[p],
           hpc'[h] \in SubmitPc => call'[h].queue = q /\ CallRefers(h)' /\ SubRefers(h)',
           hpc'[h] \notin SubmitPc => Len(issued'[q]) - seq_'[q] = 0
    PROVE  CallsRefer'
<1>1. ASSUME NEW g \in Host, g # h, hpc[g] \in SubmitPc
      PROVE  CallRefers(g)' /\ SubRefers(g)'
  <2>1. hpc'[g] = hpc[g] /\ call'[g] = call[g]
    BY <1>1 DEF OnlyHost
  <2>2. issued'[call[g].queue] = issued[call[g].queue] /\ seq_'[call[g].queue] = seq_[call[g].queue]
    BY <1>1
  <2>3. CallRefers(g) /\ SubRefers(g)
    BY <1>1 DEF CallsRefer
  <2>4. Accepted(g)' = Accepted(g) /\ Skip(g)' = Skip(g)
    BY <2>1 DEF Accepted, Skip
  <2>5. CallRefers(g)'
    BY <2>1, <2>2, <2>3, <2>4 DEF CallRefers, Ahead
  <2>6. SubRefers(g)'
    BY <2>1, <2>2, <2>3 DEF SubRefers
  <2> QED BY <2>5, <2>6
<1>2. \A g \in Host : g # h => hpc'[g] = hpc[g] /\ call'[g] = call[g]
  BY DEF OnlyHost
<1>3. \A g \in Host : hpc'[g] \in SubmitPc => CallRefers(g)'
  BY <1>1, <1>2
<1>4. \A g \in Host : SubRefers(g)'
  <2> SUFFICES ASSUME NEW g \in Host PROVE SubRefers(g)'
    OBVIOUS
  <2>1. CASE hpc'[g] \notin SubmitPc
    BY <2>1 DEF SubRefers, SubmitPc, PushPc
  <2>2. CASE hpc'[g] \in SubmitPc
    BY <1>1, <1>2, <2>2
  <2> QED BY <2>1, <2>2
<1>5. ASSUME NEW p \in Queue, \A g \in Host : hpc'[g] \in SubmitPc => call'[g].queue # p
      PROVE  Len(issued'[p]) - seq_'[p] = 0
  <2>1. CASE p = q
    BY <1>5, <2>1
  <2>2. CASE p # q
    <3>1. \A g \in Host : hpc[g] \in SubmitPc => call[g].queue # p
      BY <1>2, <1>5, <2>2
    <3> QED BY <2>2, <3>1 DEF CallsRefer, Ahead
  <2> QED BY <2>1, <2>2
<1> QED BY <1>3, <1>4, <1>5 DEF CallsRefer, Ahead

LEMMA RefersKept ==
    ASSUME CallsRefer, Room, issued' = issued, CallsStill
    PROVE  CallsRefer' /\ Room'
<1>1. \A g \in Host : hpc[g] \in SubmitPc \/ hpc'[g] \in SubmitPc => hpc'[g] = hpc[g] /\ call'[g] = call[g]
  BY DEF CallsStill
<1>2. issued' = issued /\ seq_' = seq_
  BY DEF CallsStill
<1>3. ASSUME NEW g \in Host, hpc'[g] \in SubmitPc PROVE CallRefers(g)'
  <2>1. hpc'[g] = hpc[g] /\ call'[g] = call[g] /\ CallRefers(g)
    BY <1>1, <1>3 DEF CallsRefer
  <2>2. Accepted(g)' = Accepted(g) /\ Skip(g)' = Skip(g) /\ \A p : Ahead(p)' = Ahead(p)
    BY <1>2, <2>1 DEF Ahead, Accepted, Skip
  <2> QED BY <1>2, <2>1, <2>2 DEF CallRefers
<1>4. ASSUME NEW g \in Host PROVE SubRefers(g)'
  <2>1. CASE hpc'[g] \notin SubmitPc
    BY <2>1 DEF SubRefers, SubmitPc, PushPc
  <2>2. CASE hpc'[g] \in SubmitPc
    BY <1>1, <1>2, <2>2 DEF SubRefers, CallsRefer
  <2> QED BY <2>1, <2>2
<1>5. CallsRefer'
  BY <1>1, <1>2, <1>3, <1>4 DEF CallsRefer, Ahead
<1>6. Room'
  BY <1>1, <1>2 DEF Room, SubmitPc
<1> QED BY <1>5, <1>6

\* The driver has accepted all it will accept of the call.
LEMMA RoomKept ==
    ASSUME Room, NEW h \in Host, OnlyHost(h), issued' = issued, hpc'[h] # "driver"
    PROVE  Room'
BY DEF Room, OnlyHost

LEMMA RefersStart ==
    ASSUME IInv, CallsRefer, Room, NEW h \in Host, NEW q \in Queue, NEW bs \in Calls[q], QueueSubmit(h, q, bs)
    PROVE  CallsRefer' /\ Room'
<1>1. TypeOK
  BY DEF IInv
<1>2. /\ hpc[h] = "idle" /\ \A g \in Host : call[g].queue # q
      /\ Len(issued[q]) + Len(bs) <= MaxSeq
      /\ issued' = issued /\ seq_' = seq_
  BY DEF QueueSubmit, QueueFree, deviceVars, queueVars
<1>3. OnlyHost(h) /\ hpc'[h] = "driver" /\ call'[h].queue = q /\ call'[h].batches = bs /\ call'[h].idx = 0
  BY <1>1 DEF QueueSubmit, OnlyHost, TypeOK, NoCall
<1>4. \A g \in Host : hpc[g] \in SubmitPc => call[g].queue \in Queue
  BY <1>1 DEF TypeOK, QueuePc
<1>5. CallRefers(h)' /\ SubRefers(h)'
  <2>1. Ahead(q) = 0
    BY <1>2 DEF CallsRefer
  <2>2. Accepted(h)' = 0
    BY <1>3 DEF Accepted
  <2> QED BY <1>2, <1>3, <2>1, <2>2 DEF CallRefers, SubRefers, PushPc, Ahead
<1>6. hpc[h] \notin SubmitPc /\ hpc'[h] \in SubmitPc
  BY <1>2, <1>3 DEF SubmitPc
<1>7. CallsRefer'
  BY <1>2, <1>3, <1>4, <1>5, <1>6, MoveRefers
<1>8. Room'
  <2>1. bs \in Seq(CB_SUBMISSION) /\ bs # << >>
    BY QueueStateAssumption
  <2>2. Len(bs) \in Nat /\ Len(issued[q]) \in Nat
    BY <1>1, <2>1, LenProperties, QueueLengths
  <2>3. Len(issued'[call'[h].queue]) + Len(call'[h].batches) - call'[h].idx <= MaxSeq
    BY <1>2, <1>3, <2>2
  <2>4. call'[h].idx < Len(call'[h].batches)
    <3>1. Len(bs) > 0
      BY <2>1, <2>2, EmptySeq
    <3> QED BY <1>3, <3>1
  <2> QED BY <1>2, <1>3, <2>3, <2>4 DEF Room, OnlyHost
<1> QED BY <1>7, <1>8

LEMMA RefersAccept ==
    ASSUME IInv, CallsRefer, Room, NEW h \in Host, DriverAccept(h)
    PROVE  CallsRefer' /\ Room'
<1>1. TypeOK
  BY DEF IInv
<1>2. hpc[h] = "driver" /\ hpc[h] \in SubmitPc /\ seq_' = seq_
  BY DEF DriverAccept, SubmitPc, queueVars
<1>3. PICK q, n, b, i : /\ q = call[h].queue /\ n = Len(issued[q]) + 1 /\ i = call[h].idx /\ b = call[h].batches[i + 1]
                         /\ b = call[h].batches[call[h].idx + 1]
  OBVIOUS
<1>4. /\ q \in Queue
      /\ \A g \in Host : hpc[g] \in SubmitPc => call[g].queue \in Queue /\ (call[g].queue # q \/ g = h)
  BY <1>2, <1>3, SubmitCallIs
<1>5. /\ DOMAIN issued'[q] = 1..n /\ Len(issued'[q]) = n /\ Referenced(issued'[q][n]) = Referenced(b)
      /\ \A m \in 1..(n - 1) : issued'[q][m] = issued[q][m]
      /\ \A p \in Queue : p # q => issued'[p] = issued[p]
  <2>1. Takes(q, n, b)
    BY <1>1, <1>3, AcceptRefers
  <2> QED BY <2>1 DEF Takes
<1>6. /\ OnlyHost(h) /\ call'[h].batches = call[h].batches /\ call'[h].queue = q
      /\ \/ hpc'[h] = "driver" /\ call'[h].idx = i + 1
         \/ hpc'[h] = "cbs" /\ call'[h].idx = 0 /\ i + 1 = Len(call[h].batches)
  BY <1>1, <1>3, DriverAcceptCall
<1>7. /\ Ahead(q) = i
      /\ \A j \in 1..i : Referenced(issued[q][seq_[q] + j]) = Referenced(call[h].batches[j])
  <2>1. CallRefers(h) /\ Accepted(h) = i /\ Skip(h) = 0
    BY <1>2, <1>3 DEF CallsRefer, Accepted, Skip, PushPc
  <2>2. Accepted(h) \in Nat
    BY <1>1, <1>3, <2>1, CallFields
  <2>3. \A j \in 1..i : j + 0 = j
    BY <2>1, <2>2
  <2> QED BY <1>3, <2>1, <2>3 DEF CallRefers
<1>8. i \in Nat /\ seq_[q] \in Nat /\ n \in Nat /\ n = seq_[q] + i + 1 /\ Len(call[h].batches) \in Nat
  BY <1>1, <1>3, <1>4, <1>7, CallFields, QueueLengths, LenProperties DEF Ahead
<1>9. \A j \in 1..(i + 1) : Referenced(issued'[q][seq_[q] + j]) = Referenced(call[h].batches[j])
  <2> TAKE j \in 1..(i + 1)
  <2>1. CASE j = i + 1
    <3>1. seq_[q] + j = n
      BY <1>8, <2>1
    <3> QED BY <1>3, <1>5, <2>1, <3>1
  <2>2. CASE j # i + 1
    <3>1. j \in 1..i /\ seq_[q] + j \in 1..(n - 1)
      BY <1>8, <2>2
    <3> QED BY <1>5, <1>7, <3>1
  <2> QED BY <2>1, <2>2
<1>10. hpc'[h] \in SubmitPc /\ Accepted(h)' = i + 1 /\ Skip(h)' = 0
  <2>1. Skip(h)' = 0 /\ hpc'[h] \in SubmitPc
    BY <1>6 DEF Skip, PushPc, SubmitPc
  <2>2. CASE hpc'[h] = "driver"
    BY <1>6, <2>1, <2>2 DEF Accepted
  <2>3. CASE hpc'[h] = "cbs"
    <3>1. Len(call'[h].batches) = i + 1 /\ Len(call'[h].batches) - 0 = i + 1
      BY <1>6, <1>8, <2>3
    <3> QED BY <2>1, <2>3, <3>1 DEF Accepted
  <2> QED BY <1>6, <2>1, <2>2, <2>3
<1>11. CallRefers(h)'
  <2>1. Len(issued'[q]) - seq_'[q] = i + 1
    BY <1>2, <1>5, <1>8
  <2>2. \A j \in 1..(i + 1) : j + 0 = j
    BY <1>8
  <2>3. \A j \in 1..Accepted(h)' : Referenced(issued'[q][seq_'[q] + j]) = Referenced(call'[h].batches[j + Skip(h)'])
    BY <1>2, <1>6, <1>9, <1>10, <2>2
  <2> QED BY <1>6, <1>10, <2>1, <2>3 DEF CallRefers, Ahead
<1>12. SubRefers(h)'
  BY <1>6 DEF SubRefers, PushPc
<1>13. CallsRefer'
  BY <1>2, <1>3, <1>4, <1>5, <1>6, <1>10, <1>11, <1>12, MoveRefers
<1>14. Room'
  <2>1. PICK L \in Nat : L = Len(call[h].batches)
    BY <1>8
  <2>2. i < L /\ n - 1 + L - i <= MaxSeq /\ MaxSeq \in Nat
    <3>1. Len(issued[q]) + L - i <= MaxSeq /\ i < L
      BY <1>2, <1>3, <2>1 DEF Room, DriverAccept
    <3>2. Len(issued[q]) = n - 1 /\ MaxSeq \in Nat
      BY <1>1, <1>3, <1>4, QueueLengths, QueueStateAssumption
    <3> QED BY <3>1, <3>2
  <2>3. n <= MaxSeq /\ n + L - (i + 1) <= MaxSeq
    <3>1. PICK x \in Nat, y \in Nat, M \in Nat : x = i /\ y = n /\ M = MaxSeq
      BY <1>8, <2>2
    <3>2. x < L /\ y - 1 + L - x <= M
      BY <2>2, <3>1
    <3>3. y <= M /\ y + L - (x + 1) <= M
      BY <3>2
    <3> QED BY <3>1, <3>3
  <2>4. ASSUME hpc'[h] = "driver"
        PROVE  call'[h].idx < Len(call'[h].batches) /\ Len(issued'[call'[h].queue]) + Len(call'[h].batches) - call'[h].idx <= MaxSeq
    <3>1. call'[h].idx = i + 1 /\ i + 1 # L
      BY <1>1, <1>3, <2>1, <2>4, DriverAcceptCall
    <3>2. i + 1 < L
      BY <1>8, <2>2, <3>1
    <3> QED BY <1>5, <1>6, <2>1, <2>3, <3>1, <3>2
  <2>5. \A p \in Queue : Len(issued'[p]) <= MaxSeq
    BY <1>5, <2>3 DEF Room
  <2>6. ASSUME NEW g \in Host, hpc'[g] = "driver", g # h
        PROVE  call'[g].idx < Len(call'[g].batches) /\ Len(issued'[call'[g].queue]) + Len(call'[g].batches) - call'[g].idx <= MaxSeq
    <3>1. hpc[g] = "driver" /\ call'[g] = call[g] /\ hpc[g] \in SubmitPc
      BY <1>6, <2>6 DEF OnlyHost, SubmitPc
    <3>2. issued'[call[g].queue] = issued[call[g].queue]
      BY <1>4, <1>5, <2>6, <3>1
    <3> QED BY <3>1, <3>2 DEF Room
  <2> QED BY <2>4, <2>5, <2>6 DEF Room
<1> QED BY <1>13, <1>14


\* The call goes on with the same batches.
LEMMA RefersOn ==
    ASSUME IInv, CallsRefer, Room, NEW h \in Host, OnlyHost(h), issued' = issued, seq_' = seq_,
           hpc[h] \in SubmitPc, hpc'[h] \in SubmitPc, hpc[h] # "driver", hpc'[h] # "driver", Skip(h)' = Skip(h),
           call'[h].queue = call[h].queue, call'[h].batches = call[h].batches, SubRefers(h)'
    PROVE  CallsRefer' /\ Room'
<1>1. PICK q : q = call[h].queue
  OBVIOUS
<1>2. /\ q \in Queue
      /\ \A g \in Host : hpc[g] \in SubmitPc => call[g].queue \in Queue /\ (call[g].queue # q \/ g = h)
  BY <1>1, SubmitCallIs
<1>3. CallRefers(h)'
  <2>1. Accepted(h)' = Accepted(h)
    BY DEF Accepted
  <2>2. CallRefers(h)
    BY DEF CallsRefer
  <2> QED BY <2>1, <2>2 DEF CallRefers, Ahead
<1>4. CallsRefer'
  BY <1>1, <1>2, <1>3, MoveRefers
<1> QED BY <1>4, RoomKept

LEMMA RefersCbs ==
    ASSUME IInv, CallsRefer, Room, NEW h \in Host, SubmitCbs(h)
    PROVE  CallsRefer' /\ Room'
<1>1. TypeOK
  BY DEF IInv
<1>2. /\ OnlyHost(h) /\ hpc[h] = "cbs" /\ hpc'[h] = "seq" /\ issued' = issued /\ seq_' = seq_
      /\ call'[h].queue = call[h].queue /\ call'[h].batches = call[h].batches /\ call'[h].sub = call[h].batches[1]
  BY <1>1, SubmitCbsCall DEF SubmitCbs, deviceVars, queueVars
<1>3. hpc[h] \in SubmitPc /\ hpc'[h] \in SubmitPc /\ Skip(h)' = Skip(h)
  BY <1>2 DEF SubmitPc, Skip, PushPc
<1>4. SubRefers(h)'
  BY <1>2 DEF SubRefers, PushPc
<1> QED BY <1>2, <1>3, <1>4, RefersOn

LEMMA RefersTell ==
    ASSUME IInv, CallsRefer, Room, NEW h \in Host, SubmitWait(h) \/ SubmitSignal(h)
    PROVE  CallsRefer' /\ Room'
<1>1. TypeOK
  BY DEF IInv
<1>2. PICK b \in CB_SUBMISSION : b = call[h].sub
  BY <1>1, CallFields
<1>3. /\ OnlyHost(h) /\ hpc[h] = "enqueue" /\ hpc'[h] = "enqueue"
      /\ call'[h].queue = call[h].queue /\ call'[h].batches = call[h].batches
  BY <1>1, SubmitWaitCall, SubmitSignalCall
<1>4. issued' = issued /\ seq_' = seq_
  BY DEF SubmitWait, SubmitSignal, deviceVars, queueVars
<1>5. hpc[h] \in SubmitPc /\ hpc'[h] \in SubmitPc /\ Skip(h)' = Skip(h)
  BY <1>3 DEF SubmitPc, Skip
<1>6. PICK k, i : k = call[h].idx /\ i = call[h].idx - Len(call[h].sub.wait_semaphores)
  OBVIOUS
<1>8. call'[h].sub.seq = b.seq /\ Referenced(call'[h].sub) = Referenced(b)
  <2>1. CASE SubmitWait(h)
    <3>1. PICK p : PaysWait(b, k, p, call'[h].sub)
      <4>1. PICK w, p : w = call[h].sub.wait_semaphores[k] /\ p = OpPayload(sem[w.semaphore], w.semaphore \in BinarySem, w.payload)
        OBVIOUS
      <4>2. PaysWait(call[h].sub, k, p, call'[h].sub)
        BY <1>1, <1>6, <2>1, <4>1, ToldWaitCall
      <4> QED BY <1>2, <4>2
    <3>2. PICK vs : vs = call'[h].sub.wait_semaphores
      OBVIOUS
    <3>3. /\ b.wait_semaphores \in Seq(SemInfo) /\ call'[h].sub.seq = b.seq
          /\ vs = [b.wait_semaphores EXCEPT ![k] = [b.wait_semaphores[k] EXCEPT !.payload = p]]
          /\ call'[h].sub.signal_semaphores = b.signal_semaphores /\ call'[h].sub.cbs = b.cbs /\ call'[h].sub.fence = b.fence
      BY <3>1, <3>2 DEF CB_SUBMISSION, PaysWait
    <3>4. Pays(vs, b.wait_semaphores, k, p)
      BY <3>3 DEF Pays
    <3>5. SemsOn(vs) = SemsOn(b.wait_semaphores)
      BY <3>3, <3>4, PaidSems
    <3> QED BY <3>2, <3>3, <3>5, ReferencedIs
  <2>2. CASE SubmitSignal(h)
    <3>1. PICK p : PaysSignal(b, i, p, call'[h].sub)
      <4>1. PICK w, p : w = call[h].sub.signal_semaphores[i] /\ p = OpPayload(sem[w.semaphore], w.semaphore \in BinarySem, w.payload)
        OBVIOUS
      <4>2. PaysSignal(call[h].sub, i, p, call'[h].sub)
        BY <1>1, <1>6, <2>2, <4>1, ToldSignalCall
      <4> QED BY <1>2, <4>2
    <3>2. PICK vs : vs = call'[h].sub.signal_semaphores
      OBVIOUS
    <3>3. /\ b.signal_semaphores \in Seq(SemInfo) /\ call'[h].sub.seq = b.seq
          /\ vs = [b.signal_semaphores EXCEPT ![i] = [b.signal_semaphores[i] EXCEPT !.payload = p]]
          /\ call'[h].sub.wait_semaphores = b.wait_semaphores /\ call'[h].sub.cbs = b.cbs /\ call'[h].sub.fence = b.fence
      BY <3>1, <3>2 DEF CB_SUBMISSION, PaysSignal
    <3>4. Pays(vs, b.signal_semaphores, i, p)
      BY <3>3 DEF Pays
    <3>5. SemsOn(vs) = SemsOn(b.signal_semaphores)
      BY <3>3, <3>4, PaidSems
    <3> QED BY <3>2, <3>3, <3>5, ReferencedIs
  <2> QED BY <2>1, <2>2
<1>7. SubRefers(h)'
  <2>1. Referenced(b) = Referenced(issued[call[h].queue][b.seq])
    BY <1>2, <1>3 DEF CallsRefer, SubRefers, PushPc
  <2> QED BY <1>3, <1>4, <1>8, <2>1 DEF SubRefers, PushPc
<1> QED BY <1>3, <1>4, <1>5, <1>7, RefersOn

LEMMA RefersFence ==
    ASSUME IInv, CallsRefer, Room, NEW h \in Host, SubmitFence(h)
    PROVE  CallsRefer' /\ Room'
<1>1. TypeOK
  BY DEF IInv
<1>2. /\ OnlyHost(h) /\ hpc[h] = "enqueue" /\ hpc'[h] = "push" /\ issued' = issued /\ seq_' = seq_
      /\ call'[h].queue = call[h].queue /\ call'[h].batches = call[h].batches /\ call'[h].sub = call[h].sub
  BY <1>1, SubmitFenceCall DEF SubmitFence, deviceVars, queueVars
<1>3. hpc[h] \in SubmitPc /\ hpc'[h] \in SubmitPc /\ Skip(h)' = Skip(h)
  BY <1>2 DEF SubmitPc, Skip, PushPc
<1>4. SubRefers(h)'
  BY <1>2 DEF CallsRefer, SubRefers, PushPc
<1> QED BY <1>2, <1>3, <1>4, RefersOn

\* submission.seq = ++seq_: the first batch of the call that has no number gets it.
LEMMA RefersSeq ==
    ASSUME IInv, CallsRefer, Room, NEW h \in Host, SubmitSeq(h), NEW q, q = call[h].queue
    PROVE  /\ CallsRefer' /\ Room'
           /\ q \in Queue /\ seq_[q] + 1 \in DOMAIN issued[q] /\ issued' = issued
           /\ seq_'[q] = seq_[q] + 1 /\ \A p \in Queue : p # q => seq_'[p] = seq_[p]
           /\ Referenced(call[h].sub) = Referenced(issued[q][seq_[q] + 1])
<1>1. TypeOK
  BY DEF IInv
<1>2. /\ OnlyHost(h) /\ hpc[h] = "seq" /\ hpc'[h] = "enqueue"
      /\ call'[h].queue = call[h].queue /\ call'[h].batches = call[h].batches
      /\ call'[h].sub = [call[h].sub EXCEPT !.seq = seq_[q] + 1]
  BY <1>1, SubmitSeqCall
<1>3. hpc[h] \in SubmitPc /\ hpc'[h] \in SubmitPc
  BY <1>2 DEF SubmitPc
<1>4. /\ q \in Queue
      /\ \A g \in Host : hpc[g] \in SubmitPc => call[g].queue \in Queue /\ (call[g].queue # q \/ g = h)
  BY <1>3, SubmitCallIs
<1>5. issued' = issued /\ seq_' = [seq_ EXCEPT ![q] = seq_[q] + 1]
  BY DEF SubmitSeq, deviceVars
<1>6. seq_'[q] = seq_[q] + 1 /\ \A p \in Queue : p # q => seq_'[p] = seq_[p]
  BY <1>1, <1>4, <1>5 DEF TypeOK
<1>7. PICK L \in Nat : L = Len(call[h].batches) /\ L >= 1
  BY <1>1, <1>3, BatchOne, CallFields, LenProperties
<1>8. /\ Ahead(q) = L
      /\ \A i \in 1..L : Referenced(issued[q][seq_[q] + i]) = Referenced(call[h].batches[i])
  <2>1. CallRefers(h) /\ Accepted(h) = L /\ Skip(h) = 0
    BY <1>2, <1>3, <1>7 DEF CallsRefer, Accepted, Skip, PushPc
  <2>2. \A i \in 1..L : i + 0 = i
    BY <1>7
  <2> QED BY <2>1, <2>2 DEF CallRefers
<1>9. PICK m \in Nat, N \in Nat : m = seq_[q] /\ N = Len(issued[q]) /\ N - m = L /\ DOMAIN issued[q] = 1..N
  BY <1>1, <1>4, <1>8, QueueLengths, IssuedType DEF Ahead
<1>10. m + 1 \in 1..N
  <2>1. PICK k \in Nat : k = L /\ k >= 1 /\ N - m = k
    BY <1>7, <1>9
  <2>2. N = m + k
    BY <2>1
  <2> QED BY <2>1, <2>2
<1>11. Referenced(call[h].sub) = Referenced(issued[q][m + 1])
  <2>1. Referenced(call[h].sub) = Referenced(call[h].batches[1])
    BY <1>2 DEF CallsRefer, SubRefers
  <2>2. 1 \in 1..L
    BY <1>7
  <2> QED BY <1>8, <1>9, <2>1, <2>2
<1>12. CallRefers(h)'
  <2>1. Accepted(h)' = L - 1 /\ Skip(h)' = 1
    BY <1>2, <1>7 DEF Accepted, Skip, PushPc
  <2>2. N - (m + 1) = L - 1
    <3>1. N = m + L
      BY <1>9
    <3>2. \A x, y \in Nat : (x + y) - (x + 1) = y - 1
      OBVIOUS
    <3> QED BY <3>1, <3>2
  <2>3. \A i \in 1..(L - 1) : Referenced(issued[q][(m + 1) + i]) = Referenced(call[h].batches[i + 1])
    <3> TAKE i \in 1..(L - 1)
    <3>1. \A a, b \in Nat : \A j \in 1..(a - 1) : j + 1 \in 1..a /\ (b + 1) + j = b + (j + 1)
      OBVIOUS
    <3>2. i + 1 \in 1..L /\ (m + 1) + i = m + (i + 1)
      BY <1>7, <1>9, <3>1
    <3>3. Referenced(issued[q][m + (i + 1)]) = Referenced(call[h].batches[i + 1])
      BY <1>8, <1>9, <3>2
    <3> QED BY <3>2, <3>3
  <2>4. Ahead(q)' = L - 1 /\ seq_'[q] = m + 1
    BY <1>5, <1>6, <1>9, <2>2 DEF Ahead
  <2> QED BY <1>2, <1>5, <2>1, <2>3, <2>4 DEF CallRefers
<1>13. SubRefers(h)'
  <2>1. Referenced(call'[h].sub) = Referenced(call[h].sub) /\ call'[h].sub.seq = m + 1
    <3>1. call[h].sub \in CB_SUBMISSION
      BY <1>1, CallFields
    <3>2. call'[h].sub.seq = m + 1
      BY <1>2, <1>9, <3>1 DEF CB_SUBMISSION
    <3> QED BY <1>2, <3>1, <3>2, NumberRefers
  <2> QED BY <1>2, <1>5, <1>11, <2>1 DEF SubRefers, PushPc
<1>14. CallsRefer'
  BY <1>2, <1>3, <1>4, <1>5, <1>6, <1>12, <1>13, MoveRefers
<1>15. Room'
  BY <1>2, <1>5, RoomKept
<1> QED BY <1>4, <1>5, <1>6, <1>9, <1>10, <1>11, <1>14, <1>15

LEMMA RefersPush ==
    ASSUME IInv, CallsRefer, Room, NEW h \in Host, SubmitPush(h)
    PROVE  CallsRefer' /\ Room'
<1>1. TypeOK
  BY DEF IInv
<1>2. /\ OnlyHost(h) /\ hpc[h] = "push"
      /\ \/ /\ Len(call[h].batches) > 1 /\ hpc'[h] = "cbs"
            /\ call'[h].batches = Tail(call[h].batches) /\ call'[h].queue = call[h].queue
         \/ Len(call[h].batches) = 1 /\ hpc'[h] \in {"idle", "qnotify"}
  BY <1>1, SubmitPushCall
<1>3. issued' = issued /\ seq_' = seq_
  BY DEF SubmitPush, deviceVars
<1>4. PICK q : q = call[h].queue
  OBVIOUS
<1>5. /\ q \in Queue /\ hpc[h] \in SubmitPc
      /\ \A g \in Host : hpc[g] \in SubmitPc => call[g].queue \in Queue /\ (call[g].queue # q \/ g = h)
  BY <1>2, <1>4, SubmitCallIs DEF SubmitPc
<1>6. PICK bs \in Seq(CB_SUBMISSION), L \in Nat : bs = call[h].batches /\ L = Len(bs)
  BY <1>1, CallFields, LenProperties
<1>7. /\ Ahead(q) = L - 1
      /\ \A i \in 1..(L - 1) : Referenced(issued[q][seq_[q] + i]) = Referenced(bs[i + 1])
  <2>1. CallRefers(h) /\ Accepted(h) = L - 1 /\ Skip(h) = 1
    BY <1>2, <1>5, <1>6 DEF CallsRefer, Accepted, Skip, PushPc
  <2> QED BY <1>4, <1>6, <2>1 DEF CallRefers
<1>8. CASE L > 1
  <2>1. hpc'[h] = "cbs" /\ call'[h].batches = Tail(bs) /\ call'[h].queue = q
    <3>1. L # 1
      BY <1>8
    <3> QED BY <1>2, <1>4, <1>6, <3>1
  <2>2. Len(Tail(bs)) = L - 1 /\ \A i \in 1..(L - 1) : Tail(bs)[i] = bs[i + 1]
    BY <1>6, <1>8, TailIs
  <2>3. Skip(h)' = 0 /\ hpc'[h] \in SubmitPc
    BY <2>1 DEF Skip, PushPc, SubmitPc
  <2>4. Accepted(h)' = L - 1
    <3>1. (L - 1) - 0 = L - 1
      OBVIOUS
    <3> QED BY <2>1, <2>2, <2>3, <3>1 DEF Accepted
  <2>5. CallRefers(h)'
    <3>1. \A i \in 1..(L - 1) : i + 0 = i
      OBVIOUS
    <3>2. \A i \in 1..(L - 1) : Referenced(issued[q][seq_[q] + i]) = Referenced(Tail(bs)[i + 0])
      BY <1>7, <2>2, <3>1
    <3> QED BY <1>3, <1>7, <2>1, <2>3, <2>4, <3>2 DEF CallRefers, Ahead
  <2>6. SubRefers(h)'
    BY <2>1 DEF SubRefers, PushPc
  <2>7. CallsRefer'
    BY <1>2, <1>3, <1>4, <1>5, <2>1, <2>3, <2>5, <2>6, MoveRefers
  <2>8. Room'
    BY <1>2, <1>3, <2>1, RoomKept
  <2> QED BY <2>7, <2>8
<1>9. CASE ~(L > 1)
  <2>1. hpc'[h] \in {"idle", "qnotify"} /\ L = 1
    BY <1>2, <1>6, <1>9
  <2>2. hpc'[h] \notin SubmitPc /\ hpc'[h] # "driver"
    BY <2>1 DEF SubmitPc
  <2>3. Len(issued'[q]) - seq_'[q] = 0
    BY <1>3, <1>7, <2>1 DEF Ahead
  <2>4. CallsRefer'
    BY <1>2, <1>3, <1>4, <1>5, <2>2, <2>3, MoveRefers
  <2>5. Room'
    BY <1>2, <1>3, <2>2, RoomKept
  <2> QED BY <2>4, <2>5
<1> QED BY <1>8, <1>9

-----------------------------------------------------------------------------
(* What a step does to the submissions in use *)

\* EndUse() is the only step that takes a submission out of use.
LEMMA EndUsedStays ==
    ASSUME TypeOK, TypeOK', [Next]_vars
    PROVE  (\E q \in Queue : ThreadEndUse(q)) \/ \A q \in Queue : EndUsed(q)' = EndUsed(q)
<1> DEFINE Same == \A q \in Queue : EndUsed(q)' = EndUsed(q)
<1>1. ASSUME ThreadsStay PROVE Same
  BY <1>1, OutIs DEF ThreadsStay, EndUsed, InThread, OutPc
<1>2. ASSUME NEW h \in Host, OtherStep(h) \/ OtherCall(h) \/ SubmitStep(h) \/ SemaphoreStep(h) \/ DriverAccept(h) \/ SubmitFence(h)
      PROVE  Same
  BY <1>1, <1>2, OtherStepStays, OtherCallStays, SubmitStays
<1>3. ASSUME NEW h \in Host, SubmitPush(h) PROVE Same
  <2>1. tcur' = tcur /\ done_' = done_ /\ \A q \in Queue : tpc'[q] = tpc[q] \/ (tpc[q] = "none" /\ tpc'[q] = "next")
    BY <1>3 DEF SubmitPush, TypeOK
  <2> QED BY <2>1 DEF EndUsed, InThread
<1>4. ASSUME NEW h \in Host, NEW f \in Fence, WaitForFence(h, f) \/ FenceCall(h, f) PROVE Same
  BY <1>1, <1>4, FenceCallStays
<1>5. ASSUME NEW a \in Actor, Retire(a) PROVE Same
  BY <1>1, <1>5, RetireStays
<1>6. ASSUME NEW q \in Queue, ThreadSleep(q) \/ ThreadExit(q) \/ ThreadRetireSemaphore(q) \/ DeviceExecute(q) PROVE Same
  BY <1>1, <1>6, ThreadStays
<1>7. ASSUME NEW q \in Queue, ThreadPop(q) PROVE Same
  <2>1. /\ tpc[q] = "next" /\ tpc'[q] = "enduse" /\ done_' = done_
        /\ \A p \in Queue : p # q => tcur'[p] = tcur[p] /\ tpc'[p] = tpc[p]
    BY <1>7 DEF ThreadPop, TypeOK
  <2> QED BY <2>1 DEF EndUsed, InThread
<1>8. ASSUME NEW q \in Queue, ThreadLoopDone(q) \/ ThreadRetireCbs(q) \/ ThreadRetireFence(q) PROVE Same
  <2>1. /\ tcur' = tcur /\ done_' = done_ /\ \A p \in Queue : p # q => tpc'[p] = tpc[p]
        /\ tpc[q] \in {"waits", "signals", "cbs", "fence"} /\ tpc'[q] \in {"cbs", "fence", "signals", "complete"}
    BY <1>8 DEF ThreadLoopDone, ThreadRetireCbs, ThreadRetireFence, TypeOK
  <2> QED BY <2>1 DEF EndUsed, InThread
<1>9. ASSUME NEW q \in Queue, ThreadComplete(q) PROVE Same
  <2>1. /\ tcur' = tcur /\ done_'[q] = tcur[q].seq /\ tpc[q] = "complete" /\ tpc'[q] = "next"
        /\ \A p \in Queue : p # q => tpc'[p] = tpc[p] /\ done_'[p] = done_[p]
    BY <1>9 DEF ThreadComplete, TypeOK
  <2> QED BY <2>1 DEF EndUsed, InThread
<1>10. CASE UNCHANGED vars
  BY <1>10 DEF vars, queueVars, threadVars, EndUsed, InThread
<1>11. CASE Next
  BY <1>2, <1>3, <1>4, <1>5, <1>6, <1>7, <1>8, <1>9, <1>11, NextCases DEF ThreadStep
<1> QED BY <1>10, <1>11

\* Neither the calls nor the counters move.
UseStill == issued' = issued /\ CallsStill /\ in_use' = in_use

LEMMA UseKinds ==
    ASSUME IInv, [Next]_vars
    PROVE  \/ UseStill
           \/ \E h \in Host : SubmitStep(h) \/ DriverAccept(h) \/ SubmitFence(h) \/ SubmitPush(h)
           \/ \E q \in Queue : ThreadEndUse(q)
<1>1. TypeOK
  BY DEF IInv
<1>2. ASSUME NEW h \in Host, Elsewhere(h), seq_' = seq_ PROVE CallsStill
  BY <1>2 DEF Elsewhere, OnlyHost, CallsStill
<1>3. ASSUME NEW h \in Host, OtherStep(h) PROVE UseStill
  <2>1. issued' = issued /\ in_use' = in_use /\ seq_' = seq_
    BY <1>3 DEF OtherStep, QueueNotify, QueueWait, QueueWaitReady, FenceWaitReady, SemaphoreWait, SemaphorePoke, SemaphoreReady,
         RetireTimelineEnqueue, DestroyNotify, DestroyJoin, queueVars, deviceVars
  <2> QED BY <1>1, <1>2, <1>3, <2>1, OtherStepElsewhere DEF UseStill
<1>4. ASSUME NEW h \in Host, OtherCall(h) PROVE UseStill
  <2>1. ASSUME NEW q, QueueWaitIdle(h, q) \/ DeviceWaitIdle(h, q) \/ DestroyDevice(h, q)
        PROVE  issued' = issued /\ in_use' = in_use /\ seq_' = seq_
    BY <2>1 DEF QueueWaitIdle, DeviceWaitIdle, DestroyDevice, queueVars, deviceVars
  <2>2. ASSUME NEW s, NEW p, WaitSemaphore(h, s, p) \/ SignalSemaphore(h, s, p)
        PROVE  issued' = issued /\ in_use' = in_use /\ seq_' = seq_
    BY <2>2 DEF WaitSemaphore, SignalSemaphore, queueVars, deviceVars
  <2>3. issued' = issued /\ in_use' = in_use /\ seq_' = seq_
    BY <1>4, <2>1, <2>2 DEF OtherCall
  <2> QED BY <1>1, <1>2, <1>4, <2>3, OtherCallElsewhere DEF UseStill
<1>5. ASSUME NEW h \in Host, SemaphoreStep(h) PROVE UseStill
  <2>1. CASE RetireTimelineBegin(h)
    <3>1. issued' = issued /\ in_use' = in_use /\ seq_' = seq_ /\ hpc' = hpc /\ call' = call
      BY <2>1 DEF RetireTimelineBegin, queueVars, deviceVars, hostVars
    <3> QED BY <3>1 DEF UseStill, CallsStill
  <2>2. ASSUME NEW s, NEW b, ImportSemaphore(h, s, b) \/ ExportSemaphore(h, s, b) PROVE UseStill
    BY <2>2 DEF ImportSemaphore, ExportSemaphore, UseStill, CallsStill, queueVars, deviceVars, hostVars
  <2> QED BY <1>5, <2>1, <2>2 DEF SemaphoreStep
<1>6. ASSUME NEW h \in Host, NEW f \in Fence, WaitForFence(h, f) PROVE UseStill
  <2>1. issued' = issued /\ in_use' = in_use /\ seq_' = seq_
    BY <1>6 DEF WaitForFence
  <2> QED BY <1>1, <1>2, <1>6, <2>1, WaitForFenceIs DEF UseStill
<1>7. ASSUME NEW h \in Host, NEW f \in Fence, FenceCall(h, f) PROVE UseStill
  <2>1. issued' = issued /\ in_use' = in_use /\ seq_' = seq_ /\ hpc' = hpc /\ call' = call
    BY <1>7 DEF FenceCall, ResetFence, ImportFence, ExportFence, AcquireNextImage, hostVars, queueVars, deviceVars
  <2> QED BY <2>1 DEF UseStill, CallsStill
<1>8. ASSUME NEW a \in Actor, Retire(a) PROVE UseStill
  <2>1. issued' = issued /\ in_use' = in_use /\ seq_' = seq_
    BY <1>8 DEF Retire, RetireAtOnce, RetireWaitOther, RetireResume, RetireEnd, deviceVars, queueVars
  <2>2. (hpc' = hpc /\ call' = call) \/ (a \in Host /\ Elsewhere(a))
    BY <1>8, RetireElsewhere
  <2>3. CallsStill
    <3>1. CASE hpc' = hpc /\ call' = call
      BY <2>1, <3>1 DEF CallsStill
    <3>2. CASE a \in Host /\ Elsewhere(a)
      BY <1>2, <2>1, <3>2
    <3> QED BY <2>2, <3>1, <3>2
  <2> QED BY <2>1, <2>3 DEF UseStill
<1>9. ASSUME NEW q \in Queue, ThreadStep(q) \/ ThreadRetireFence(q) \/ DeviceExecute(q) PROVE UseStill \/ ThreadEndUse(q)
  BY <1>9 DEF ThreadStep, ThreadSleep, ThreadPop, ThreadExit, ThreadRetireSemaphore, ThreadLoopDone, DeviceExecute,
              ThreadRetireCbs, ThreadComplete, ThreadRetireFence, UseStill, CallsStill, deviceVars, hostVars, queueVars
<1>10. CASE UNCHANGED vars
  BY <1>10 DEF vars, UseStill, CallsStill, deviceVars, hostVars, queueVars
<1>11. CASE Next
  BY <1>3, <1>4, <1>5, <1>6, <1>7, <1>8, <1>9, <1>11, NextCases
<1> QED BY <1>10, <1>11

-----------------------------------------------------------------------------
(* What is in use *)

\* Where the queue's numbers are: EndUsed(q) <= Popped(q) <= seq_[q] <= Len(issued[q]).
LEMMA UseNumbers ==
    ASSUME IInv, CallsRefer, NEW q \in Queue
    PROVE  /\ EndUsed(q) \in Nat /\ seq_[q] \in Nat /\ Len(issued[q]) \in Nat /\ DOMAIN issued[q] = 1..Len(issued[q])
           /\ EndUsed(q) <= seq_[q] /\ seq_[q] <= Len(issued[q])
           /\ \A i \in DOMAIN submissions_[q] : submissions_[q][i].seq \in DOMAIN issued[q]
           /\ InThread(q) => tcur[q].seq \in DOMAIN issued[q] /\ tcur[q].seq = done_[q] + 1 /\ tcur[q].seq <= seq_[q]
<1>1. TypeOK /\ Numbering
  BY DEF IInv, Order
<1>2. PICK n \in Nat, N \in Nat : n = seq_[q] /\ N = Len(issued[q]) /\ DOMAIN issued[q] = 1..N
  BY <1>1, QueueLengths, IssuedType
<1>3. N - n \in Nat
  <2>1. CASE \A h \in Host : hpc[h] \in SubmitPc => call[h].queue # q
    BY <1>2, <2>1 DEF CallsRefer, Ahead
  <2>2. ASSUME NEW h \in Host, hpc[h] \in SubmitPc, call[h].queue = q PROVE N - n \in Nat
    <3>1. N - n = Accepted(h)
      BY <1>2, <2>2 DEF CallsRefer, CallRefers, Ahead
    <3>2. CASE hpc[h] = "driver"
      BY <1>1, <3>1, <3>2, CallFields DEF Accepted
    <3>3. CASE hpc[h] # "driver"
      <4>1. PICK L \in Nat : L = Len(call[h].batches) /\ L >= 1
        BY <1>1, <2>2, BatchOne, CallFields, LenProperties
      <4> QED BY <3>1, <3>3, <4>1 DEF Accepted, Skip
    <3> QED BY <3>2, <3>3
  <2> QED BY <2>1, <2>2
<1>4. n <= N
  BY <1>2, <1>3
<1>5. PICK P \in Nat, L \in Nat, d \in Nat : P = Popped(q) /\ L = Len(submissions_[q]) /\ DOMAIN submissions_[q] = 1..L /\ d = done_[q]
  BY <1>1, LenProperties DEF TypeOK, Popped, CB_SUBMISSION
<1>6. P + L <= n
  <2>1. P + L + (IF Pushing(q) THEN 1 ELSE 0) = n
    BY <1>1, <1>2, <1>5 DEF Numbering
  <2> QED BY <1>2, <1>5, <2>1
<1>7. ASSUME NEW i \in 1..L PROVE submissions_[q][i].seq \in 1..N
  <2>1. submissions_[q][i].seq = P + i
    BY <1>1, <1>5, <1>7 DEF Numbering
  <2>2. n \in Nat /\ N \in Nat
    BY <1>2, <1>3
  <2>3. P + i \in 1..N
    BY <1>4, <1>6, <2>2
  <2> QED BY <2>1, <2>3
<1>8. ASSUME InThread(q) PROVE tcur[q].seq \in 1..N /\ tcur[q].seq = d + 1 /\ P = tcur[q].seq /\ tcur[q].seq <= n
  <2>1. tcur[q].seq = d + 1 /\ P = tcur[q].seq
    BY <1>1, <1>5, <1>8 DEF Numbering, Popped
  <2>2. d + 1 <= n /\ d + 1 \in 1..N
    <3>1. P = d + 1 /\ n \in Nat /\ N \in Nat
      BY <1>2, <2>1
    <3> QED BY <1>4, <1>6, <3>1
  <2> QED BY <2>1, <2>2
<1>9. EndUsed(q) \in Nat /\ EndUsed(q) <= P
  <2>1. CASE InThread(q)
    BY <1>5, <1>8, <2>1 DEF EndUsed
  <2>2. CASE ~InThread(q)
    BY <1>5, <2>2 DEF EndUsed, Popped
  <2> QED BY <2>1, <2>2
<1>10. EndUsed(q) <= n
  BY <1>2, <1>5, <1>6, <1>9
<1> QED BY <1>2, <1>4, <1>5, <1>7, <1>8, <1>9, <1>10

LEMMA InUseIs ==
    ASSUME IInv, CallsRefer, Room
    PROVE  \A x : x \in InUse <=> x \in Queue \X (1..MaxSeq) /\ EndUsed(x[1]) < x[2] /\ x[2] <= seq_[x[1]]
<1> SUFFICES ASSUME NEW x \in Queue \X (1..MaxSeq), x[2] <= seq_[x[1]] PROVE x[2] <= Len(issued[x[1]])
  BY DEF InUse, Batches
<1>1. x[1] \in Queue /\ x[2] \in Nat
  BY QueueStateAssumption
<1>2. seq_[x[1]] \in Nat /\ Len(issued[x[1]]) \in Nat /\ seq_[x[1]] <= Len(issued[x[1]])
  BY <1>1, UseNumbers
<1> QED BY <1>1, <1>2

\* A batch that is accepted has its references for good.
IssuedKept == \A q \in Queue : \A n \in DOMAIN issued[q] : n \in DOMAIN issued'[q] /\ Referenced(issued'[q][n]) = Referenced(issued[q][n])

LEMMA NextUse ==
    ASSUME IInv, CallsRefer, Room, [Next]_vars
    PROVE  CallsRefer' /\ Room' /\ IssuedKept
<1>1. TypeOK
  BY DEF IInv
<1>2. ASSUME issued' = issued PROVE IssuedKept
  BY <1>2 DEF IssuedKept
<1>3. CASE UseStill
  BY <1>2, <1>3, RefersKept DEF UseStill
<1>4. ASSUME NEW h \in Host, SubmitStep(h) PROVE CallsRefer' /\ Room' /\ IssuedKept
  <2>1. ASSUME NEW q \in Queue, NEW bs \in Calls[q], QueueSubmit(h, q, bs) PROVE CallsRefer' /\ Room' /\ IssuedKept
    BY <1>2, <2>1, RefersStart DEF QueueSubmit, deviceVars
  <2>2. CASE SubmitCbs(h)
    BY <1>2, <2>2, RefersCbs DEF SubmitCbs, deviceVars
  <2>3. CASE SubmitSeq(h)
    BY <1>2, <2>3, RefersSeq
  <2>4. CASE SubmitWait(h) \/ SubmitSignal(h)
    BY <1>2, <2>4, RefersTell DEF SubmitWait, SubmitSignal, deviceVars
  <2> QED BY <1>4, <2>1, <2>2, <2>3, <2>4 DEF SubmitStep
<1>5. ASSUME NEW h \in Host, DriverAccept(h) PROVE CallsRefer' /\ Room' /\ IssuedKept
  <2>1. PICK q, b, n : /\ q = call[h].queue /\ b = call[h].batches[call[h].idx + 1] /\ n = Len(issued[q]) + 1
    OBVIOUS
  <2>2. Takes(q, n, b)
    BY <1>1, <1>5, <2>1, AcceptRefers
  <2>3. \A m \in 1..(n - 1) : m \in 1..n
    BY <2>2 DEF Takes
  <2>4. IssuedKept
    BY <2>2, <2>3 DEF Takes, IssuedKept
  <2> QED BY <1>5, <2>4, RefersAccept
<1>6. ASSUME NEW h \in Host, SubmitFence(h) PROVE CallsRefer' /\ Room' /\ IssuedKept
  BY <1>2, <1>6, RefersFence DEF SubmitFence, deviceVars
<1>7. ASSUME NEW h \in Host, SubmitPush(h) PROVE CallsRefer' /\ Room' /\ IssuedKept
  BY <1>2, <1>7, RefersPush DEF SubmitPush, deviceVars
<1>8. ASSUME NEW q \in Queue, ThreadEndUse(q) PROVE CallsRefer' /\ Room' /\ IssuedKept
  <2>1. issued' = issued /\ CallsStill
    BY <1>8 DEF ThreadEndUse, CallsStill, queueVars, hostVars, deviceVars
  <2> QED BY <1>2, <2>1, RefersKept
<1> QED BY <1>3, <1>4, <1>5, <1>6, <1>7, <1>8, UseKinds

\* A submission goes through the deque and the thread as it was accepted.
LEMMA NextThreadRefers ==
    ASSUME IInv, IInv', CallsRefer, IssuedKept, DequeRefers, ThreadRefers, [Next]_vars
    PROVE  DequeRefers' /\ ThreadRefers'
<1>1. TypeOK /\ TypeOK'
  BY DEF IInv
<1>2. /\ \A q \in Queue : \A i \in DOMAIN submissions_[q] :
            Referenced(submissions_[q][i]) = Referenced(issued'[q][submissions_[q][i].seq])
      /\ \A q \in Queue : InThread(q) => Referenced(tcur[q]) = Referenced(issued'[q][tcur[q].seq])
  <2>1. ASSUME NEW q \in Queue, NEW i \in DOMAIN submissions_[q]
        PROVE  Referenced(submissions_[q][i]) = Referenced(issued'[q][submissions_[q][i].seq])
    <3>1. submissions_[q][i].seq \in DOMAIN issued[q]
      BY UseNumbers
    <3> QED BY <3>1 DEF IssuedKept, DequeRefers
  <2>2. ASSUME NEW q \in Queue, InThread(q) PROVE Referenced(tcur[q]) = Referenced(issued'[q][tcur[q].seq])
    <3>1. tcur[q].seq \in DOMAIN issued[q]
      BY <2>2, UseNumbers
    <3> QED BY <2>2, <3>1 DEF IssuedKept, ThreadRefers
  <2> QED BY <2>1, <2>2
<1>3. CASE ThreadsKeep
  BY <1>2, <1>3 DEF ThreadsKeep, DequeRefers, ThreadRefers
<1>4. ASSUME NEW h \in Host, SubmitPush(h) PROVE DequeRefers' /\ ThreadRefers'
  <2>1. hpc[h] = "push" /\ hpc[h] \in PushPc
    BY <1>4 DEF SubmitPush, PushPc
  <2>2. PICK q, b : q \in Queue /\ q = call[h].queue /\ b = call[h].sub
    BY <2>1, PositiveSeq
  <2>3. Referenced(b) = Referenced(issued[q][b.seq])
    BY <2>1, <2>2 DEF CallsRefer, SubRefers
  <2>4. issued' = issued /\ submissions_' = [submissions_ EXCEPT ![q] = Append(@, b)] /\ tcur' = tcur
    BY <1>4, <2>2 DEF SubmitPush, deviceVars
  <2>5. \A p \in Queue : InThread(p)' => InThread(p)
    BY <1>1, <1>4 DEF SubmitPush, InThread, TypeOK
  <2>6. submissions_[q] \in Seq(CB_SUBMISSION) /\ b \in CB_SUBMISSION /\ submissions_'[q] = Append(submissions_[q], b)
    BY <1>1, <2>2, <2>4, CallFields DEF TypeOK
  <2>7. PICK L \in Nat : L = Len(submissions_[q]) /\ DOMAIN submissions_[q] = 1..L
    BY <2>6, LenProperties
  <2>8. /\ DOMAIN submissions_'[q] = 1..(L + 1) /\ submissions_'[q][L + 1] = b
        /\ \A j \in 1..L : submissions_'[q][j] = submissions_[q][j]
    BY <2>6, <2>7, AppendProperties, LenProperties
  <2>9. ASSUME NEW i \in DOMAIN submissions_'[q]
        PROVE  Referenced(submissions_'[q][i]) = Referenced(issued[q][submissions_'[q][i].seq])
    <3>1. i \in 1..L \/ i = L + 1
      BY <2>7, <2>8, <2>9
    <3>2. CASE i \in 1..L
      <4>1. i \in DOMAIN submissions_[q] /\ submissions_'[q][i] = submissions_[q][i]
        BY <2>7, <2>8, <3>2
      <4> QED BY <2>2, <4>1 DEF DequeRefers
    <3>3. CASE i = L + 1
      <4>1. submissions_'[q][i] = b
        BY <2>8, <3>3
      <4> QED BY <2>3, <4>1
    <3> QED BY <3>1, <3>2, <3>3
  <2>10. \A p \in Queue : p # q => submissions_'[p] = submissions_[p]
    BY <1>1, <2>4 DEF TypeOK
  <2>11. DequeRefers'
    BY <2>4, <2>9, <2>10 DEF DequeRefers
  <2>12. ThreadRefers'
    BY <2>4, <2>5 DEF ThreadRefers
  <2> QED BY <2>11, <2>12
<1>5. ASSUME NEW q \in Queue, ThreadPop(q) PROVE DequeRefers' /\ ThreadRefers'
  <2>1. PICK s : s = submissions_[q] /\ s \in Seq(CB_SUBMISSION) /\ s # << >>
    BY <1>1, <1>5 DEF TypeOK, ThreadPop, NothingToRetire
  <2>2. /\ issued' = issued /\ tcur'[q] = Head(s) /\ submissions_'[q] = Tail(s)
        /\ \A p \in Queue : p # q => submissions_'[p] = submissions_[p] /\ tcur'[p] = tcur[p] /\ tpc'[p] = tpc[p]
    BY <1>1, <1>5, <2>1 DEF ThreadPop, TypeOK, deviceVars
  <2>3. PICK L \in Nat : /\ DOMAIN s = 1..L /\ L >= 1 /\ Head(s) = s[1] /\ DOMAIN Tail(s) = 1..(L - 1)
                         /\ \A i \in 1..(L - 1) : Tail(s)[i] = s[i + 1]
    BY <2>1, HeadTailProperties, EmptySeq, LenProperties
  <2>4. \A i \in 1..L : Referenced(s[i]) = Referenced(issued[q][s[i].seq])
    BY <2>1, <2>3 DEF DequeRefers
  <2>5. 1 \in 1..L /\ \A i \in 1..(L - 1) : i + 1 \in 1..L
    BY <2>3
  <2>6. DequeRefers'
    BY <2>2, <2>3, <2>4, <2>5 DEF DequeRefers
  <2>7. \A p \in Queue : InThread(p)' => p = q \/ InThread(p)
    BY <2>2 DEF InThread
  <2>8. ThreadRefers'
    BY <2>2, <2>3, <2>4, <2>5, <2>7 DEF ThreadRefers
  <2> QED BY <2>6, <2>8
<1> QED BY <1>1, <1>3, <1>4, <1>5, NextThreads

-----------------------------------------------------------------------------
(* The counters *)

Refs(o) == [x \in Batches |-> References(Batch(x), o)]

LEMMA InUseExactIs == InUseExact <=> \A o \in Object : in_use[o] = SumFunctionOnSet(Refs(o), InUse)
BY DEF InUseExact, Refs

LEMMA RefsType ==
    ASSUME TypeOK, NEW x \in Batches, NEW o
    PROVE  /\ x[1] \in Queue /\ x[2] \in DOMAIN issued[x[1]] /\ x = <<x[1], x[2]>>
           /\ Refs(o)[x] = References(issued[x[1]][x[2]], o) /\ Refs(o)[x] \in Int
<1>1. x[1] \in Queue /\ x[2] \in 1..MaxSeq /\ x[2] <= Len(issued[x[1]]) /\ x = <<x[1], x[2]>>
  BY DEF Batches
<1>2. MaxSeq \in Nat /\ Len(issued[x[1]]) \in Nat /\ DOMAIN issued[x[1]] = 1..Len(issued[x[1]])
  BY <1>1, IssuedType, QueueStateAssumption
<1>3. x[2] \in DOMAIN issued[x[1]]
  BY <1>1, <1>2
<1>4. Refs(o)[x] = References(issued[x[1]][x[2]], o)
  BY DEF Refs, Batch
<1>5. issued[x[1]][x[2]] \in CB_SUBMISSION
  BY <1>1, <1>3, IssuedType
<1>6. References(issued[x[1]][x[2]], o) \in Nat
  BY <1>5, ReferencesType
<1> QED BY <1>1, <1>3, <1>4, <1>6

LEMMA InUseBatches == InUse \subseteq Batches
BY DEF InUse

\* The same submissions are in use, and none is counted.
LEMMA CountKept ==
    ASSUME UseInv, TypeOK, TypeOK', IssuedKept, InUse' = InUse, in_use' = in_use
    PROVE  IsFiniteSet(InUse') /\ InUseExact'
<1>1. IsFiniteSet(InUse) /\ InUseExact
  BY DEF UseInv
<1>2. ASSUME NEW o \in Object PROVE in_use'[o] = SumFunctionOnSet(Refs(o)', InUse')
  <2>1. PICK f, g : f = Refs(o) /\ g = Refs(o)'
    OBVIOUS
  <2>2. \A x \in InUse : f[x] = g[x]
    <3> TAKE x \in InUse
    <3>1. x \in Batches
      BY InUseBatches
    <3>2. x \in Batches'
      <4>1. (InUse \subseteq Batches)'
        BY InUseBatches, PTL
      <4> QED BY <4>1
    <3>3. /\ x[1] \in Queue /\ x[2] \in DOMAIN issued[x[1]] /\ f[x] = References(issued[x[1]][x[2]], o)
      BY <2>1, <3>1, RefsType
    <3>4. g[x] = References(issued'[x[1]][x[2]], o)
      BY <2>1, <3>2 DEF Refs, Batch
    <3>5. Referenced(issued'[x[1]][x[2]]) = Referenced(issued[x[1]][x[2]])
      BY <3>3 DEF IssuedKept
    <3> QED BY <3>3, <3>4, <3>5, SameReferences
  <2>3. SumFunctionOnSet(f, InUse) = SumFunctionOnSet(g, InUse)
    BY <1>1, <2>2, SumSame
  <2>4. in_use[o] = SumFunctionOnSet(f, InUse)
    BY <1>1, <2>1, InUseExactIs
  <2> QED BY <2>1, <2>3, <2>4
<1>3. InUseExact' <=> \A o \in Object : in_use'[o] = SumFunctionOnSet(Refs(o)', InUse')
  BY DEF InUseExact, Refs
<1> QED BY <1>1, <1>2, <1>3

\* BeginUse() counts the submission that gets its number.
LEMMA CountBegins ==
    ASSUME UseInv, IInv, IInv', CallsRefer', Room', NEW h \in Host, SubmitSeq(h), \A q \in Queue : EndUsed(q)' = EndUsed(q)
    PROVE  IsFiniteSet(InUse') /\ InUseExact'
<1>1. TypeOK /\ TypeOK' /\ CallsRefer /\ Room /\ IsFiniteSet(InUse) /\ InUseExact
  BY DEF UseInv, IInv
<1>2. PICK q, n, z : q = call[h].queue /\ n = seq_[q] + 1 /\ z = <<q, n>>
  OBVIOUS
<1>3. /\ q \in Queue /\ n \in DOMAIN issued[q] /\ issued' = issued
      /\ seq_'[q] = n /\ \A p \in Queue : p # q => seq_'[p] = seq_[p]
      /\ Referenced(call[h].sub) = Referenced(issued[q][n])
  BY <1>1, <1>2, RefersSeq
<1>4. PICK m \in Nat, e \in Nat, N \in Nat : m = seq_[q] /\ e = EndUsed(q) /\ e <= m /\ n = m + 1 /\ N = Len(issued[q]) /\ n \in 1..N
  BY <1>1, <1>2, <1>3, UseNumbers
<1>5. z \in Queue \X (1..MaxSeq) /\ z[1] = q /\ z[2] = n /\ n <= N
  <2>1. N <= MaxSeq /\ MaxSeq \in Nat
    BY <1>1, <1>3, <1>4, QueueStateAssumption DEF Room
  <2>2. n \in 1..MaxSeq
    BY <1>4, <2>1
  <2> QED BY <1>2, <1>3, <1>4, <2>2
<1>6. z \notin InUse /\ z \in Batches /\ Batches' = Batches
  <2>1. ~(n <= m)
    BY <1>4
  <2> QED BY <1>2, <1>3, <1>4, <1>5, <2>1 DEF InUse, Batches
<1>7. InUse' = InUse \cup {z}
  <2>1. \A x : x \in InUse <=> x \in Batches /\ EndUsed(x[1]) < x[2] /\ x[2] <= seq_[x[1]]
    BY DEF InUse
  <2>2. \A x : x \in InUse' <=> x \in Batches /\ EndUsed(x[1])' < x[2] /\ x[2] <= seq_'[x[1]]
    BY <1>6 DEF InUse
  <2>3. ASSUME NEW x \in Batches PROVE x \in InUse' <=> x \in InUse \/ x = z
    <3>1. x[1] \in Queue /\ x[2] \in Nat /\ x = <<x[1], x[2]>>
      BY QueueStateAssumption DEF Batches
    <3>2. CASE x[1] # q
      BY <1>2, <1>3, <2>1, <2>2, <3>1, <3>2
    <3>3. CASE x[1] = q
      <4>1. x = z <=> x[2] = n
        BY <1>2, <3>1, <3>3
      <4>2. x[2] <= n <=> x[2] <= m \/ x[2] = n
        BY <1>4, <3>1
      <4>3. e < n
        BY <1>4
      <4>4. EndUsed(x[1])' = e /\ EndUsed(x[1]) = e /\ seq_'[x[1]] = n /\ seq_[x[1]] = m
        BY <1>3, <1>4, <3>3
      <4> QED BY <2>1, <2>2, <4>1, <4>2, <4>3, <4>4
    <3> QED BY <3>2, <3>3
  <2> QED BY <1>6, <2>1, <2>2, <2>3
<1>8. IsFiniteSet(InUse') /\ InUse' \ {z} = InUse /\ z \in InUse'
  BY <1>1, <1>6, <1>7, FS_AddElement
<1>9. ASSUME NEW o \in Object PROVE in_use'[o] = SumFunctionOnSet(Refs(o)', InUse')
  <2>1. PICK f : f = Refs(o) /\ f = Refs(o)'
    BY <1>3, <1>6 DEF Refs, Batch
  <2>2. \A x \in InUse' : f[x] \in Int
    <3>1. \A x \in Batches : f[x] \in Int
      BY <1>1, <2>1, RefsType
    <3> QED BY <1>6, <1>7, <3>1, InUseBatches
  <2>3. SumFunctionOnSet(f, InUse') = SumFunctionOnSet(f, InUse' \ {z}) + f[z]
    <3>1. PICK S : S = InUse'
      OBVIOUS
    <3>2. SumFunctionOnSet(f, S) = SumFunctionOnSet(f, S \ {z}) + f[z]
      BY <1>8, <2>2, <3>1, SumAdds
    <3> QED BY <3>1, <3>2
  <2>4. f[z] = References(call[h].sub, o)
    <3>1. f[z] = References(issued[q][n], o)
      BY <1>1, <1>5, <1>6, <2>1, RefsType
    <3> QED BY <1>3, <3>1, SameReferences
  <2>5. in_use'[o] = in_use[o] + References(call[h].sub, o)
    BY DEF SubmitSeq, BeginUse
  <2>6. in_use[o] = SumFunctionOnSet(f, InUse)
    BY <1>1, <2>1, InUseExactIs
  <2> QED BY <1>8, <2>1, <2>3, <2>4, <2>5, <2>6
<1>10. InUseExact' <=> \A o \in Object : in_use'[o] = SumFunctionOnSet(Refs(o)', InUse')
  BY DEF InUseExact, Refs
<1> QED BY <1>8, <1>9, <1>10

\* EndUse() takes out what BeginUse() counted.
LEMMA CountEnds ==
    ASSUME UseInv, IInv, NEW q \in Queue, ThreadEndUse(q)
    PROVE  IsFiniteSet(InUse') /\ InUseExact'
<1>1. TypeOK /\ CallsRefer /\ Room /\ IsFiniteSet(InUse) /\ InUseExact /\ ThreadRefers
  BY DEF UseInv, IInv
<1>2. /\ tpc[q] = "enduse" /\ tpc'[q] = "waits" /\ issued' = issued /\ seq_' = seq_ /\ tcur' = tcur /\ done_' = done_
      /\ \A p \in Queue : p # q => tpc'[p] = tpc[p]
  BY <1>1 DEF ThreadEndUse, TypeOK, queueVars, deviceVars
<1>3. InThread(q) /\ InThread(q)'
  BY <1>2 DEF InThread
<1>4. PICK n, z : n = tcur[q].seq /\ z = <<q, n>>
  OBVIOUS
<1>5. PICK d \in Nat, m \in Nat, N \in Nat : /\ d = done_[q] /\ m = seq_[q] /\ N = Len(issued[q]) /\ n \in 1..N /\ n = d + 1 /\ n <= m
                                             /\ DOMAIN issued[q] = 1..N
  <2>1. done_[q] \in Nat
    BY <1>1 DEF TypeOK
  <2> QED BY <1>1, <1>3, <1>4, <2>1, UseNumbers
<1>6. EndUsed(q) = d /\ EndUsed(q)' = n /\ \A p \in Queue : p # q => EndUsed(p)' = EndUsed(p)
  BY <1>2, <1>3, <1>4, <1>5 DEF EndUsed, InThread
<1>7. z \in Queue \X (1..MaxSeq) /\ z[1] = q /\ z[2] = n /\ n <= N
  <2>1. N <= MaxSeq /\ MaxSeq \in Nat
    BY <1>1, <1>5, QueueStateAssumption DEF Room
  <2>2. n \in 1..MaxSeq
    BY <1>5, <2>1
  <2> QED BY <1>4, <1>5, <2>2
<1>8. z \in InUse /\ z \in Batches /\ Batches' = Batches
  <2>1. d < n
    BY <1>5
  <2> QED BY <1>2, <1>4, <1>5, <1>6, <1>7, <2>1 DEF InUse, Batches
<1>9. InUse' = InUse \ {z}
  <2>1. \A x : x \in InUse <=> x \in Batches /\ EndUsed(x[1]) < x[2] /\ x[2] <= seq_[x[1]]
    BY DEF InUse
  <2>2. \A x : x \in InUse' <=> x \in Batches /\ EndUsed(x[1])' < x[2] /\ x[2] <= seq_[x[1]]
    BY <1>2, <1>8 DEF InUse
  <2>3. ASSUME NEW x \in Batches PROVE x \in InUse' <=> x \in InUse /\ x # z
    <3>1. x[1] \in Queue /\ x[2] \in Nat /\ x = <<x[1], x[2]>>
      BY QueueStateAssumption DEF Batches
    <3>2. CASE x[1] # q
      BY <1>4, <1>6, <2>1, <2>2, <3>1, <3>2
    <3>3. CASE x[1] = q
      <4>1. x = z <=> x[2] = n
        BY <1>4, <3>1, <3>3
      <4>2. n < x[2] <=> d < x[2] /\ x[2] # n
        BY <1>5, <3>1
      <4>3. EndUsed(x[1])' = n /\ EndUsed(x[1]) = d
        BY <1>6, <3>3
      <4> QED BY <2>1, <2>2, <4>1, <4>2, <4>3
    <3> QED BY <3>2, <3>3
  <2> QED BY <2>1, <2>2, <2>3
<1>10. IsFiniteSet(InUse')
  BY <1>1, <1>9, FS_RemoveElement
<1>11. ASSUME NEW o \in Object PROVE in_use'[o] = SumFunctionOnSet(Refs(o)', InUse')
  <2>1. PICK f : f = Refs(o) /\ f = Refs(o)'
    BY <1>2, <1>8 DEF Refs, Batch
  <2>2. \A x \in InUse : f[x] \in Int
    <3>1. \A x \in Batches : f[x] \in Int
      BY <1>1, <2>1, RefsType
    <3> QED BY <3>1, InUseBatches
  <2>3. SumFunctionOnSet(f, InUse) = SumFunctionOnSet(f, InUse \ {z}) + f[z]
    BY <1>1, <1>8, <2>2, SumAdds
  <2>4. f[z] = References(tcur[q], o)
    <3>1. f[z] = References(issued[q][n], o)
      BY <1>1, <1>7, <1>8, <2>1, RefsType
    <3>2. Referenced(tcur[q]) = Referenced(issued[q][n])
      BY <1>1, <1>3, <1>4 DEF ThreadRefers
    <3> QED BY <3>1, <3>2, SameReferences
  <2>5. in_use'[o] = in_use[o] - References(tcur[q], o)
    BY DEF ThreadEndUse, EndUse
  <2>6. in_use[o] = SumFunctionOnSet(f, InUse)
    BY <1>1, <2>1, InUseExactIs
  <2>7. PICK a \in Int, b \in Int : a = SumFunctionOnSet(f, InUse \ {z}) /\ b = f[z]
    <3>1. IsFiniteSet(InUse \ {z}) /\ \A x \in InUse \ {z} : f[x] \in Int
      BY <1>9, <1>10, <2>2
    <3>2. SumFunctionOnSet(f, InUse \ {z}) \in Int
      BY <3>1, SumType
    <3> QED BY <1>8, <2>2, <3>2
  <2>8. (a + b) - b = a
    OBVIOUS
  <2> QED BY <1>9, <2>1, <2>3, <2>4, <2>5, <2>6, <2>7, <2>8
<1>12. InUseExact' <=> \A o \in Object : in_use'[o] = SumFunctionOnSet(Refs(o)', InUse')
  BY DEF InUseExact, Refs
<1> QED BY <1>10, <1>11, <1>12

LEMMA NextInUse ==
    ASSUME IInv, IInv', UseInv, [Next]_vars
    PROVE  UseInv'
<1>1. TypeOK /\ TypeOK' /\ CallsRefer /\ Room /\ DequeRefers /\ ThreadRefers
  BY DEF IInv, UseInv
<1>2. CallsRefer' /\ Room' /\ IssuedKept
  BY <1>1, NextUse
<1>3. DequeRefers' /\ ThreadRefers'
  BY <1>1, <1>2, NextThreadRefers
<1>4. (\E q \in Queue : ThreadEndUse(q)) \/ \A q \in Queue : EndUsed(q)' = EndUsed(q)
  BY <1>1, EndUsedStays
<1>5. ASSUME \E q \in Queue : ThreadEndUse(q)
      PROVE  IsFiniteSet(InUse') /\ InUseExact'
  BY <1>5, CountEnds
<1>6. ASSUME (\A q \in Queue : EndUsed(q)' = EndUsed(q)) /\ \E h \in Host : SubmitSeq(h)
      PROVE  IsFiniteSet(InUse') /\ InUseExact'
  BY <1>2, <1>6, CountBegins
<1>7. ASSUME (\A q \in Queue : EndUsed(q)' = EndUsed(q)) /\ ~(\E h \in Host : SubmitSeq(h)) /\ ~(\E q \in Queue : ThreadEndUse(q))
      PROVE  IsFiniteSet(InUse') /\ InUseExact'
  <2>1. in_use' = in_use /\ seq_' = seq_
    <3>1. CASE UseStill
      BY <3>1 DEF UseStill, CallsStill
    <3>2. ASSUME NEW h \in Host, SubmitStep(h) \/ DriverAccept(h) \/ SubmitFence(h) \/ SubmitPush(h) PROVE in_use' = in_use /\ seq_' = seq_
      <4>1. ASSUME NEW q, NEW bs, QueueSubmit(h, q, bs) PROVE in_use' = in_use /\ seq_' = seq_
        BY <4>1 DEF QueueSubmit, queueVars
      <4> QED BY <1>7, <3>2, <4>1 DEF SubmitStep, SubmitCbs, SubmitWait, SubmitSignal, DriverAccept, SubmitFence, SubmitPush, queueVars
    <3> QED BY <1>7, <3>1, <3>2, UseKinds
  <2>2. \A x : x \in InUse' <=> x \in Queue \X (1..MaxSeq) /\ EndUsed(x[1])' < x[2] /\ x[2] <= seq_'[x[1]]
    <3>1. (IInv /\ CallsRefer /\ Room => \A x : x \in InUse <=> x \in Queue \X (1..MaxSeq) /\ EndUsed(x[1]) < x[2] /\ x[2] <= seq_[x[1]])'
      BY InUseIs, PTL
    <3> QED BY <1>2, <3>1
  <2>3. \A x : x \in InUse <=> x \in Queue \X (1..MaxSeq) /\ EndUsed(x[1]) < x[2] /\ x[2] <= seq_[x[1]]
    BY <1>1, InUseIs
  <2>4. \A x : x \in InUse' <=> x \in InUse
    BY <1>7, <2>1, <2>2, <2>3
  <2>5. InUse' = InUse
    BY <2>4
  <2> QED BY <1>1, <1>2, <2>1, <2>5, CountKept
<1>8. IsFiniteSet(InUse') /\ InUseExact'
  BY <1>4, <1>5, <1>6, <1>7
<1> QED BY <1>2, <1>3, <1>8 DEF UseInv

LEMMA InitUse == Init => UseInv
<1> SUFFICES ASSUME Init PROVE UseInv
  OBVIOUS
<1>1. /\ \A q \in Queue : /\ issued[q] = << >> /\ seq_[q] = 0 /\ submissions_[q] = << >> /\ tpc[q] = "none"
      /\ \A h \in Host : hpc[h] = "idle"
      /\ \A o \in Object : in_use[o] = 0
  BY DEF Init
<1>2. Len(<< >>) = 0 /\ DOMAIN << >> = {}
  BY EmptySeq
<1>3. CallsRefer
  BY <1>1, <1>2 DEF CallsRefer, SubRefers, Ahead, SubmitPc, PushPc
<1>4. Room
  BY <1>1, <1>2, QueueStateAssumption DEF Room
<1>5. DequeRefers /\ ThreadRefers
  BY <1>1, <1>2 DEF DequeRefers, ThreadRefers, InThread
<1>6. InUse = {}
  <2>1. \A x \in Batches : x[1] \in Queue /\ x[2] \in 1..MaxSeq /\ x[2] <= 0
    BY <1>1, <1>2 DEF Batches
  <2>2. \A n \in 1..MaxSeq : ~(n <= 0)
    BY QueueStateAssumption
  <2> QED BY <2>1, <2>2 DEF InUse
<1>7. IsFiniteSet(InUse)
  BY <1>6, FS_EmptySet
<1>8. InUseExact
  <2>1. \A o \in Object : SumFunctionOnSet(Refs(o), InUse) = 0
    BY <1>6, <1>7, SumPick
  <2> QED BY <1>1, <2>1, InUseExactIs
<1> QED BY <1>3, <1>4, <1>5, <1>7, <1>8 DEF UseInv

LEMMA UseAlways == Spec => []UseInv
<1>1. IInv /\ IInv' /\ UseInv /\ [Next]_vars => UseInv'
  BY NextInUse
<1> QED BY <1>1, InitUse, Invariance, PTL DEF Spec

\* in_use_ is exact: every semaphore, fence and command buffer is counted once for every
\* reference that a submission between BeginUse() and EndUse() makes to it, whatever calls,
\* retirements and queue threads interleave.
THEOREM InUseCounted == Spec => []InUseExact
<1>1. UseInv => InUseExact
  BY DEF UseInv
<1> QED BY <1>1, UseAlways, PTL
=============================================================================
