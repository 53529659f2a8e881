----------------------------- MODULE SyncProofs -----------------------------
(***************************************************************************)
(* The summary of synchronization validation stands for the whole history: *)
(* proofs of the invariant in SyncInv, and the theorems that follow.       *)
(***************************************************************************)
EXTENDS SyncInv, SequenceTheorems, TLAPS

-----------------------------------------------------------------------------
(* Usages and scopes *)

AnyUsage == Usages \cup {Transition}

Scope == [srcExec : SUBSET Stages, srcAccess : SUBSET Usages,
          dstExec : SUBSET Stages, dstAccess : SUBSET Usages, transition : BOOLEAN]

LEMMA UsageFacts ==
    /\ \A u \in AnyUsage : u # NoUsage
    /\ \A u \in AnyUsage : IsRead(u) => u \in Usages /\ u.stage \in Stages
    /\ Transition \in AnyUsage /\ Transition \notin Usages /\ ~IsRead(Transition)
    /\ \A u \in Usages : u.stage \in Stages
    /\ \A u, v \in AnyUsage : IsRead(u) /\ IsRead(v) /\ u.stage = v.stage => u = v
BY StagesAssumption DEF AnyUsage, Usages, Transition, NoUsage, IsRead, NoStage

\* The accesses in the first scope of a barrier are of stages in its execution scope.
Narrow(b) == \A u \in b.srcAccess : u.stage \in b.srcExec

LEMMA ScopeFacts ==
    ASSUME NEW b \in AppBarrier
    PROVE  /\ SyncBarrier(b) \in Scope
           /\ SyncBarrier(b).transition = b.transition
           /\ Narrow(SyncBarrier(b))
<1>1. \A m \in SUBSET Stages : WithEarlierPipelineStages(m) \subseteq Stages /\ m \subseteq WithEarlierPipelineStages(m)
  BY StagesAssumption DEF WithEarlierPipelineStages
<1>2. \A m \in SUBSET Stages : WithLaterPipelineStages(m) \subseteq Stages
  BY StagesAssumption DEF WithLaterPipelineStages
<1>3. \A m, a : AccessScope(m, a) \subseteq Usages /\ \A u \in AccessScope(m, a) : u.stage \in m
  BY DEF AccessScope
<1>4. b.src \in SUBSET Stages /\ b.dst \in SUBSET Stages /\ b.transition \in BOOLEAN
  BY DEF AppBarrier
<1> QED BY <1>1, <1>2, <1>3, <1>4 DEF SyncBarrier, Scope, Narrow

-----------------------------------------------------------------------------
(* Histories, access by access *)

\* g is h with one more access of usage u, after those in D.
Extended(h, g, u, D, after, visible) ==
    /\ Len(g) = Len(h) + 1
    /\ \A i \in 1 .. Len(h) :
          /\ g[i].usage = h[i].usage /\ g[i].after = h[i].after /\ g[i].visible = h[i].visible
          /\ \A j : j \in g[i].before <=>
                \/ j \in h[i].before
                \/ j = Len(h) + 1 /\ (i \in D \/ \E k \in h[i].before : k \in D)
    /\ g[Len(h) + 1].usage = u /\ g[Len(h) + 1].after = after /\ g[Len(h) + 1].visible = visible
    /\ g[Len(h) + 1].before = {}

\* g is h after the barriers B.
Barred(h, g, B) ==
    /\ Len(g) = Len(h)
    /\ \A i \in 1 .. Len(h) :
          /\ g[i].usage = h[i].usage /\ g[i].before = h[i].before
          /\ \A x : x \in g[i].after <=> x \in h[i].after \/ \E b \in B : InFirstScope(h[i], b) /\ x \in b.dstExec
          /\ \A x : x \in g[i].visible <=> x \in h[i].visible \/ \E b \in B : InFirstScope(h[i], b) /\ x \in b.dstAccess

LEMMA ExtendIs ==
    ASSUME NEW h \in Seq(Access), NEW u \in AnyUsage, NEW D,
           NEW after \in SUBSET Stages, NEW visible \in SUBSET Usages
    PROVE  /\ Extend(h, u, D, after, visible) \in Seq(Access)
           /\ Extended(h, Extend(h, u, D, after, visible), u, D, after, visible)
<1> DEFINE n == Len(h) + 1
           Ord(i) == i \in D \/ h[i].before \cap D # {}
           f == [i \in DOMAIN h |-> IF Ord(i) THEN [h[i] EXCEPT !.before = @ \cup {n}] ELSE h[i]]
           a == [usage |-> u, after |-> after, visible |-> visible, before |-> {}]
<1>1. n \in Nat /\ DOMAIN h = 1 .. Len(h) /\ Len(h) \in Nat
  OBVIOUS
<1>2. \A i \in 1 .. Len(h) : h[i] \in Access
  OBVIOUS
<1>3. \A i \in 1 .. Len(h) : f[i] \in Access
  BY <1>1, <1>2 DEF Access
<1>4. f \in Seq(Access) /\ Len(f) = Len(h)
  BY <1>1, <1>3
<1>5. a \in Access
  BY DEF Access, AnyUsage
<1>6. Extend(h, u, D, after, visible) = Append(f, a)
  BY DEF Extend
<1>7. \A i \in 1 .. Len(h) :
          /\ f[i].usage = h[i].usage /\ f[i].after = h[i].after /\ f[i].visible = h[i].visible
          /\ \A j : j \in f[i].before <=> j \in h[i].before \/ (j = n /\ Ord(i))
  BY <1>1, <1>2 DEF Access
<1> HIDE DEF f, a
<1>8. /\ Append(f, a) \in Seq(Access) /\ Len(Append(f, a)) = Len(h) + 1
      /\ Append(f, a)[n] = a /\ \A i \in 1 .. Len(h) : Append(f, a)[i] = f[i]
  BY <1>1, <1>4, <1>5
<1>9. \A i \in 1 .. Len(h) : Ord(i) <=> (i \in D \/ \E k \in h[i].before : k \in D)
  OBVIOUS
<1>10. a.usage = u /\ a.after = after /\ a.visible = visible /\ a.before = {}
  BY DEF a
<1> QED BY <1>6, <1>7, <1>8, <1>9, <1>10 DEF Extended

\* The accesses of h after the barriers B.
Later(h, B) ==
    [i \in DOMAIN h |->
        [h[i] EXCEPT !.after = @ \cup UNION {b.dstExec : b \in {c \in B : InFirstScope(h[i], c)}},
                     !.visible = @ \cup UNION {b.dstAccess : b \in {c \in B : InFirstScope(h[i], c)}}]]

LEMMA LaterIs ==
    ASSUME NEW h \in Seq(Access), NEW B \in SUBSET Scope
    PROVE  Later(h, B) \in Seq(Access) /\ Barred(h, Later(h, B), B)
<1> DEFINE Hit(i) == {c \in B : InFirstScope(h[i], c)}
           g == Later(h, B)
<1>1. DOMAIN h = 1 .. Len(h) /\ Len(h) \in Nat /\ \A i \in 1 .. Len(h) : h[i] \in Access
  OBVIOUS
<1>2. \A i \in 1 .. Len(h) : UNION {b.dstExec : b \in Hit(i)} \subseteq Stages /\ UNION {b.dstAccess : b \in Hit(i)} \subseteq Usages
  BY DEF Scope
<1>3. \A i \in 1 .. Len(h) : g[i] = [h[i] EXCEPT !.after = @ \cup UNION {b.dstExec : b \in Hit(i)},
                                                 !.visible = @ \cup UNION {b.dstAccess : b \in Hit(i)}]
  BY <1>1 DEF Later
<1>4. ASSUME NEW i \in 1 .. Len(h)
      PROVE  /\ g[i] \in Access /\ g[i].usage = h[i].usage /\ g[i].before = h[i].before
             /\ g[i].after = h[i].after \cup UNION {b.dstExec : b \in Hit(i)}
             /\ g[i].visible = h[i].visible \cup UNION {b.dstAccess : b \in Hit(i)}
  <2>1. PICK E \in SUBSET Stages, V \in SUBSET Usages, r \in Access :
           E = UNION {b.dstExec : b \in Hit(i)} /\ V = UNION {b.dstAccess : b \in Hit(i)} /\ r = h[i]
    BY <1>1, <1>2
  <2>2. g[i] = [r EXCEPT !.after = @ \cup E, !.visible = @ \cup V]
    BY <1>3, <2>1, Zenon
  <2> HIDE DEF g
  <2>3. g[i] \in Access /\ g[i].usage = r.usage /\ g[i].before = r.before /\ g[i].after = r.after \cup E /\ g[i].visible = r.visible \cup V
    BY <2>2 DEF Access
  <2> QED BY <2>1, <2>3
<1>5. g = [i \in 1 .. Len(h) |-> g[i]]
  BY <1>1 DEF Later
<1> HIDE DEF g
<1>6. g \in Seq(Access) /\ Len(g) = Len(h)
  <2>1. g \in [1 .. Len(h) -> Access]
    BY <1>4, <1>5
  <2> QED BY <1>1, <2>1, LenProperties, SeqDef
<1>7. ASSUME NEW i \in 1 .. Len(h)
      PROVE  /\ \A x : x \in g[i].after <=> x \in h[i].after \/ \E b \in B : InFirstScope(h[i], b) /\ x \in b.dstExec
             /\ \A x : x \in g[i].visible <=> x \in h[i].visible \/ \E b \in B : InFirstScope(h[i], b) /\ x \in b.dstAccess
  BY <1>4
<1> QED BY <1>4, <1>6, <1>7 DEF Barred, g

LEMMA AccessedIs ==
    ASSUME NEW h \in Seq(Access), NEW u \in Usages
    PROVE  /\ Accessed(h, u) \in Seq(Access)
           /\ Extended(h, Accessed(h, u), u, DirectlyBefore(h, u), {}, {})
BY ExtendIs DEF Accessed, AnyUsage

LEMMA BarrieredIs ==
    ASSUME NEW h \in Seq(Access), NEW B \in SUBSET Scope, \A b \in B : ~b.transition
    PROVE  Barriered(h, B) \in Seq(Access) /\ Barred(h, Barriered(h, B), B)
<1>1. {b \in B : b.transition} = {}
  OBVIOUS
<1>2. Barriered(h, B) = Later(h, B)
  BY <1>1 DEF Barriered, Later
<1> QED BY <1>2, LaterIs

\* The accesses that a transition by barrier b directly happens after.
DirectlyBeforeTransition(h, b) == {i \in DOMAIN h : BeforeTransition(h[i], b)}

LEMMA TransitionIs ==
    ASSUME NEW h \in Seq(Access), NEW b \in Scope, b.transition
    PROVE  \E m \in Seq(Access) :
             /\ Barred(h, m, {b})
             /\ Barriered(h, {b}) \in Seq(Access)
             /\ Extended(m, Barriered(h, {b}), Transition, DirectlyBeforeTransition(h, b),
                         b.dstExec, b.dstAccess)
<1> DEFINE m == Later(h, {b})
           D == DirectlyBeforeTransition(h, b)
<1>1. m \in Seq(Access) /\ Barred(h, m, {b})
  BY LaterIs
<1>2. {c \in {b} : c.transition} = {b}
  OBVIOUS
<1>3. (CHOOSE c \in {b} : TRUE) = b
  OBVIOUS
<1>4. Barriered(h, {b}) = Extend(m, Transition, D, b.dstExec, b.dstAccess)
  <2> DEFINE trans == {c \in {b} : c.transition}
  <2>1. trans = {b} /\ trans # {}
    BY <1>2
  <2>2. (CHOOSE c \in trans : TRUE) = b
    BY <1>3, <2>1
  <2> QED BY <2>1, <2>2, Zenon DEF Barriered, Later, DirectlyBeforeTransition
<1>5. b.dstExec \in SUBSET Stages /\ b.dstAccess \in SUBSET Usages /\ Transition \in AnyUsage
  BY UsageFacts DEF Scope
<1> HIDE DEF m, D
<1>6. /\ Extend(m, Transition, D, b.dstExec, b.dstAccess) \in Seq(Access)
      /\ Extended(m, Extend(m, Transition, D, b.dstExec, b.dstAccess), Transition, D, b.dstExec, b.dstAccess)
  BY <1>1, <1>5, ExtendIs
<1> QED BY <1>1, <1>4, <1>6 DEF D

-----------------------------------------------------------------------------
(* What an access or a barrier does to a history *)

LEMMA HistoryFacts ==
    ASSUME NEW h, IsHistory(h)
    PROVE  /\ h \in Seq(Access) /\ DOMAIN h = 1 .. Len(h) /\ Len(h) \in Nat
           /\ \A i \in 1 .. Len(h) : h[i].usage \in AnyUsage /\ h[i].after \subseteq Stages
           /\ \A i \in 1 .. Len(h) : \A j \in h[i].before : j \in 1 .. Len(h) /\ i < j
           /\ \A i \in 1 .. Len(h) : \A j \in h[i].before : \A k \in h[j].before : k \in h[i].before
<1>1. h \in Seq(Access) /\ DOMAIN h = 1 .. Len(h) /\ Len(h) \in Nat
  BY DEF IsHistory
<1>2. \A i \in 1 .. Len(h) : h[i] \in Access
  BY <1>1
<1> QED BY <1>1, <1>2 DEF IsHistory, Access, AnyUsage

LEMMA ExtendedHistory ==
    ASSUME NEW h, NEW g \in Seq(Access), NEW u, NEW D, NEW after, NEW visible,
           IsHistory(h), Extended(h, g, u, D, after, visible)
    PROVE  IsHistory(g)
<1>1. DOMAIN g = 1 .. (Len(h) + 1) /\ Len(h) \in Nat /\ DOMAIN h = 1 .. Len(h)
  BY HistoryFacts DEF Extended
<1>2. ASSUME NEW i \in DOMAIN g, NEW j \in g[i].before
      PROVE  j \in DOMAIN g /\ i < j /\ \A k \in g[j].before : k \in g[i].before
  <2>1. i \in 1 .. Len(h)
    BY <1>1, <1>2 DEF Extended
  <2>2. CASE j \in h[i].before
    <3>1. j \in 1 .. Len(h) /\ i < j /\ \A k \in h[j].before : k \in h[i].before
      BY <2>1, <2>2, HistoryFacts
    <3>2. ASSUME NEW k \in g[j].before PROVE k \in g[i].before
      BY <2>1, <2>2, <3>1, <3>2 DEF Extended
    <3> QED BY <1>1, <3>1, <3>2
  <2>3. CASE j = Len(h) + 1
    <3>1. g[j].before = {}
      BY <2>3 DEF Extended
    <3> QED BY <1>1, <2>1, <2>3, <3>1
  <2> QED BY <2>1, <2>2, <2>3 DEF Extended
<1> QED BY <1>2 DEF IsHistory

LEMMA BarredHistory ==
    ASSUME NEW h, NEW g \in Seq(Access), NEW B, IsHistory(h), Barred(h, g, B)
    PROVE  IsHistory(g)
<1>1. DOMAIN g = 1 .. Len(h) /\ DOMAIN h = 1 .. Len(h) /\ \A i \in 1 .. Len(h) : g[i].before = h[i].before
  BY HistoryFacts DEF Barred
<1>2. \A i \in 1 .. Len(h) : \A j \in h[i].before : j \in 1 .. Len(h) /\ i < j /\ \A k \in h[j].before : k \in h[i].before
  BY HistoryFacts
<1> QED BY <1>1, <1>2 DEF IsHistory

\* A new access is clean if it is after everything it conflicts with.
LEMMA ExtendedClean ==
    ASSUME NEW h, NEW g \in Seq(Access), NEW u, NEW D, NEW after, NEW visible,
           IsHistory(h), Extended(h, g, u, D, after, visible), Clean(h),
           \A i \in 1 .. Len(h) : Conflict(h[i].usage, u) => i \in D \/ \E k \in h[i].before : k \in D
    PROVE  Clean(g)
<1>1. DOMAIN g = 1 .. (Len(h) + 1) /\ Len(h) \in Nat /\ DOMAIN h = 1 .. Len(h)
  BY HistoryFacts DEF Extended
<1>2. ASSUME NEW i \in DOMAIN g, NEW j \in DOMAIN g, i < j, Conflict(g[i].usage, g[j].usage) PROVE j \in g[i].before
  <2>1. i \in 1 .. Len(h) /\ (j \in 1 .. Len(h) \/ j = Len(h) + 1)
    BY <1>1, <1>2
  <2>2. g[i].usage = h[i].usage
    BY <2>1 DEF Extended
  <2>3. CASE j \in 1 .. Len(h)
    <3>1. g[j].usage = h[j].usage
      BY <2>3 DEF Extended
    <3>2. j \in h[i].before
      BY <1>1, <1>2, <2>1, <2>2, <2>3, <3>1 DEF Clean
    <3> QED BY <2>1, <3>2 DEF Extended
  <2>4. CASE j = Len(h) + 1
    <3>1. g[j].usage = u
      BY <2>4 DEF Extended
    <3> QED BY <1>2, <2>1, <2>2, <2>4, <3>1 DEF Extended
  <2> QED BY <2>1, <2>3, <2>4
<1> QED BY <1>2 DEF Clean

\* And unclean if there is one that it is not after.
LEMMA ExtendedUnclean ==
    ASSUME NEW h, NEW g \in Seq(Access), NEW u, NEW D, NEW after, NEW visible,
           IsHistory(h), Extended(h, g, u, D, after, visible),
           NEW i \in 1 .. Len(h), Conflict(h[i].usage, u), i \notin D, \A k \in h[i].before : k \notin D
    PROVE  ~Clean(g)
<1>1. DOMAIN g = 1 .. (Len(h) + 1) /\ Len(h) \in Nat
  BY HistoryFacts DEF Extended
<1>2. i \in DOMAIN g /\ Len(h) + 1 \in DOMAIN g /\ i < Len(h) + 1
  BY <1>1
<1>3. g[i].usage = h[i].usage /\ g[Len(h) + 1].usage = u
  BY DEF Extended
<1>4. Len(h) + 1 \notin h[i].before
  BY <1>1, HistoryFacts
<1>5. Len(h) + 1 \notin g[i].before
  BY <1>4 DEF Extended
<1> QED BY <1>2, <1>3, <1>5 DEF Clean

LEMMA BarredClean ==
    ASSUME NEW h, NEW g \in Seq(Access), NEW B, IsHistory(h), Barred(h, g, B), Clean(h)
    PROVE  Clean(g)
<1>1. DOMAIN g = 1 .. Len(h) /\ DOMAIN h = 1 .. Len(h)
  BY HistoryFacts DEF Barred
<1> QED BY <1>1 DEF Clean, Barred

-----------------------------------------------------------------------------
(* The operators of ResourceAccess, field by field *)

First == [tag : Nat, usage : AnyUsage]

LEMMA StateFacts ==
    ASSUME NEW A \in State
    PROVE  /\ A.last_write \in AnyUsage \cup {NoUsage} /\ A.write_tag \in Nat
           /\ A.write_barriers \in SUBSET Usages /\ A.write_chain \in SUBSET Stages
           /\ DOMAIN A.reads \in SUBSET Stages
           /\ \A s \in DOMAIN A.reads : /\ A.reads[s] \in ReadState
                                        /\ A.reads[s].barriers \in SUBSET Stages
                                        /\ A.reads[s].sync_stages \in SUBSET Stages
                                        /\ A.reads[s].tag \in Nat
           /\ A.reads = [s \in DOMAIN A.reads |-> A.reads[s]]
           /\ A.read_exec \in SUBSET Stages
           /\ A.firsts \in Seq(First) /\ A.first_reads \in SUBSET Stages
           /\ A.first_transition \in OrderingBarrier
<1>1. /\ A.last_write \in AnyUsage \cup {NoUsage} /\ A.write_tag \in Nat
      /\ A.write_barriers \in SUBSET Usages /\ A.write_chain \in SUBSET Stages
      /\ A.reads \in UNION {[S -> ReadState] : S \in SUBSET Stages}
      /\ A.read_exec \in SUBSET Stages
      /\ A.firsts \in Seq(First) /\ A.first_reads \in SUBSET Stages
      /\ A.first_transition \in OrderingBarrier
  BY DEF State, AnyUsage, First
<1>2. PICK S \in SUBSET Stages : A.reads \in [S -> ReadState]
  BY <1>1
<1>3. DOMAIN A.reads = S /\ \A s \in S : A.reads[s] \in ReadState
  BY <1>2
<1>4. \A r \in ReadState : r.barriers \in SUBSET Stages /\ r.sync_stages \in SUBSET Stages /\ r.tag \in Nat
  BY DEF ReadState
<1>5. A.reads = [s \in DOMAIN A.reads |-> A.reads[s]]
  BY <1>2
<1> QED BY <1>1, <1>3, <1>4, <1>5

\* What two states agree on when they differ in their first accesses only.
SameRecent(A, R) ==
    /\ R.last_write = A.last_write /\ R.write_tag = A.write_tag /\ R.write_barriers = A.write_barriers
    /\ R.write_chain = A.write_chain /\ R.reads = A.reads /\ R.read_exec = A.read_exec

LEMMA StateReads ==
    ASSUME NEW S \in SUBSET Stages, NEW f \in [S -> ReadState]
    PROVE  f \in UNION {[T -> ReadState] : T \in SUBSET Stages}
OBVIOUS

LEMMA StateIs ==
    ASSUME NEW A, A.last_write \in AnyUsage \cup {NoUsage}, A.write_tag \in Nat,
           A.write_barriers \in SUBSET Usages, A.write_chain \in SUBSET Stages,
           NEW S \in SUBSET Stages, A.reads \in [S -> ReadState], A.read_exec \in SUBSET Stages,
           A.firsts \in Seq(First), A.first_reads \in SUBSET Stages, A.first_transition \in OrderingBarrier
    PROVE  IsResourceAccessState(A)
BY DEF IsResourceAccessState, AnyUsage, First

LEMMA UpdateFirstIs ==
    ASSUME NEW A \in State, NEW tag \in Nat, NEW u \in AnyUsage
    PROVE  /\ UpdateFirst(A, tag, u) \in State /\ SameRecent(A, UpdateFirst(A, tag, u))
           /\ UpdateFirst(A, tag, u).first_transition = A.first_transition
           /\ \/ UpdateFirst(A, tag, u) = A /\ A.firsts # << >>
              \/ IsRead(u) /\ UpdateFirst(A, tag, u) = A
              \/ /\ A.firsts = << >> \/ IsRead(Last(A.firsts).usage)
                 /\ IsRead(u) => u.stage \notin A.first_reads /\ UpdateFirst(A, tag, u).first_reads = A.first_reads \cup {u.stage}
                 /\ ~IsRead(u) => UpdateFirst(A, tag, u).first_reads = A.first_reads
                 /\ \/ UpdateFirst(A, tag, u).firsts = Append(A.firsts, [tag |-> tag, usage |-> u])
                    \/ IsRead(u) /\ UpdateFirst(A, tag, u).firsts = A.firsts
<1> DEFINE stage == IF IsRead(u) THEN {u.stage} ELSE {}
           Off == (A.firsts # << >> /\ ~IsRead(Last(A.firsts).usage)) \/ stage \cap A.first_reads # {}
           F == IF stage \cap A.read_exec = {} THEN Append(A.firsts, [tag |-> tag, usage |-> u]) ELSE A.firsts
           R == [A EXCEPT !.first_reads = A.first_reads \cup stage, !.firsts = F]
<1>1. UpdateFirst(A, tag, u) = IF Off THEN A ELSE R
  BY StateFacts DEF UpdateFirst
<1>2. stage \in SUBSET Stages
  BY UsageFacts
<1>3. F \in Seq(First)
  <2>1. [tag |-> tag, usage |-> u] \in First
    BY DEF First
  <2>2. A.firsts \in Seq(First)
    BY StateFacts
  <2>3. Append(A.firsts, [tag |-> tag, usage |-> u]) \in Seq(First)
    BY <2>1, <2>2, AppendProperties
  <2> QED BY <2>2, <2>3
<1>4. F = Append(A.firsts, [tag |-> tag, usage |-> u]) \/ (IsRead(u) /\ F = A.firsts)
  OBVIOUS
<1> HIDE DEF F
<1>5. /\ R.first_reads = A.first_reads \cup stage /\ R.firsts = F
      /\ SameRecent(A, R) /\ R.first_transition = A.first_transition
  BY DEF State, SameRecent
<1>6. R \in State
  BY <1>2, <1>3 DEF State, First, AnyUsage
<1> HIDE DEF R
<1>7. CASE Off
  BY <1>1, <1>7 DEF SameRecent
<1>8. CASE ~Off
  <2>1. UpdateFirst(A, tag, u) = R
    BY <1>1, <1>8
  <2> QED BY <1>4, <1>5, <1>6, <1>8, <2>1
<1> QED BY <1>7, <1>8

\* R is A with a new read of a stage.
ReadSet(A, R, stage, tag) ==
    /\ R.last_write = A.last_write /\ R.write_tag = A.write_tag /\ R.write_barriers = A.write_barriers
    /\ R.write_chain = A.write_chain /\ R.read_exec = A.read_exec
    /\ R.firsts = A.firsts /\ R.first_reads = A.first_reads
    /\ DOMAIN R.reads = DOMAIN A.reads \cup {stage}
    /\ R.reads[stage] = [barriers |-> {}, sync_stages |-> {}, tag |-> tag]
    /\ \A s \in DOMAIN A.reads : s # stage =>
          /\ R.reads[s].barriers = A.reads[s].barriers /\ R.reads[s].tag = A.reads[s].tag
          /\ \A t \in R.reads[s].sync_stages :
                t \in A.reads[s].sync_stages \/ (t = stage /\ stage \in A.reads[s].barriers)
          /\ \A t \in A.reads[s].sync_stages : t # stage => t \in R.reads[s].sync_stages
          /\ stage \in A.reads[s].barriers => stage \in R.reads[s].sync_stages

LEMMA SetReadIs ==
    ASSUME NEW A \in State, NEW stage \in Stages, NEW tag \in Nat
    PROVE  SetRead(A, stage, tag) \in State /\ ReadSet(A, SetRead(A, stage, tag), stage, tag)
<1> DEFINE known == stage \in DOMAIN A.reads
           Settled(r) == CASE stage \in r.barriers -> [r EXCEPT !.sync_stages = @ \cup {stage}]
                           [] known /\ stage \notin r.barriers -> [r EXCEPT !.sync_stages = @ \ {stage}]
                           [] OTHER -> r
           new == [barriers |-> {}, sync_stages |-> {}, tag |-> tag]
           f == [s \in DOMAIN A.reads \cup {stage} |-> IF s = stage THEN new ELSE Settled(A.reads[s])]
           R == SetRead(A, stage, tag)
<1>1. R = [A EXCEPT !.reads = f]
  BY DEF SetRead
<1>2. new \in ReadState
  BY DEF ReadState
<1>3. ASSUME NEW r \in ReadState
      PROVE  /\ Settled(r) \in ReadState /\ Settled(r).barriers = r.barriers /\ Settled(r).tag = r.tag
             /\ \A t \in Settled(r).sync_stages : t \in r.sync_stages \/ (t = stage /\ stage \in r.barriers)
             /\ \A t \in r.sync_stages : t # stage => t \in Settled(r).sync_stages
             /\ stage \in r.barriers => stage \in Settled(r).sync_stages
  <2>1. CASE stage \in r.barriers
    <3>1. Settled(r) = [r EXCEPT !.sync_stages = @ \cup {stage}]
      BY <2>1
    <3> QED BY <2>1, <3>1 DEF ReadState
  <2>2. CASE stage \notin r.barriers /\ known
    <3>1. Settled(r) = [r EXCEPT !.sync_stages = @ \ {stage}]
      BY <2>2
    <3> QED BY <2>2, <3>1 DEF ReadState
  <2>3. CASE stage \notin r.barriers /\ ~known
    <3>1. Settled(r) = r
      BY <2>3
    <3> QED BY <2>3, <3>1
  <2> QED BY <2>1, <2>2, <2>3
<1> HIDE DEF Settled, new, R
<1>4. \A s \in DOMAIN A.reads : s # stage => f[s] = Settled(A.reads[s]) /\ A.reads[s] \in ReadState
  BY StateFacts
<1>5. DOMAIN f = DOMAIN A.reads \cup {stage} /\ f[stage] = new
  OBVIOUS
<1>6. f \in [DOMAIN A.reads \cup {stage} -> ReadState]
  <2>1. \A s \in DOMAIN A.reads \cup {stage} : f[s] \in ReadState
    BY <1>2, <1>3, <1>4, <1>5
  <2> QED BY <2>1
<1>7. f \in UNION {[S -> ReadState] : S \in SUBSET Stages}
  <2> HIDE DEF f
  <2>1. DOMAIN A.reads \cup {stage} \in SUBSET Stages
    BY StateFacts
  <2> QED BY <1>6, <2>1, StateReads
<1> HIDE DEF f
<1>8. R \in State /\ R.reads = f
  BY <1>1, <1>7 DEF State
<1>9. /\ R.last_write = A.last_write /\ R.write_tag = A.write_tag /\ R.write_barriers = A.write_barriers
      /\ R.write_chain = A.write_chain /\ R.read_exec = A.read_exec
      /\ R.firsts = A.firsts /\ R.first_reads = A.first_reads
  BY <1>1 DEF State
<1>10. \A s \in DOMAIN A.reads : s # stage =>
                 /\ f[s].barriers = A.reads[s].barriers /\ f[s].tag = A.reads[s].tag
                 /\ \A t \in f[s].sync_stages :
                       t \in A.reads[s].sync_stages \/ (t = stage /\ stage \in A.reads[s].barriers)
                 /\ \A t \in A.reads[s].sync_stages : t # stage => t \in f[s].sync_stages
                 /\ stage \in A.reads[s].barriers => stage \in f[s].sync_stages
  BY <1>3, <1>4
<1> QED BY <1>5, <1>8, <1>9, <1>10 DEF R, new, ReadSet

LEMMA SetWriteIs ==
    ASSUME NEW A \in State, NEW u \in AnyUsage, NEW tag \in Nat
    PROVE  LET R == SetWrite(A, u, tag) IN
           /\ R \in State
           /\ R.last_write = u /\ R.write_tag = tag /\ R.write_barriers = {} /\ R.write_chain = {}
           /\ DOMAIN R.reads = {} /\ R.read_exec = {}
           /\ R.firsts = A.firsts /\ R.first_reads = A.first_reads
<1> DEFINE R == SetWrite(A, u, tag)
<1>1. DOMAIN NoReads = {} /\ NoReads \in UNION {[S -> ReadState] : S \in SUBSET Stages}
  <2>1. NoReads \in [{} -> ReadState]
    BY DEF NoReads
  <2> QED BY <2>1, StateReads
<1>2. /\ R \in State
      /\ R.last_write = u /\ R.write_tag = tag /\ R.write_barriers = {} /\ R.write_chain = {}
      /\ R.reads = NoReads /\ R.read_exec = {}
      /\ R.firsts = A.firsts /\ R.first_reads = A.first_reads
  BY <1>1 DEF State, SetWrite, AnyUsage
<1> QED BY <1>1, <1>2

\* A barrier command without a transition.
LEMMA ApplyPlainIs ==
    ASSUME NEW A \in State, NEW B \in SUBSET Scope, NEW tag \in Nat, \A b \in B : ~b.transition
    PROVE  LET R == ApplyBarriers(A, B, tag) IN
           /\ R \in State
           /\ R.last_write = A.last_write /\ R.write_tag = A.write_tag
           /\ R.firsts = A.firsts /\ R.first_reads = A.first_reads
           /\ \A x : x \in R.write_chain <=> x \in A.write_chain \/ \E b \in B : WriteInSourceScopeOrChain(A, b) /\ x \in b.dstExec
           /\ \A x : x \in R.write_barriers <=> x \in A.write_barriers \/ \E b \in B : WriteInSourceScopeOrChain(A, b) /\ x \in b.dstAccess
           /\ DOMAIN R.reads = DOMAIN A.reads
           /\ \A s \in DOMAIN A.reads :
                 /\ R.reads[s].tag = A.reads[s].tag /\ R.reads[s].sync_stages = A.reads[s].sync_stages
                 /\ \A x : x \in R.reads[s].barriers <=>
                       \/ x \in A.reads[s].barriers
                       \/ \E b \in B : \E t \in DOMAIN A.reads :
                             /\ t = s \/ t \in A.reads[s].sync_stages
                             /\ ReadInScopeOrChain(A, t, b.srcExec)
                             /\ x \in b.dstExec
           /\ \A x : x \in R.read_exec <=> x \in A.read_exec \/ \E s \in DOMAIN A.reads : x \in R.reads[s].barriers
<1> DEFINE pending == PendingWrite(A, B)
           reads == BarrierReads(A, B)
           More(s) == UNION {b.dstExec : b \in PendingRead(A, B, s)}
           exec == UNION {reads[s].barriers : s \in DOMAIN reads}
           A1 == [A EXCEPT !.reads = reads, !.read_exec = @ \cup exec]
           chain == UNION {b.dstExec : b \in pending}
           barriers == UNION {b.dstAccess : b \in pending}
           R == ApplyBarriers(A, B, tag)
<1>1. R = [A1 EXCEPT !.write_chain = @ \cup chain, !.write_barriers = @ \cup barriers]
  BY DEF ApplyBarriers
<1>2. pending \subseteq B /\ \A b \in B : b \in pending <=> WriteInSourceScopeOrChain(A, b)
  BY DEF PendingWrite
<1>3. chain \in SUBSET Stages /\ barriers \in SUBSET Usages
  BY <1>2 DEF Scope
<1>4. /\ \A x : x \in chain <=> \E b \in B : WriteInSourceScopeOrChain(A, b) /\ x \in b.dstExec
      /\ \A x : x \in barriers <=> \E b \in B : WriteInSourceScopeOrChain(A, b) /\ x \in b.dstAccess
  BY <1>2
<1>5. \A s \in DOMAIN A.reads : More(s) \in SUBSET Stages
  BY DEF PendingRead, Scope
<1>6. \A s \in DOMAIN A.reads : \A x : x \in More(s) <=>
         \E b \in B : \E t \in DOMAIN A.reads :
            (t = s \/ t \in A.reads[s].sync_stages) /\ ReadInScopeOrChain(A, t, b.srcExec) /\ x \in b.dstExec
  BY DEF PendingRead
<1> HIDE DEF More, pending, chain, barriers
<1>7. DOMAIN reads = DOMAIN A.reads /\ \A s \in DOMAIN A.reads : reads[s] = [A.reads[s] EXCEPT !.barriers = @ \cup More(s)]
  BY DEF BarrierReads, More
<1>8. ASSUME NEW s \in DOMAIN A.reads
      PROVE  /\ reads[s] \in ReadState /\ reads[s].tag = A.reads[s].tag /\ reads[s].sync_stages = A.reads[s].sync_stages
             /\ reads[s].barriers = A.reads[s].barriers \cup More(s)
  <2>1. PICK r \in ReadState : r = A.reads[s]
    BY StateFacts
  <2>2. reads[s] = [r EXCEPT !.barriers = @ \cup More(s)]
    BY <1>7, <2>1
  <2> HIDE DEF reads
  <2> QED BY <1>5, <2>1, <2>2 DEF ReadState
<1>9. reads \in UNION {[S -> ReadState] : S \in SUBSET Stages}
  <2>1. reads = [s \in DOMAIN A.reads |-> reads[s]]
    BY DEF BarrierReads
  <2> HIDE DEF reads
  <2>2. reads \in [DOMAIN A.reads -> ReadState]
    BY <1>8, <2>1
  <2>3. DOMAIN A.reads \in SUBSET Stages
    BY StateFacts
  <2> QED BY <2>2, <2>3, StateReads
<1>10. \A x : x \in exec <=> \E s \in DOMAIN A.reads : x \in reads[s].barriers
  BY <1>7
<1>11. exec \in SUBSET Stages
  <2>1. \A s \in DOMAIN A.reads : reads[s].barriers \in SUBSET Stages
    BY <1>8 DEF ReadState
  <2> QED BY <1>10, <2>1
<1> HIDE DEF reads, exec, R
<1>12. /\ A1 \in State /\ A1.reads = reads /\ A1.read_exec = A.read_exec \cup exec
       /\ A1.last_write = A.last_write /\ A1.write_tag = A.write_tag /\ A1.write_chain = A.write_chain
       /\ A1.write_barriers = A.write_barriers /\ A1.firsts = A.firsts /\ A1.first_reads = A.first_reads
  BY <1>9, <1>11 DEF State
<1> HIDE DEF A1
<1>13. /\ R \in State /\ R.reads = reads /\ R.read_exec = A.read_exec \cup exec
       /\ R.last_write = A.last_write /\ R.write_tag = A.write_tag /\ R.write_chain = A.write_chain \cup chain
       /\ R.write_barriers = A.write_barriers \cup barriers /\ R.firsts = A.firsts /\ R.first_reads = A.first_reads
  BY <1>1, <1>3, <1>12 DEF State
<1>14. /\ \A x : x \in R.write_chain <=> x \in A.write_chain \/ \E b \in B : WriteInSourceScopeOrChain(A, b) /\ x \in b.dstExec
       /\ \A x : x \in R.write_barriers <=> x \in A.write_barriers \/ \E b \in B : WriteInSourceScopeOrChain(A, b) /\ x \in b.dstAccess
  BY <1>4, <1>13
<1>15. \A x : x \in R.read_exec <=> x \in A.read_exec \/ \E s \in DOMAIN A.reads : x \in R.reads[s].barriers
  BY <1>10, <1>13
<1>16. ASSUME NEW s \in DOMAIN A.reads
       PROVE  /\ R.reads[s].tag = A.reads[s].tag /\ R.reads[s].sync_stages = A.reads[s].sync_stages
              /\ \A x : x \in R.reads[s].barriers <=>
                       \/ x \in A.reads[s].barriers
                       \/ \E b \in B : \E t \in DOMAIN A.reads :
                             /\ t = s \/ t \in A.reads[s].sync_stages
                             /\ ReadInScopeOrChain(A, t, b.srcExec)
                             /\ x \in b.dstExec
  <2>1. R.reads[s].barriers = A.reads[s].barriers \cup More(s)
    BY <1>8, <1>13
  <2>2. \A x : x \in R.reads[s].barriers <=> x \in A.reads[s].barriers \/ x \in More(s)
    BY <2>1
  <2> QED BY <1>6, <1>8, <1>13, <2>2
<1>17. DOMAIN R.reads = DOMAIN A.reads
  BY <1>7, <1>13
<1> QED BY <1>13, <1>14, <1>15, <1>16, <1>17 DEF R

\* A barrier command with a layout transition.
LEMMA ApplyTransitionIs ==
    ASSUME NEW A \in State, NEW B \in SUBSET Scope, NEW tag \in Nat, \E b \in B : b.transition
    PROVE  LET R == ApplyBarriers(A, B, tag)
               F == UpdateFirst(SetWrite(A, Transition, tag), tag, Transition)
           IN  /\ R \in State
               /\ R.last_write = Transition /\ R.write_tag = tag
               /\ R.write_barriers = UNION {b.dstAccess : b \in PendingWrite(A, B)}
               /\ R.write_chain = UNION {b.dstExec : b \in PendingWrite(A, B)}
               /\ DOMAIN R.reads = {} /\ R.read_exec = {}
               /\ R.firsts = F.firsts /\ R.first_reads = F.first_reads
<1> DEFINE W == SetWrite(A, Transition, tag)
           F == UpdateFirst(W, tag, Transition)
           T == BarrierTransition(A, B, tag)
           R == ApplyBarriers(A, B, tag)
           order == [exec |-> UNION {c.srcExec : c \in {d \in B : d.transition}},
                     access |-> UNION {c.srcAccess : c \in {d \in B : d.transition}}]
           chain == UNION {b.dstExec : b \in PendingWrite(A, B)}
           barriers == UNION {b.dstAccess : b \in PendingWrite(A, B)}
<1>1. Transition \in AnyUsage
  BY UsageFacts
<1>2. /\ W \in State /\ W.last_write = Transition /\ W.write_tag = tag /\ W.write_barriers = {} /\ W.write_chain = {}
      /\ DOMAIN W.reads = {} /\ W.read_exec = {}
  BY <1>1, SetWriteIs
<1> HIDE DEF W
<1>3. F \in State /\ SameRecent(W, F)
  BY <1>1, <1>2, UpdateFirstIs
<1>4. order \in OrderingBarrier
  BY DEF OrderingBarrier, Scope
<1> HIDE DEF F, order
<1>5. T = IF Last(F.firsts).tag = tag THEN [F EXCEPT !.first_transition = order] ELSE F
  BY DEF T, F, W, order, BarrierTransition
<1> HIDE DEF T
<1>6. T \in State /\ SameRecent(W, T) /\ T.firsts = F.firsts /\ T.first_reads = F.first_reads
  <2>1. CASE T = F
    BY <1>3, <2>1
  <2>2. CASE T = [F EXCEPT !.first_transition = order]
    <3>1. T \in State /\ T.firsts = F.firsts /\ T.first_reads = F.first_reads
      BY <1>3, <1>4, <2>2 DEF State
    <3>2. SameRecent(F, T)
      BY <1>3, <2>2 DEF State, SameRecent
    <3> QED BY <1>3, <3>1, <3>2 DEF SameRecent
  <2> QED BY <1>5, <2>1, <2>2
<1>7. chain \in SUBSET Stages /\ barriers \in SUBSET Usages
  BY DEF PendingWrite, Scope
<1>8. R = [T EXCEPT !.write_chain = @ \cup chain, !.write_barriers = @ \cup barriers]
  BY Zenon DEF R, T, ApplyBarriers
<1> HIDE DEF R, chain, barriers
<1>9. T.write_chain = {} /\ T.write_barriers = {}
  BY <1>2, <1>6 DEF SameRecent
<1>10. /\ R \in State /\ R.write_chain = chain /\ R.write_barriers = barriers
       /\ R.last_write = T.last_write /\ R.write_tag = T.write_tag /\ R.reads = T.reads /\ R.read_exec = T.read_exec
       /\ R.firsts = T.firsts /\ R.first_reads = T.first_reads
  BY <1>6, <1>7, <1>8, <1>9 DEF State
<1> QED BY <1>2, <1>6, <1>10 DEF SameRecent, R, F, W, chain, barriers

-----------------------------------------------------------------------------
(* Recent accesses *)

LEMMA RecentFacts ==
    ASSUME NEW h, IsHistory(h)
    PROVE  /\ \A i \in Recent(h) : i \in 1 .. Len(h)
           /\ \A i \in Recent(h) : \A k \in h[i].before : k \in Recent(h) /\ IsRead(h[k].usage)
           /\ \A i \in Recent(h) : \A k \in h[i].before : k \in RecentReads(h, h[k].usage.stage) /\ h[k].usage.stage \in Stages
           /\ \A i \in Recent(h) : IsRead(h[i].usage) => h[i].usage.stage \in Stages /\ i \in RecentReads(h, h[i].usage.stage)
           /\ \A s, i : i \in RecentReads(h, s) => i \in Recent(h) /\ IsRead(h[i].usage) /\ h[i].usage.stage = s
           /\ \A i : i \in RecentWrites(h) => i \in Recent(h) /\ ~IsRead(h[i].usage)
<1>1. DOMAIN h = 1 .. Len(h)
  BY HistoryFacts
<1>2. \A i \in Recent(h) : i \in 1 .. Len(h)
  BY <1>1 DEF Recent
<1>3. ASSUME NEW i \in Recent(h), NEW k \in h[i].before PROVE k \in Recent(h) /\ IsRead(h[k].usage) /\ k \in 1 .. Len(h)
  <2>1. k \in 1 .. Len(h) /\ i < k /\ i \in 1 .. Len(h) /\ Len(h) \in Nat
    BY <1>2, HistoryFacts
  <2>2. IsRead(h[k].usage)
    BY <1>1, <2>1 DEF Recent
  <2>3. \A j \in DOMAIN h : k < j => i < j
    BY <1>1, <2>1
  <2> QED BY <1>1, <2>1, <2>2, <2>3 DEF Recent
<1>4. \A i \in 1 .. Len(h) : IsRead(h[i].usage) => h[i].usage.stage \in Stages
  BY HistoryFacts, UsageFacts
<1> QED BY <1>2, <1>3, <1>4 DEF RecentReads, RecentWrites

LEMMA ReadRecent ==
    ASSUME NEW h, NEW g \in Seq(Access), NEW u, NEW D, NEW after, NEW visible,
           IsHistory(h), Extended(h, g, u, D, after, visible), IsRead(u)
    PROVE  /\ \A i : i \in Recent(g) <=> i \in Recent(h) \/ i = Len(h) + 1
           /\ \A i : i \in RecentWrites(g) <=> i \in RecentWrites(h)
           /\ \A s, i : i \in RecentReads(g, s) <=> i \in RecentReads(h, s) \/ (i = Len(h) + 1 /\ s = u.stage)
<1>1. DOMAIN h = 1 .. Len(h) /\ Len(h) \in Nat /\ DOMAIN g = 1 .. (Len(h) + 1)
  BY HistoryFacts DEF Extended
<1>2. \A i \in 1 .. Len(h) : g[i].usage = h[i].usage
  BY DEF Extended
<1>3. g[Len(h) + 1].usage = u
  BY DEF Extended
<1>4. ASSUME NEW i PROVE i \in Recent(g) <=> i \in Recent(h) \/ i = Len(h) + 1
  <2>1. CASE i \in 1 .. Len(h)
    <3>1. (\A k \in DOMAIN g : i < k => IsRead(g[k].usage)) <=> (\A k \in DOMAIN h : i < k => IsRead(h[k].usage))
      <4>1. DOMAIN g = DOMAIN h \cup {Len(h) + 1}
        BY <1>1
      <4>2. IsRead(g[Len(h) + 1].usage)
        BY <1>3
      <4>3. \A k \in DOMAIN h : g[k].usage = h[k].usage
        BY <1>1, <1>2
      <4> QED BY <4>1, <4>2, <4>3
    <3> QED BY <1>1, <2>1, <3>1 DEF Recent
  <2>2. CASE i = Len(h) + 1
    BY <1>1, <2>2 DEF Recent
  <2>3. CASE i \notin 1 .. (Len(h) + 1)
    BY <1>1, <2>3 DEF Recent
  <2> QED BY <1>1, <2>1, <2>2, <2>3
<1>5. Len(h) + 1 \notin Recent(h) /\ \A i \in Recent(h) : i \in 1 .. Len(h)
  BY <1>1 DEF Recent
<1>6. \A i : i \in RecentWrites(g) <=> i \in RecentWrites(h)
  BY <1>2, <1>3, <1>4, <1>5 DEF RecentWrites
<1>7. \A s, i : i \in RecentReads(g, s) <=> i \in RecentReads(h, s) \/ (i = Len(h) + 1 /\ s = u.stage)
  BY <1>2, <1>3, <1>4, <1>5 DEF RecentReads
<1> QED BY <1>4, <1>6, <1>7

LEMMA WriteRecent ==
    ASSUME NEW h, NEW g \in Seq(Access), NEW u, NEW D, NEW after, NEW visible,
           Len(h) \in Nat, Extended(h, g, u, D, after, visible), ~IsRead(u)
    PROVE  /\ Recent(g) = {Len(h) + 1} /\ RecentWrites(g) = {Len(h) + 1}
           /\ \A s : RecentReads(g, s) = {}
<1>1. DOMAIN g = 1 .. (Len(h) + 1) /\ g[Len(h) + 1].usage = u
  BY DEF Extended
<1>2. ASSUME NEW i PROVE i \in Recent(g) <=> i = Len(h) + 1
  <2>1. CASE i \in 1 .. Len(h)
    <3>1. Len(h) + 1 \in DOMAIN g /\ i < Len(h) + 1
      BY <1>1, <2>1
    <3> QED BY <1>1, <2>1, <3>1 DEF Recent
  <2>2. CASE i = Len(h) + 1
    BY <1>1, <2>2 DEF Recent
  <2>3. CASE i \notin 1 .. (Len(h) + 1)
    BY <1>1, <2>3 DEF Recent
  <2> QED BY <1>1, <2>1, <2>2, <2>3
<1>3. Recent(g) = {Len(h) + 1}
  BY <1>2
<1> QED BY <1>1, <1>3 DEF RecentReads, RecentWrites

LEMMA BarredRecent ==
    ASSUME NEW h, NEW g \in Seq(Access), NEW B, IsHistory(h), Barred(h, g, B)
    PROVE  Recent(g) = Recent(h) /\ RecentWrites(g) = RecentWrites(h) /\ \A s : RecentReads(g, s) = RecentReads(h, s)
<1>1. DOMAIN h = 1 .. Len(h) /\ DOMAIN g = 1 .. Len(h) /\ \A i \in 1 .. Len(h) : g[i].usage = h[i].usage
  BY HistoryFacts DEF Barred
<1>2. Recent(g) = Recent(h)
  BY <1>1 DEF Recent
<1>3. \A i \in Recent(h) : g[i].usage = h[i].usage
  BY <1>1 DEF Recent
<1> QED BY <1>2, <1>3 DEF RecentReads, RecentWrites

\* Whatever is after one of the recent accesses is after the last write and all before it.
LEMMA AfterRecent ==
    ASSUME NEW h, IsHistory(h), Clean(h), NEW D, NEW d \in Recent(h), d \in D,
           NEW w \in RecentWrites(h), NEW i \in 1 .. Len(h), i \in Recent(h) => ~IsRead(h[i].usage)
    PROVE  i \in D \/ \E k \in h[i].before : k \in D
<1>1. DOMAIN h = 1 .. Len(h) /\ Len(h) \in Nat /\ w \in Recent(h) /\ ~IsRead(h[w].usage) /\ w \in 1 .. Len(h) /\ d \in 1 .. Len(h)
  BY HistoryFacts, RecentFacts
<1>2. \A r \in Recent(h) : w <= r
  <2>1. ASSUME NEW r \in Recent(h), r < w PROVE FALSE
    BY <1>1, <2>1 DEF Recent
  <2> QED BY <1>1, <2>1, RecentFacts
<1>3. d = w \/ d \in h[w].before
  <2>1. CASE d # w
    BY <1>1, <1>2, <2>1 DEF Clean, Conflict
  <2> QED BY <2>1
<1>4. CASE i = w
  BY <1>3, <1>4
<1>5. CASE i # w
  <2>1. i \notin Recent(h)
    <3>1. CASE i \in Recent(h)
      <4>1. w < i
        BY <1>1, <1>2, <1>5, <3>1
      <4> QED BY <1>1, <3>1, <4>1 DEF Recent
    <3> QED BY <3>1
  <2>2. i < w
    <3>1. ASSUME w < i PROVE i \in Recent(h)
      BY <1>1, <3>1 DEF Recent
    <3> QED BY <1>1, <1>5, <2>1, <3>1
  <2>3. w \in h[i].before
    BY <1>1, <2>2 DEF Clean, Conflict
  <2> QED BY <1>3, <2>3, HistoryFacts
<1> QED BY <1>4, <1>5

-----------------------------------------------------------------------------
(* Nothing is missed: what a check lets pass is after all it conflicts with *)

OrderedAfter(h, i, D) == i \in D \/ \E k \in h[i].before : k \in D

LEMMA AllOrdered ==
    ASSUME NEW A \in State, NEW h, IsHistory(h), WriteStands(A, h), Clean(h), NEW D,
           \A i \in Recent(h) : IsRead(h[i].usage) => OrderedAfter(h, i, D),
           HasWrite(A) => \E d \in Recent(h) : d \in D
    PROVE  \A i \in 1 .. Len(h) : OrderedAfter(h, i, D)
<1> SUFFICES ASSUME NEW i \in 1 .. Len(h) PROVE OrderedAfter(h, i, D)
  OBVIOUS
<1>1. CASE i \in Recent(h) /\ IsRead(h[i].usage)
  BY <1>1
<1>2. CASE ~(i \in Recent(h) /\ IsRead(h[i].usage))
  <2>1. HasWrite(A)
    <3>1. ASSUME ~HasWrite(A) PROVE FALSE
      <4>1. \A j \in DOMAIN h : IsRead(h[j].usage)
        BY <3>1 DEF WriteStands
      <4> QED BY <1>2, <4>1, HistoryFacts DEF Recent
    <3> QED BY <3>1
  <2>2. PICK w : w \in RecentWrites(h)
    BY <2>1 DEF WriteStands
  <2>3. PICK d \in Recent(h) : d \in D
    BY <2>1
  <2> QED BY <1>2, <2>2, <2>3, AfterRecent DEF OrderedAfter
<1> QED BY <1>1, <1>2

LEMMA ReadPasses ==
    ASSUME NEW A \in State, NEW h, StandsFor(A, h), Clean(h), NEW u \in Usages, IsRead(u), ~IsRAWHazard(A, u)
    PROVE  \A i \in 1 .. Len(h) : Conflict(h[i].usage, u) => OrderedAfter(h, i, DirectlyBefore(h, u))
<1> SUFFICES ASSUME NEW i \in 1 .. Len(h), ~IsRead(h[i].usage) PROVE OrderedAfter(h, i, DirectlyBefore(h, u))
  BY DEF Conflict
<1>1. HasWrite(A)
  BY HistoryFacts DEF StandsFor, WriteStands
<1>2. PICK w : w \in RecentWrites(h)
  BY <1>1 DEF StandsFor, WriteStands
<1>3. \E d \in Recent(h) : d \in DirectlyBefore(h, u)
  <2>1. CASE u.stage \in A.read_exec
    <3>1. PICK d \in Recent(h) : IsRead(h[d].usage) /\ u.stage \in h[d].after
      BY <2>1 DEF StandsFor, ReadsStand
    <3> QED BY <3>1 DEF DirectlyBefore, Recent
  <2>2. CASE u \in A.write_barriers
    <3>1. u \in h[w].visible /\ w \in Recent(h) /\ ~IsRead(h[w].usage)
      BY <1>2, <2>2 DEF StandsFor, WriteStands, RecentWrites
    <3> QED BY <3>1 DEF DirectlyBefore, Recent
  <2> QED BY <1>1, <2>1, <2>2 DEF IsRAWHazard
<1> QED BY <1>2, <1>3, AfterRecent DEF StandsFor, OrderedAfter

\* A read that the layer knows to be followed by stage x is followed by it.
LEMMA KnownLeads ==
    ASSUME NEW A \in State, NEW h, StandsFor(A, h), NEW i \in Recent(h), IsRead(h[i].usage)
    PROVE  /\ h[i].usage.stage \in DOMAIN A.reads
           /\ \A x \in A.reads[h[i].usage.stage].barriers : Leads(h, i, x)
<1>1. PICK s \in Stages : s = h[i].usage.stage /\ i \in RecentReads(h, s)
  BY RecentFacts DEF StandsFor
<1>2. s \in DOMAIN A.reads
  BY <1>1 DEF StandsFor, ReadsStand
<1> QED BY <1>1, <1>2 DEF StandsFor, ReadsStand

LEMMA WritePasses ==
    ASSUME NEW A \in State, NEW h, StandsFor(A, h), Clean(h), NEW u \in Usages, ~IsRead(u),
           ~DetectWriteHazard(A, u, NonAttachment)
    PROVE  \A i \in 1 .. Len(h) : OrderedAfter(h, i, DirectlyBefore(h, u))
<1> DEFINE D == DirectlyBefore(h, u)
<1>1. DOMAIN h = 1 .. Len(h)
  BY HistoryFacts DEF StandsFor
<1>2. CASE HasReads(A)
  <2>1. \A s \in DOMAIN A.reads : u.stage \in A.reads[s].barriers
    BY <1>2 DEF DetectWriteHazard, NonAttachment
  <2>2. ASSUME NEW i \in Recent(h), IsRead(h[i].usage) PROVE OrderedAfter(h, i, D)
    <3>1. Leads(h, i, u.stage)
      BY <2>1, <2>2, KnownLeads
    <3>2. CASE u.stage \in h[i].after
      BY <2>2, <3>2, RecentFacts, <1>1 DEF DirectlyBefore, OrderedAfter, StandsFor
    <3>3. CASE \E k \in h[i].before : IsRead(h[k].usage) /\ u.stage \in h[k].after
      <4>1. PICK k \in h[i].before : IsRead(h[k].usage) /\ u.stage \in h[k].after
        BY <3>3
      <4>2. k \in DOMAIN h
        BY <1>1, RecentFacts DEF StandsFor
      <4> QED BY <4>1, <4>2 DEF DirectlyBefore, OrderedAfter
    <3> QED BY <3>1, <3>2, <3>3 DEF Leads
  <2>3. \E d \in Recent(h) : d \in D
    <3>1. PICK s \in DOMAIN A.reads : s \in Stages
      BY <1>2, StateFacts DEF HasReads
    <3>2. PICK i : i \in RecentReads(h, s)
      BY <3>1 DEF StandsFor, ReadsStand
    <3>3. i \in Recent(h) /\ OrderedAfter(h, i, D)
      BY <2>2, <3>2, RecentFacts DEF StandsFor
    <3> HIDE DEF D
    <3> QED BY <3>3, RecentFacts DEF OrderedAfter, StandsFor
  <2> HIDE DEF D
  <2>4. \A i \in 1 .. Len(h) : OrderedAfter(h, i, D)
    BY <2>2, <2>3, AllOrdered DEF StandsFor
  <2> QED BY <2>4 DEF D
<1>3. CASE ~HasReads(A)
  <2>1. \A i \in Recent(h) : ~IsRead(h[i].usage)
    BY <1>3, KnownLeads DEF HasReads
  <2>2. HasWrite(A) => \E d \in Recent(h) : d \in D
    <3>1. ASSUME HasWrite(A) PROVE \E d \in Recent(h) : d \in D
      <4>1. PICK w : w \in RecentWrites(h)
        BY <3>1 DEF StandsFor, WriteStands
      <4>2. u \in A.write_barriers
        BY <1>3, <3>1 DEF DetectWriteHazard, NonAttachment
      <4>3. w \in Recent(h) /\ ~IsRead(h[w].usage) /\ u \in h[w].visible
        BY <4>1, <4>2 DEF StandsFor, WriteStands, RecentWrites
      <4>4. w \in DOMAIN h
        BY <1>1, <4>3, RecentFacts DEF StandsFor
      <4> QED BY <4>3, <4>4 DEF DirectlyBefore
    <3> QED BY <3>1
  <2> HIDE DEF D
  <2>3. \A i \in 1 .. Len(h) : OrderedAfter(h, i, D)
    BY <2>1, <2>2, AllOrdered DEF StandsFor
  <2> QED BY <2>3 DEF D
<1> QED BY <1>2, <1>3

LEMMA TransitionPasses ==
    ASSUME NEW A \in State, NEW h, StandsFor(A, h), Clean(h), NEW b \in Scope,
           ~DetectBarrierHazard(A, b.srcExec, b.srcAccess)
    PROVE  \A i \in 1 .. Len(h) : OrderedAfter(h, i, DirectlyBeforeTransition(h, b))
<1> DEFINE D == DirectlyBeforeTransition(h, b)
<1>1. DOMAIN h = 1 .. Len(h)
  BY HistoryFacts DEF StandsFor
<1>2. CASE HasReads(A)
  <2>1. \A s \in DOMAIN A.reads : ReadInScopeOrChain(A, s, b.srcExec)
    BY <1>2 DEF DetectBarrierHazard
  <2>2. ASSUME NEW i \in Recent(h), IsRead(h[i].usage) PROVE OrderedAfter(h, i, D)
    <3>1. i \in DOMAIN h
      BY <1>1, RecentFacts DEF StandsFor
    <3>2. PICK x \in b.srcExec : x = h[i].usage.stage \/ x \in A.reads[h[i].usage.stage].barriers
      BY <2>1, <2>2, KnownLeads DEF ReadInScopeOrChain
    <3>3. CASE x = h[i].usage.stage
      BY <2>2, <3>1, <3>2, <3>3 DEF OrderedAfter, BeforeTransition, InFirstScope, DirectlyBeforeTransition
    <3>4. CASE x \in h[i].after
      BY <2>2, <3>1, <3>2, <3>4 DEF OrderedAfter, BeforeTransition, InFirstScope, DirectlyBeforeTransition
    <3>5. CASE \E k \in h[i].before : IsRead(h[k].usage) /\ x \in h[k].after
      <4>1. PICK k \in h[i].before : IsRead(h[k].usage) /\ x \in h[k].after
        BY <3>5
      <4>2. k \in DOMAIN h
        BY <1>1, RecentFacts DEF StandsFor
      <4> QED BY <3>2, <4>1, <4>2 DEF OrderedAfter, BeforeTransition, InFirstScope, DirectlyBeforeTransition
    <3> QED BY <2>2, <3>2, <3>3, <3>4, <3>5, KnownLeads DEF Leads
  <2>3. \E d \in Recent(h) : d \in D
    <3>1. PICK s \in DOMAIN A.reads : s \in Stages
      BY <1>2, StateFacts DEF HasReads
    <3>2. PICK i : i \in RecentReads(h, s)
      BY <3>1 DEF StandsFor, ReadsStand
    <3>3. i \in Recent(h) /\ OrderedAfter(h, i, D)
      BY <2>2, <3>2, RecentFacts DEF StandsFor
    <3> HIDE DEF D
    <3> QED BY <3>3, RecentFacts DEF OrderedAfter, StandsFor
  <2> HIDE DEF D
  <2>4. \A i \in 1 .. Len(h) : OrderedAfter(h, i, D)
    BY <2>2, <2>3, AllOrdered DEF StandsFor
  <2> QED BY <2>4 DEF D
<1>3. CASE ~HasReads(A)
  <2>1. \A i \in Recent(h) : ~IsRead(h[i].usage)
    BY <1>3, KnownLeads DEF HasReads
  <2>2. HasWrite(A) => \E d \in Recent(h) : d \in D
    <3>1. ASSUME HasWrite(A) PROVE \E d \in Recent(h) : d \in D
      <4>1. PICK w : w \in RecentWrites(h)
        BY <3>1 DEF StandsFor, WriteStands
      <4>2. ~IsWriteBarrierHazard(A, b.srcExec, b.srcAccess)
        BY <1>3, <3>1 DEF DetectBarrierHazard
      <4>3. /\ w \in Recent(h) /\ ~IsRead(h[w].usage) /\ A.last_write = h[w].usage
            /\ A.write_barriers = h[w].visible /\ A.write_chain = h[w].after
        BY <4>1 DEF StandsFor, WriteStands, RecentWrites
      <4>4. BeforeTransition(h[w], b)
        BY <4>2, <4>3 DEF IsWriteBarrierHazard, WriteInScope, WriteInChain, BeforeTransition
      <4>5. w \in DOMAIN h
        BY <1>1, <4>3, RecentFacts DEF StandsFor
      <4> QED BY <4>3, <4>4, <4>5 DEF DirectlyBeforeTransition
    <3> QED BY <3>1
  <2> HIDE DEF D
  <2>3. \A i \in 1 .. Len(h) : OrderedAfter(h, i, D)
    BY <2>1, <2>2, AllOrdered DEF StandsFor
  <2> QED BY <2>3 DEF D
<1> QED BY <1>2, <1>3

-----------------------------------------------------------------------------
(* Nothing is invented: what a check stops is after something it conflicts with *)

LEMMA CompleteFacts ==
    ASSUME NEW A \in State, NEW h, StandsFor(A, h), ReadOnce(h), NEW s \in DOMAIN A.reads, NEW i \in RecentReads(h, s)
    PROVE  /\ h[i].after \subseteq A.reads[s].barriers /\ h[i].after \subseteq A.read_exec
           /\ \A k \in h[i].before : /\ IsRead(h[k].usage) /\ h[k].usage.stage \in A.reads[s].barriers
                                     /\ h[k].after \subseteq A.reads[s].barriers
<1>1. i \in Recent(h)
  BY RecentFacts DEF StandsFor
<1>2. h[i].after \subseteq A.reads[s].barriers /\ h[i].after \subseteq A.read_exec
  BY DEF StandsFor, ReadsComplete
<1>3. ASSUME NEW k \in h[i].before
      PROVE  /\ IsRead(h[k].usage) /\ h[k].usage.stage \in A.reads[s].barriers
             /\ h[k].after \subseteq A.reads[s].barriers
  <2>1. k \in Recent(h) /\ IsRead(h[k].usage) /\ k \in RecentReads(h, h[k].usage.stage)
    BY <1>1, RecentFacts DEF StandsFor
  <2>2. PICK t : t = h[k].usage.stage
    OBVIOUS
  <2>3. t \in DOMAIN A.reads /\ k \in RecentReads(h, t)
    BY <2>1, <2>2, KnownLeads
  <2>4. t \in A.reads[s].barriers /\ h[k].after \subseteq A.reads[s].barriers
    BY <2>3 DEF StandsFor, ReadsComplete
  <2> QED BY <2>1, <2>2, <2>4
<1> QED BY <1>2, <1>3

LEMMA ReadHazardReal ==
    ASSUME NEW A \in State, NEW h, StandsFor(A, h), ReadOnce(h), NEW u \in Usages, IsRead(u), IsRAWHazard(A, u)
    PROVE  \E i \in 1 .. Len(h) : Conflict(h[i].usage, u) /\ ~OrderedAfter(h, i, DirectlyBefore(h, u))
<1>1. HasWrite(A) /\ u.stage \notin A.read_exec /\ u \notin A.write_barriers
  BY DEF IsRAWHazard
<1>2. PICK w : w \in RecentWrites(h)
  BY <1>1 DEF StandsFor, WriteStands
<1>3. w \in Recent(h) /\ w \in 1 .. Len(h) /\ ~IsRead(h[w].usage)
  BY <1>2, RecentFacts DEF StandsFor
<1>4. u \notin h[w].visible
  BY <1>1, <1>2 DEF StandsFor, WriteStands
<1>5. ASSUME NEW k \in h[w].before PROVE k \notin DirectlyBefore(h, u)
  <2>1. IsRead(h[k].usage) /\ k \in RecentReads(h, h[k].usage.stage) /\ k \in Recent(h)
    BY <1>3, RecentFacts DEF StandsFor
  <2>2. h[k].usage.stage \in DOMAIN A.reads
    BY <2>1, KnownLeads
  <2>3. h[k].after \subseteq A.read_exec
    BY <2>1, <2>2, CompleteFacts
  <2> QED BY <1>1, <2>1, <2>3 DEF DirectlyBefore
<1> QED BY <1>3, <1>4, <1>5 DEF Conflict, OrderedAfter, DirectlyBefore

LEMMA WriteHazardReal ==
    ASSUME NEW A \in State, NEW h, StandsFor(A, h), ReadOnce(h), NEW u \in Usages, ~IsRead(u),
           DetectWriteHazard(A, u, NonAttachment)
    PROVE  \E i \in 1 .. Len(h) : ~OrderedAfter(h, i, DirectlyBefore(h, u))
<1>1. CASE HasReads(A)
  <2>1. PICK s \in DOMAIN A.reads : u.stage \notin A.reads[s].barriers
    BY <1>1 DEF DetectWriteHazard
  <2>2. s \in Stages
    BY StateFacts
  <2>3. PICK i : i \in RecentReads(h, s)
    BY <2>2 DEF StandsFor, ReadsStand
  <2>4. i \in 1 .. Len(h) /\ IsRead(h[i].usage)
    BY <2>3, RecentFacts DEF StandsFor
  <2>5. u.stage \notin h[i].after /\ \A k \in h[i].before : IsRead(h[k].usage) /\ u.stage \notin h[k].after
    BY <2>1, <2>3, CompleteFacts
  <2> QED BY <2>4, <2>5 DEF OrderedAfter, DirectlyBefore
<1>2. CASE ~HasReads(A)
  <2>1. HasWrite(A) /\ u \notin A.write_barriers
    BY <1>2 DEF DetectWriteHazard
  <2>2. PICK w : w \in RecentWrites(h)
    BY <2>1 DEF StandsFor, WriteStands
  <2>3. w \in Recent(h) /\ w \in 1 .. Len(h) /\ ~IsRead(h[w].usage)
    BY <2>2, RecentFacts DEF StandsFor
  <2>4. u \notin h[w].visible
    BY <2>1, <2>2 DEF StandsFor, WriteStands
  <2>5. h[w].before = {}
    <3>1. ASSUME NEW k \in h[w].before PROVE FALSE
      <4>1. k \in Recent(h) /\ IsRead(h[k].usage)
        BY <2>3, RecentFacts DEF StandsFor
      <4> QED BY <1>2, <4>1, KnownLeads DEF HasReads
    <3> QED BY <3>1
  <2> QED BY <2>3, <2>4, <2>5 DEF OrderedAfter, DirectlyBefore
<1> QED BY <1>1, <1>2

LEMMA TransitionHazardReal ==
    ASSUME NEW A \in State, NEW h, StandsFor(A, h), ReadOnce(h), NEW b \in Scope,
           Narrow(b), DetectBarrierHazard(A, b.srcExec, b.srcAccess)
    PROVE  \E i \in 1 .. Len(h) : ~OrderedAfter(h, i, DirectlyBeforeTransition(h, b))
<1>1. CASE HasReads(A)
  <2>1. PICK s \in DOMAIN A.reads : s \notin b.srcExec /\ A.reads[s].barriers \cap b.srcExec = {}
    BY <1>1 DEF DetectBarrierHazard, ReadInScopeOrChain
  <2>2. s \in Stages
    BY StateFacts
  <2>3. PICK i : i \in RecentReads(h, s)
    BY <2>2 DEF StandsFor, ReadsStand
  <2>4. i \in 1 .. Len(h) /\ IsRead(h[i].usage) /\ h[i].usage.stage = s
    BY <2>3, RecentFacts DEF StandsFor
  <2>5. \A a : IsRead(a.usage) /\ a.usage.stage \notin b.srcExec /\ a.after \cap b.srcExec = {} => ~BeforeTransition(a, b)
    BY UsageFacts DEF BeforeTransition, InFirstScope, Narrow
  <2>6. h[i].after \cap b.srcExec = {}
    BY <2>1, <2>3, CompleteFacts
  <2>7. \A k \in h[i].before : IsRead(h[k].usage) /\ h[k].usage.stage \notin b.srcExec /\ h[k].after \cap b.srcExec = {}
    BY <2>1, <2>3, CompleteFacts
  <2> QED BY <2>1, <2>4, <2>5, <2>6, <2>7 DEF OrderedAfter, DirectlyBeforeTransition
<1>2. CASE ~HasReads(A)
  <2>1. HasWrite(A) /\ IsWriteBarrierHazard(A, b.srcExec, b.srcAccess)
    BY <1>2 DEF DetectBarrierHazard
  <2>2. PICK w : w \in RecentWrites(h)
    BY <2>1 DEF StandsFor, WriteStands
  <2>3. w \in Recent(h) /\ w \in 1 .. Len(h) /\ ~IsRead(h[w].usage)
    BY <2>2, RecentFacts DEF StandsFor
  <2>4. A.last_write = h[w].usage /\ A.write_barriers = h[w].visible /\ A.write_chain = h[w].after
    BY <2>2 DEF StandsFor, WriteStands
  <2>5. ~BeforeTransition(h[w], b)
    BY <2>1, <2>3, <2>4 DEF BeforeTransition, IsWriteBarrierHazard, WriteInScope, WriteInChain
  <2>6. h[w].before = {}
    <3>1. ASSUME NEW k \in h[w].before PROVE FALSE
      <4>1. k \in Recent(h) /\ IsRead(h[k].usage)
        BY <2>3, RecentFacts DEF StandsFor
      <4> QED BY <1>2, <4>1, KnownLeads DEF HasReads
    <3> QED BY <3>1
  <2> QED BY <2>3, <2>5, <2>6 DEF OrderedAfter, DirectlyBeforeTransition
<1> QED BY <1>1, <1>2

-----------------------------------------------------------------------------
(* A step keeps the summary *)

\* A write makes the summary anew.
LEMMA FreshWrite ==
    ASSUME NEW A, NEW h, NEW g \in Seq(Access), NEW u \in AnyUsage, NEW D, NEW after, NEW visible,
           IsHistory(h), ~IsRead(u), Extended(h, g, u, D, after, visible),
           A.last_write = u, A.write_barriers = visible, A.write_chain = after,
           DOMAIN A.reads = {}, A.read_exec = {}
    PROVE  StandsFor(A, g)
<1>1. IsHistory(g)
  BY ExtendedHistory
<1>2. Len(h) \in Nat
  BY HistoryFacts
<1>3. RecentWrites(g) = {Len(h) + 1} /\ \A s : RecentReads(g, s) = {}
  BY <1>2, WriteRecent
<1>4. HasWrite(A)
  BY UsageFacts DEF HasWrite
<1>5. WriteStands(A, g)
  BY <1>3, <1>4 DEF WriteStands, Extended
<1>6. ReadsStand(A, g)
  BY <1>3 DEF ReadsStand
<1>7. ReadsComplete(A, g)
  BY DEF ReadsComplete
<1> QED BY <1>1, <1>5, <1>6, <1>7 DEF StandsFor

LEMMA SameStands ==
    ASSUME NEW A, NEW R, NEW h, StandsFor(A, h), SameRecent(A, R)
    PROVE  StandsFor(R, h)
<1>1. HasWrite(A) <=> HasWrite(R)
  BY DEF SameRecent, HasWrite
<1> QED BY <1>1 DEF StandsFor, SameRecent, WriteStands, ReadsStand, ReadsComplete

LEMMA WriteStep ==
    ASSUME NEW A \in State, NEW h, StandsFor(A, h), NEW u \in Usages, ~IsRead(u), NEW tag \in Nat
    PROVE  Update(A, u, tag) \in State /\ StandsFor(Update(A, u, tag), Accessed(h, u))
<1>1. u \in AnyUsage /\ IsHistory(h) /\ h \in Seq(Access)
  BY HistoryFacts DEF AnyUsage, StandsFor
<1>2. PICK W : W = SetWrite(A, u, tag)
  OBVIOUS
<1>3. Update(A, u, tag) = UpdateFirst(W, tag, u)
  BY <1>2 DEF Update
<1>4. /\ W \in State /\ W.last_write = u /\ W.write_barriers = {} /\ W.write_chain = {}
      /\ DOMAIN W.reads = {} /\ W.read_exec = {}
  BY <1>1, <1>2, SetWriteIs
<1>5. PICK g \in Seq(Access) : g = Accessed(h, u) /\ Extended(h, g, u, DirectlyBefore(h, u), {}, {})
  BY <1>1, AccessedIs
<1>6. StandsFor(W, g)
  BY <1>1, <1>4, <1>5, FreshWrite
<1>7. UpdateFirst(W, tag, u) \in State /\ SameRecent(W, UpdateFirst(W, tag, u))
  BY <1>1, <1>4, UpdateFirstIs
<1> QED BY <1>3, <1>5, <1>6, <1>7, SameStands

LEMMA TransitionStep ==
    ASSUME NEW A \in State, NEW h, StandsFor(A, h), NEW b \in Scope, b.transition, NEW tag \in Nat
    PROVE  ApplyBarriers(A, {b}, tag) \in State /\ StandsFor(ApplyBarriers(A, {b}, tag), Barriered(h, {b}))
<1>1. PICK B \in SUBSET Scope : B = {b}
  OBVIOUS
<1> DEFINE R == ApplyBarriers(A, B, tag)
           F == UpdateFirst(SetWrite(A, Transition, tag), tag, Transition)
           g == Barriered(h, {b})
           D == DirectlyBeforeTransition(h, b)
<1>2. IsHistory(h) /\ h \in Seq(Access)
  BY HistoryFacts DEF StandsFor
<1>3. \E c \in B : c.transition
  BY <1>1
<1>4. /\ R \in State
      /\ R.last_write = Transition /\ R.write_tag = tag
      /\ R.write_barriers = UNION {c.dstAccess : c \in PendingWrite(A, B)}
      /\ R.write_chain = UNION {c.dstExec : c \in PendingWrite(A, B)}
      /\ DOMAIN R.reads = {} /\ R.read_exec = {}
      /\ R.firsts = F.firsts /\ R.first_reads = F.first_reads
  BY <1>3, ApplyTransitionIs
<1> HIDE DEF R, F
<1>5. PendingWrite(A, B) = {b}
  BY <1>1 DEF PendingWrite
<1>6. R.write_barriers = b.dstAccess /\ R.write_chain = b.dstExec
  BY <1>4, <1>5
<1>7. PICK m \in Seq(Access) :
         Barred(h, m, {b}) /\ g \in Seq(Access) /\ Extended(m, g, Transition, D, b.dstExec, b.dstAccess)
  BY <1>2, TransitionIs
<1>8. IsHistory(m)
  BY <1>2, <1>7, BarredHistory
<1> HIDE DEF g, D
<1>9. StandsFor(R, g)
  BY <1>4, <1>6, <1>7, <1>8, UsageFacts, FreshWrite
<1> QED BY <1>1, <1>4, <1>9 DEF R, g

LEMMA ReadOnceBefore ==
    ASSUME NEW h, NEW g \in Seq(Access), NEW u, NEW D, NEW after, NEW visible,
           h \in Seq(Access), Extended(h, g, u, D, after, visible), ReadOnce(g)
    PROVE  ReadOnce(h)
<1>1. DOMAIN h = 1 .. Len(h) /\ Len(h) \in Nat /\ DOMAIN g = 1 .. (Len(h) + 1)
  BY DEF Extended
<1>2. \A i \in 1 .. Len(h) : g[i].usage = h[i].usage
  BY DEF Extended
<1>3. SUFFICES ASSUME NEW i \in 1 .. Len(h), NEW j \in 1 .. Len(h), i < j, IsRead(h[i].usage), h[i].usage = h[j].usage
               PROVE  \E k \in i .. j : ~IsRead(h[k].usage)
  BY <1>1 DEF ReadOnce
<1>4. i \in DOMAIN g /\ j \in DOMAIN g /\ g[i].usage = h[i].usage /\ g[j].usage = h[j].usage
  BY <1>1, <1>2
<1>5. PICK k \in i .. j : ~IsRead(g[k].usage)
  BY <1>3, <1>4 DEF ReadOnce
<1>6. k \in 1 .. Len(h)
  BY <1>1
<1> QED BY <1>2, <1>5, <1>6

LEMMA ReadOnceFacts ==
    ASSUME NEW h, NEW g \in Seq(Access), NEW u \in AnyUsage, NEW D, NEW after, NEW visible,
           IsHistory(h), IsRead(u), Extended(h, g, u, D, after, visible), ReadOnce(g)
    PROVE  ReadOnce(h) /\ RecentReads(h, u.stage) = {}
<1>1. DOMAIN h = 1 .. Len(h) /\ Len(h) \in Nat /\ DOMAIN g = 1 .. (Len(h) + 1)
  BY HistoryFacts DEF Extended
<1>2. (\A i \in 1 .. Len(h) : g[i].usage = h[i].usage) /\ g[Len(h) + 1].usage = u
  BY DEF Extended
<1>3. ReadOnce(h)
  BY HistoryFacts, ReadOnceBefore
<1>4. ASSUME NEW j \in RecentReads(h, u.stage) PROVE FALSE
  <2>1. j \in Recent(h) /\ j \in 1 .. Len(h) /\ IsRead(h[j].usage) /\ h[j].usage.stage = u.stage
    BY RecentFacts
  <2>2. h[j].usage = u
    BY <2>1, HistoryFacts, UsageFacts
  <2>3. j \in DOMAIN g /\ Len(h) + 1 \in DOMAIN g /\ j < Len(h) + 1
    BY <1>1, <2>1
  <2>4. PICK k \in j .. (Len(h) + 1) : ~IsRead(g[k].usage)
    BY <1>2, <2>1, <2>2, <2>3 DEF ReadOnce
  <2>5. k \in 1 .. Len(h) /\ j < k
    <3>1. k # Len(h) + 1 /\ k # j
      BY <1>2, <2>1, <2>4
    <3>2. k \in j .. (Len(h) + 1)
      BY <2>4
    <3> QED BY <1>1, <2>1, <3>1, <3>2
  <2>6. IsRead(h[k].usage)
    BY <1>1, <2>1, <2>5 DEF Recent
  <2> QED BY <1>2, <2>4, <2>5, <2>6
<1> QED BY <1>3, <1>4

\* What is after a read in a history is after it in a longer one.
LEMMA LeadsOn ==
    ASSUME NEW h, NEW g, NEW i \in 1 .. Len(h), IsHistory(h), NEW x, Leads(h, i, x),
           \A j \in 1 .. Len(h) : g[j].usage = h[j].usage /\ h[j].after \subseteq g[j].after /\ h[j].before \subseteq g[j].before
    PROVE  Leads(g, i, x)
<1>1. CASE x \in h[i].after
  BY <1>1 DEF Leads
<1>2. CASE \E k \in h[i].before : IsRead(h[k].usage) /\ x \in h[k].after
  <2>1. PICK k \in h[i].before : IsRead(h[k].usage) /\ x \in h[k].after
    BY <1>2
  <2>2. k \in 1 .. Len(h)
    BY <2>1, HistoryFacts
  <2> QED BY <2>1, <2>2 DEF Leads
<1> QED BY <1>1, <1>2 DEF Leads

\* If stage x comes after access i, an access of x is ordered after it.
LEMMA LeadsOrdered ==
    ASSUME NEW h, IsHistory(h), NEW u \in Usages, NEW i \in 1 .. Len(h), IsRead(h[i].usage), Leads(h, i, u.stage)
    PROVE  OrderedAfter(h, i, DirectlyBefore(h, u))
<1>1. DOMAIN h = 1 .. Len(h) /\ \A k \in h[i].before : k \in 1 .. Len(h)
  BY HistoryFacts
<1>2. CASE u.stage \in h[i].after
  BY <1>1, <1>2 DEF DirectlyBefore, OrderedAfter
<1>3. CASE \E k \in h[i].before : IsRead(h[k].usage) /\ u.stage \in h[k].after
  BY <1>1, <1>3 DEF DirectlyBefore, OrderedAfter
<1> QED BY <1>2, <1>3 DEF Leads

LEMMA ReadStep ==
    ASSUME NEW A \in State, NEW h, StandsFor(A, h), NEW u \in Usages, IsRead(u), NEW tag \in Nat
    PROVE  Update(A, u, tag) \in State /\ StandsFor(Update(A, u, tag), Accessed(h, u))
<1> DEFINE D == DirectlyBefore(h, u)
           n == Len(h) + 1
<1>1. /\ u \in AnyUsage /\ u.stage \in Stages /\ IsHistory(h) /\ h \in Seq(Access)
      /\ DOMAIN h = 1 .. Len(h) /\ Len(h) \in Nat
  BY HistoryFacts, UsageFacts DEF AnyUsage, StandsFor
<1>2. PICK x : x = u.stage
  OBVIOUS
<1> DEFINE R == SetRead(A, x, tag)
<1>3. x \in Stages
  BY <1>1, <1>2
<1>4. Update(A, u, tag) = UpdateFirst(R, tag, u)
  BY <1>2 DEF Update
<1>5. /\ R \in State
      /\ R.last_write = A.last_write /\ R.write_tag = A.write_tag /\ R.write_barriers = A.write_barriers
      /\ R.write_chain = A.write_chain /\ R.read_exec = A.read_exec
      /\ R.firsts = A.firsts /\ R.first_reads = A.first_reads
      /\ DOMAIN R.reads = DOMAIN A.reads \cup {x}
      /\ R.reads[x] = [barriers |-> {}, sync_stages |-> {}, tag |-> tag]
      /\ \A s \in DOMAIN A.reads : s # x =>
            /\ R.reads[s].barriers = A.reads[s].barriers /\ R.reads[s].tag = A.reads[s].tag
            /\ \A t \in R.reads[s].sync_stages :
                  t \in A.reads[s].sync_stages \/ (t = x /\ x \in A.reads[s].barriers)
            /\ \A t \in A.reads[s].sync_stages : t # x => t \in R.reads[s].sync_stages
            /\ x \in A.reads[s].barriers => x \in R.reads[s].sync_stages
  BY <1>3, SetReadIs DEF ReadSet
<1> HIDE DEF R
<1>6. R.reads[x].barriers = {} /\ R.reads[x].sync_stages = {}
  BY <1>5
<1>7. PICK g \in Seq(Access) : g = Accessed(h, u) /\ Extended(h, g, u, D, {}, {})
  BY <1>1, AccessedIs
<1>8. /\ IsHistory(g)
      /\ \A i : i \in Recent(g) <=> i \in Recent(h) \/ i = n
      /\ \A i : i \in RecentWrites(g) <=> i \in RecentWrites(h)
      /\ \A s, i : i \in RecentReads(g, s) <=> i \in RecentReads(h, s) \/ (i = n /\ s = x)
  BY <1>1, <1>2, <1>7, ExtendedHistory, ReadRecent
<1>9. \A s, i : i \in RecentReads(h, s) => i \in 1 .. Len(h) /\ i \in Recent(h) /\ IsRead(h[i].usage) /\ h[i].usage.stage = s
  BY <1>1, RecentFacts
<1>10. \A i \in 1 .. Len(h) :
          /\ g[i].usage = h[i].usage /\ g[i].after = h[i].after /\ g[i].visible = h[i].visible
          /\ h[i].before \subseteq g[i].before
          /\ \A j \in g[i].before : j \in h[i].before \/ (j = n /\ OrderedAfter(h, i, D))
          /\ OrderedAfter(h, i, D) => n \in g[i].before
  BY <1>7 DEF Extended, OrderedAfter
<1>11. g[n].usage = u /\ g[n].after = {} /\ g[n].before = {}
  BY <1>7 DEF Extended
<1>12. WriteStands(R, g)
  <2>1. HasWrite(R) <=> HasWrite(A)
    BY <1>5 DEF HasWrite
  <2>2. \A w \in RecentWrites(h) : w \in 1 .. Len(h)
    BY <1>1, RecentFacts
  <2>3. \A i \in DOMAIN g : i \in 1 .. Len(h) \/ i = n
    BY <1>1, <1>7 DEF Extended
  <2> HIDE DEF n, D
  <2>4. WriteStands(A, h)
    BY DEF StandsFor
  <2>5. \A w \in RecentWrites(g) : R.last_write = g[w].usage /\ R.write_barriers = g[w].visible /\ R.write_chain = g[w].after
    <3> TAKE w \in RecentWrites(g)
    <3>1. w \in RecentWrites(h) /\ w \in 1 .. Len(h)
      BY <1>8, <2>2
    <3>2. A.last_write = h[w].usage /\ A.write_barriers = h[w].visible /\ A.write_chain = h[w].after
      BY <2>4, <3>1 DEF WriteStands
    <3>3. g[w].usage = h[w].usage /\ g[w].after = h[w].after /\ g[w].visible = h[w].visible
      BY <1>10, <3>1
    <3> QED BY <1>5, <3>2, <3>3
  <2>6. HasWrite(R) => RecentWrites(g) # {}
    BY <1>8, <2>1, <2>4 DEF WriteStands
  <2>7. ASSUME ~HasWrite(R), NEW i \in DOMAIN g PROVE IsRead(g[i].usage)
    <3>1. \A j \in 1 .. Len(h) : IsRead(h[j].usage)
      BY <1>1, <2>1, <2>4, <2>7 DEF WriteStands
    <3> QED BY <1>10, <1>11, <2>3, <2>7, <3>1
  <2> QED BY <2>5, <2>6, <2>7 DEF WriteStands
<1> HIDE DEF n
<1>13. ReadsStand(R, g)
  <2>1. \A s \in Stages : s \in DOMAIN R.reads <=> RecentReads(g, s) # {}
    <3>1. \A s \in Stages : s \in DOMAIN A.reads <=> RecentReads(h, s) # {}
      BY DEF StandsFor, ReadsStand
    <3> QED BY <1>5, <1>8, <3>1
  <2>2. ASSUME NEW s \in DOMAIN R.reads, NEW i \in RecentReads(g, s), NEW y \in R.reads[s].barriers PROVE Leads(g, i, y)
    <3>1. s # x /\ s \in DOMAIN A.reads /\ i \in RecentReads(h, s) /\ y \in A.reads[s].barriers
      BY <1>5, <1>6, <1>8, <2>2
    <3>2. Leads(h, i, y)
      BY <3>1 DEF StandsFor, ReadsStand
    <3> QED BY <1>1, <1>9, <1>10, <3>1, <3>2, LeadsOn
  <2>3. ASSUME NEW s \in DOMAIN R.reads, NEW i \in RecentReads(g, s), NEW t \in R.reads[s].sync_stages
        PROVE  \E k \in g[i].before : k \in RecentReads(g, t)
    <3>1. s # x /\ s \in DOMAIN A.reads /\ i \in RecentReads(h, s) /\ i \in 1 .. Len(h) /\ IsRead(h[i].usage)
      BY <1>5, <1>6, <1>8, <1>9, <2>3
    <3>2. CASE t \in A.reads[s].sync_stages
      <4>1. PICK k \in h[i].before : k \in RecentReads(h, t)
        BY <3>1, <3>2 DEF StandsFor, ReadsStand
      <4> QED BY <1>8, <1>10, <3>1, <4>1
    <3>3. CASE t = x /\ x \in A.reads[s].barriers
      <4>1. Leads(h, i, x)
        BY <3>1, <3>3 DEF StandsFor, ReadsStand
      <4>2. OrderedAfter(h, i, D)
        BY <1>1, <1>2, <3>1, <4>1, LeadsOrdered
      <4> QED BY <1>8, <1>10, <3>1, <3>3, <4>2
    <3> QED BY <1>5, <2>3, <3>1, <3>2, <3>3
  <2>4. ASSUME NEW y \in R.read_exec PROVE \E i \in Recent(g) : IsRead(g[i].usage) /\ y \in g[i].after
    <3>1. PICK i \in Recent(h) : IsRead(h[i].usage) /\ y \in h[i].after
      BY <1>5, <2>4 DEF StandsFor, ReadsStand
    <3>2. i \in 1 .. Len(h)
      BY <1>1, RecentFacts
    <3> QED BY <1>8, <1>10, <3>1, <3>2
  <2> QED BY <2>1, <2>2, <2>3, <2>4 DEF ReadsStand
<1>14. ReadsComplete(R, g)
  <2>1. SUFFICES ASSUME ReadOnce(g), NEW s \in DOMAIN R.reads, NEW i \in RecentReads(g, s)
                 PROVE  /\ g[i].after \subseteq R.reads[s].barriers /\ g[i].after \subseteq R.read_exec
                        /\ \A t \in DOMAIN R.reads : \A k \in RecentReads(g, t) : k \in g[i].before =>
                              /\ t \in R.reads[s].sync_stages /\ t \in R.reads[s].barriers
                              /\ g[k].after \subseteq R.reads[s].barriers
    BY DEF ReadsComplete
  <2>2. ReadOnce(h) /\ RecentReads(h, x) = {}
    BY <1>1, <1>2, <1>7, <2>1, ReadOnceFacts
  <2>3. CASE i = n
    BY <1>11, <2>3
  <2>4. CASE i # n
    <3>1. i \in RecentReads(h, s) /\ s # x /\ s \in DOMAIN A.reads /\ i \in 1 .. Len(h)
      BY <1>5, <1>8, <1>9, <2>2, <2>4
    <3>2. h[i].after \subseteq A.reads[s].barriers /\ h[i].after \subseteq A.read_exec
      BY <2>2, <3>1 DEF StandsFor, ReadsComplete
    <3>3. ASSUME NEW t \in DOMAIN R.reads, NEW k \in RecentReads(g, t), k \in g[i].before
          PROVE  /\ t \in R.reads[s].sync_stages /\ t \in R.reads[s].barriers
                 /\ g[k].after \subseteq R.reads[s].barriers
      <4>1. CASE t = x
        <5>1. k = n
          BY <1>8, <2>2, <4>1
        <5>2. n \notin h[i].before
          BY <1>1, <3>1, HistoryFacts DEF n
        <5>3. OrderedAfter(h, i, D)
          BY <1>10, <3>1, <3>3, <5>1, <5>2
        <5>4. x \in A.reads[s].barriers
          <6>1. CASE i \in D
            BY <1>2, <1>9, <3>1, <3>2, <6>1 DEF DirectlyBefore
          <6>2. CASE \E j \in h[i].before : j \in D
            <7>1. PICK j \in h[i].before : j \in D
              BY <6>2
            <7>2. IsRead(h[j].usage) /\ h[j].after \subseteq A.reads[s].barriers
              BY <2>2, <3>1, CompleteFacts
            <7> QED BY <1>2, <7>1, <7>2 DEF DirectlyBefore
          <6> HIDE DEF D
          <6> QED BY <5>3, <6>1, <6>2 DEF OrderedAfter
        <5> QED BY <1>5, <1>11, <3>1, <4>1, <5>1, <5>4
      <4>2. CASE t # x
        <5>1. k \in RecentReads(h, t) /\ t \in DOMAIN A.reads /\ k \in 1 .. Len(h)
          BY <1>5, <1>8, <1>9, <3>3, <4>2
        <5>2. k \in h[i].before
          BY <1>1, <1>10, <3>1, <3>3, <5>1 DEF n
        <5>3. t \in A.reads[s].sync_stages /\ t \in A.reads[s].barriers /\ h[k].after \subseteq A.reads[s].barriers
          BY <2>2, <3>1, <5>1, <5>2 DEF StandsFor, ReadsComplete
        <5> QED BY <1>5, <1>10, <3>1, <4>2, <5>1, <5>3
      <4> QED BY <4>1, <4>2
    <3> QED BY <1>5, <1>10, <3>1, <3>2, <3>3
  <2> QED BY <2>3, <2>4
<1>15. StandsFor(R, g)
  BY <1>8, <1>12, <1>13, <1>14 DEF StandsFor
<1>16. UpdateFirst(R, tag, u) \in State /\ SameRecent(R, UpdateFirst(R, tag, u))
  BY <1>1, <1>5, UpdateFirstIs
<1> QED BY <1>4, <1>7, <1>15, <1>16, SameStands

LEMMA PlainBarrierStep ==
    ASSUME NEW A \in State, NEW h, StandsFor(A, h), NEW B \in SUBSET Scope, \A b \in B : ~b.transition, NEW tag \in Nat
    PROVE  ApplyBarriers(A, B, tag) \in State /\ StandsFor(ApplyBarriers(A, B, tag), Barriered(h, B))
<1> DEFINE R == ApplyBarriers(A, B, tag)
           Hits(s, b) == \E t \in DOMAIN A.reads : (t = s \/ t \in A.reads[s].sync_stages) /\ ReadInScopeOrChain(A, t, b.srcExec)
<1>1. IsHistory(h) /\ h \in Seq(Access) /\ DOMAIN h = 1 .. Len(h) /\ Len(h) \in Nat
  BY HistoryFacts DEF StandsFor
<1>2. /\ R \in State
      /\ R.last_write = A.last_write /\ R.write_tag = A.write_tag
      /\ R.firsts = A.firsts /\ R.first_reads = A.first_reads
      /\ \A x : x \in R.write_chain <=> x \in A.write_chain \/ \E b \in B : WriteInSourceScopeOrChain(A, b) /\ x \in b.dstExec
      /\ \A x : x \in R.write_barriers <=> x \in A.write_barriers \/ \E b \in B : WriteInSourceScopeOrChain(A, b) /\ x \in b.dstAccess
      /\ DOMAIN R.reads = DOMAIN A.reads
      /\ \A s \in DOMAIN A.reads :
            /\ R.reads[s].tag = A.reads[s].tag /\ R.reads[s].sync_stages = A.reads[s].sync_stages
            /\ \A x : x \in R.reads[s].barriers <=>
                  \/ x \in A.reads[s].barriers
                  \/ \E b \in B : \E t \in DOMAIN A.reads :
                        /\ t = s \/ t \in A.reads[s].sync_stages
                        /\ ReadInScopeOrChain(A, t, b.srcExec)
                        /\ x \in b.dstExec
      /\ \A x : x \in R.read_exec <=> x \in A.read_exec \/ \E s \in DOMAIN A.reads : x \in R.reads[s].barriers
  BY ApplyPlainIs, Zenon
<1> HIDE DEF R
<1>3. \A s \in DOMAIN A.reads : \A x : x \in R.reads[s].barriers <=> x \in A.reads[s].barriers \/ \E b \in B : Hits(s, b) /\ x \in b.dstExec
  BY <1>2
<1>4. \A s \in DOMAIN A.reads : s \in Stages
  BY StateFacts
<1>5. PICK g \in Seq(Access) : g = Barriered(h, B) /\ Barred(h, g, B)
  BY <1>1, BarrieredIs
<1>6. IsHistory(g) /\ Recent(g) = Recent(h) /\ RecentWrites(g) = RecentWrites(h) /\ \A s : RecentReads(g, s) = RecentReads(h, s)
  BY <1>1, <1>5, BarredHistory, BarredRecent
<1>7. /\ \A s, i : i \in RecentReads(h, s) => i \in 1 .. Len(h) /\ i \in Recent(h) /\ IsRead(h[i].usage) /\ h[i].usage.stage = s
      /\ \A i \in Recent(h) : i \in 1 .. Len(h)
      /\ \A w \in RecentWrites(h) : w \in Recent(h) /\ ~IsRead(h[w].usage)
  BY <1>1, RecentFacts
<1>8. DOMAIN g = 1 .. Len(h) /\ \A i \in 1 .. Len(h) : g[i].usage = h[i].usage /\ g[i].before = h[i].before /\ h[i].after \subseteq g[i].after
  BY <1>1, <1>5 DEF Barred
<1>9. \A i \in 1 .. Len(h) :
         /\ \A x : x \in g[i].after <=> x \in h[i].after \/ \E b \in B : InFirstScope(h[i], b) /\ x \in b.dstExec
         /\ \A x : x \in g[i].visible <=> x \in h[i].visible \/ \E b \in B : InFirstScope(h[i], b) /\ x \in b.dstAccess
  BY <1>5 DEF Barred
<1>10. ASSUME NEW i \in 1 .. Len(h), NEW x, Leads(h, i, x) PROVE Leads(g, i, x)
  BY <1>1, <1>8, <1>10, LeadsOn
<1>11. WriteStands(R, g)
  <2>1. HasWrite(R) <=> HasWrite(A)
    BY <1>2 DEF HasWrite
  <2>2. ASSUME NEW w \in RecentWrites(h)
        PROVE  R.last_write = g[w].usage /\ R.write_barriers = g[w].visible /\ R.write_chain = g[w].after
    <3>1. A.last_write = h[w].usage /\ A.write_barriers = h[w].visible /\ A.write_chain = h[w].after
      BY DEF StandsFor, WriteStands
    <3>2. w \in 1 .. Len(h) /\ ~IsRead(h[w].usage)
      BY <1>7
    <3>3. \A b \in B : InFirstScope(h[w], b) <=> WriteInSourceScopeOrChain(A, b)
      BY <3>1, <3>2 DEF InFirstScope, WriteInSourceScopeOrChain, WriteInChain, WriteInScope
    <3>4. \A x : x \in R.write_chain <=> x \in g[w].after
      BY <1>2, <1>9, <3>1, <3>2, <3>3
    <3>5. \A x : x \in R.write_barriers <=> x \in g[w].visible
      BY <1>2, <1>9, <3>1, <3>2, <3>3
    <3>6. R.last_write = g[w].usage
      BY <1>2, <1>8, <3>1, <3>2
    <3>7. R.write_chain \in SUBSET Stages /\ R.write_barriers \in SUBSET Usages
      BY <1>2, StateFacts
    <3>8. g[w].after \in SUBSET Stages /\ g[w].visible \in SUBSET Usages
      <4>1. g[w] \in Access
        BY <1>5, <1>8, <3>2
      <4> QED BY <4>1 DEF Access
    <3> QED BY <3>4, <3>5, <3>6, <3>7, <3>8
  <2> QED BY <1>1, <1>6, <1>8, <2>1, <2>2 DEF StandsFor, WriteStands
\* A barrier that the layer takes to follow the read of s does follow each read of s.
<1>12. ASSUME NEW s \in DOMAIN A.reads, NEW i \in RecentReads(h, s), NEW x \in R.reads[s].barriers PROVE Leads(g, i, x)
  <2>1. i \in 1 .. Len(h) /\ i \in Recent(h) /\ IsRead(h[i].usage)
    BY <1>7
  <2>2. CASE x \in A.reads[s].barriers
    <3>1. Leads(h, i, x)
      BY <2>2 DEF StandsFor, ReadsStand
    <3> QED BY <1>10, <2>1, <3>1
  <2>3. ASSUME NEW b \in B, NEW t \in DOMAIN A.reads, ReadInScopeOrChain(A, t, b.srcExec), x \in b.dstExec,
               NEW k \in RecentReads(h, t)
        PROVE  Leads(g, k, x)
    <3>1. PICK y \in b.srcExec : y = t \/ y \in A.reads[t].barriers
      BY <2>3 DEF ReadInScopeOrChain
    <3>2. k \in 1 .. Len(h) /\ IsRead(h[k].usage) /\ h[k].usage.stage = t
      BY <1>7
    <3>3. CASE y = t \/ y \in h[k].after
      <4>1. InFirstScope(h[k], b)
        BY <3>1, <3>2, <3>3 DEF InFirstScope
      <4> QED BY <1>9, <2>3, <3>2, <4>1 DEF Leads
    <3>4. CASE y \in A.reads[t].barriers
      <4>1. Leads(h, k, y)
        BY <3>4 DEF StandsFor, ReadsStand
      <4>2. CASE \E j \in h[k].before : IsRead(h[j].usage) /\ y \in h[j].after
        <5>1. PICK j \in h[k].before : IsRead(h[j].usage) /\ y \in h[j].after
          BY <4>2
        <5>2. j \in 1 .. Len(h)
          BY <1>1, <3>2, HistoryFacts
        <5>3. InFirstScope(h[j], b)
          BY <3>1, <5>1 DEF InFirstScope
        <5>4. IsRead(g[j].usage) /\ x \in g[j].after /\ j \in g[k].before
          BY <1>8, <1>9, <2>3, <3>2, <5>1, <5>2, <5>3
        <5> QED BY <5>4 DEF Leads
      <4> QED BY <3>3, <4>1, <4>2 DEF Leads
    <3> QED BY <3>1, <3>3, <3>4
  <2>4. ASSUME NEW b \in B, Hits(s, b), x \in b.dstExec PROVE Leads(g, i, x)
    <3>1. PICK t \in DOMAIN A.reads : (t = s \/ t \in A.reads[s].sync_stages) /\ ReadInScopeOrChain(A, t, b.srcExec)
      BY <2>4
    <3>2. CASE t = s
      BY <2>3, <2>4, <3>1, <3>2
    <3>3. CASE t \in A.reads[s].sync_stages
      <4>1. PICK k \in h[i].before : k \in RecentReads(h, t)
        BY <3>3 DEF StandsFor, ReadsStand
      <4>2. Leads(g, k, x)
        BY <2>3, <2>4, <3>1, <4>1
      <4>3. k \in 1 .. Len(h) /\ k \in g[i].before /\ IsRead(g[k].usage)
        BY <1>7, <1>8, <2>1, <4>1
      <4>4. CASE x \in g[k].after
        BY <4>3, <4>4 DEF Leads
      <4>5. CASE \E j \in g[k].before : IsRead(g[j].usage) /\ x \in g[j].after
        <5>1. PICK j \in g[k].before : IsRead(g[j].usage) /\ x \in g[j].after
          BY <4>5
        <5>2. j \in g[i].before
          BY <1>6, <1>8, <2>1, <4>3, <5>1 DEF IsHistory
        <5> QED BY <5>1, <5>2 DEF Leads
      <4> QED BY <4>2, <4>4, <4>5 DEF Leads
    <3> QED BY <3>1, <3>2, <3>3
  <2> QED BY <1>3, <2>2, <2>4
<1>13. ReadsStand(R, g)
  <2>1. \A s \in Stages : s \in DOMAIN R.reads <=> RecentReads(g, s) # {}
    BY <1>2, <1>6 DEF StandsFor, ReadsStand
  <2>2. ASSUME NEW s \in DOMAIN R.reads, NEW i \in RecentReads(g, s), NEW t \in R.reads[s].sync_stages
        PROVE  \E k \in g[i].before : k \in RecentReads(g, t)
    <3>1. s \in DOMAIN A.reads /\ i \in RecentReads(h, s) /\ t \in A.reads[s].sync_stages /\ g[i].before = h[i].before
      BY <1>2, <1>6, <1>7, <1>8
    <3> QED BY <1>6, <3>1 DEF StandsFor, ReadsStand
  <2>3. ASSUME NEW x \in R.read_exec PROVE \E i \in Recent(g) : IsRead(g[i].usage) /\ x \in g[i].after
    <3>1. CASE x \in A.read_exec
      <4>1. PICK i \in Recent(h) : IsRead(h[i].usage) /\ x \in h[i].after
        BY <3>1 DEF StandsFor, ReadsStand
      <4> QED BY <1>6, <1>7, <1>8, <4>1
    <3>2. CASE \E s \in DOMAIN A.reads : x \in R.reads[s].barriers
      <4>1. PICK s \in DOMAIN A.reads : x \in R.reads[s].barriers
        BY <3>2
      <4>2. PICK i : i \in RecentReads(h, s)
        BY <1>4 DEF StandsFor, ReadsStand
      <4>3. i \in Recent(g) /\ i \in 1 .. Len(h) /\ IsRead(g[i].usage) /\ Leads(g, i, x)
        BY <1>6, <1>7, <1>8, <1>12, <4>1, <4>2
      <4>4. \A k \in g[i].before : k \in Recent(g)
        BY <1>6, <4>3, RecentFacts
      <4> QED BY <4>3, <4>4 DEF Leads
    <3> QED BY <1>2, <3>1, <3>2
  <2> QED BY <1>2, <1>6, <1>12, <2>1, <2>2, <2>3 DEF ReadsStand
<1>14. ReadsComplete(R, g)
  <2>1. SUFFICES ASSUME ReadOnce(g), NEW s \in DOMAIN R.reads, NEW i \in RecentReads(g, s)
                 PROVE  /\ g[i].after \subseteq R.reads[s].barriers /\ g[i].after \subseteq R.read_exec
                        /\ \A t \in DOMAIN R.reads : \A k \in RecentReads(g, t) : k \in g[i].before =>
                              /\ t \in R.reads[s].sync_stages /\ t \in R.reads[s].barriers
                              /\ g[k].after \subseteq R.reads[s].barriers
    BY DEF ReadsComplete
  <2>2. ReadOnce(h)
    BY <1>1, <1>8, <2>1 DEF ReadOnce
  <2>3. s \in DOMAIN A.reads /\ i \in RecentReads(h, s)
    BY <1>2, <1>6
  \* An access of stage t in the first scope of b is one that the layer sees there.
  <2>4. ASSUME NEW t \in DOMAIN A.reads, NEW k \in RecentReads(h, t), NEW b \in B, InFirstScope(h[k], b)
        PROVE  ReadInScopeOrChain(A, t, b.srcExec)
    <3>1. IsRead(h[k].usage) /\ h[k].usage.stage = t
      BY <1>7
    <3>2. h[k].after \subseteq A.reads[t].barriers
      BY <2>2, CompleteFacts
    <3> QED BY <2>4, <3>1, <3>2 DEF InFirstScope, ReadInScopeOrChain
  <2>5. g[i].after \subseteq R.reads[s].barriers
    <3>1. ASSUME NEW x \in g[i].after PROVE x \in R.reads[s].barriers
      <4>1. i \in 1 .. Len(h)
        BY <1>7, <2>3
      <4>2. CASE x \in h[i].after
        BY <1>3, <2>2, <2>3, <4>2, CompleteFacts
      <4>3. CASE \E b \in B : InFirstScope(h[i], b) /\ x \in b.dstExec
        BY <1>3, <2>3, <2>4, <4>3
      <4> QED BY <1>9, <3>1, <4>1, <4>2, <4>3
    <3> QED BY <3>1
  <2>6. R.reads[s].barriers \subseteq R.read_exec
    BY <1>2, <2>3
  <2>7. ASSUME NEW t \in DOMAIN R.reads, NEW k \in RecentReads(g, t), k \in g[i].before
        PROVE  /\ t \in R.reads[s].sync_stages /\ t \in R.reads[s].barriers
               /\ g[k].after \subseteq R.reads[s].barriers
    <3>1. t \in DOMAIN A.reads /\ k \in RecentReads(h, t) /\ k \in h[i].before /\ k \in 1 .. Len(h)
      BY <1>2, <1>6, <1>7, <1>8, <2>3, <2>7
    <3>2. t \in A.reads[s].sync_stages /\ t \in A.reads[s].barriers /\ h[k].after \subseteq A.reads[s].barriers
      BY <2>2, <2>3, <3>1 DEF StandsFor, ReadsComplete
    <3>3. ASSUME NEW x \in g[k].after PROVE x \in R.reads[s].barriers
      <4>1. CASE x \in h[k].after
        BY <1>3, <2>3, <3>2, <4>1
      <4>2. CASE \E b \in B : InFirstScope(h[k], b) /\ x \in b.dstExec
        <5>1. PICK b \in B : InFirstScope(h[k], b) /\ x \in b.dstExec
          BY <4>2
        <5>2. ReadInScopeOrChain(A, t, b.srcExec)
          BY <2>4, <3>1, <5>1
        <5>3. Hits(s, b)
          BY <3>1, <3>2, <5>2
        <5> QED BY <1>3, <2>3, <5>1, <5>3
      <4> QED BY <1>9, <3>1, <3>3, <4>1, <4>2
    <3> QED BY <1>2, <1>3, <2>3, <3>2, <3>3
  <2> QED BY <2>5, <2>6, <2>7
<1> QED BY <1>5, <1>2, <1>6, <1>11, <1>13, <1>14 DEF StandsFor, R

-----------------------------------------------------------------------------
(* One command: the check is exact, and what it lets pass keeps the summary *)

LEMMA CmdAccessStep ==
    ASSUME NEW A \in State, NEW h, StandsFor(A, h), Clean(h), NEW u \in Usages, NEW tag \in Nat
    PROVE  /\ Accessed(h, u) \in Seq(Access)
           /\ DetectHazard(A, u, NonAttachment) /\ ReadOnce(Accessed(h, u)) => ~Clean(Accessed(h, u))
           /\ ~DetectHazard(A, u, NonAttachment) =>
                 /\ Update(A, u, tag) \in State
                 /\ StandsFor(Update(A, u, tag), Accessed(h, u)) /\ Clean(Accessed(h, u))
<1> DEFINE D == DirectlyBefore(h, u)
<1>1. IsHistory(h) /\ h \in Seq(Access) /\ u \in AnyUsage /\ u # Transition
  BY HistoryFacts, UsageFacts DEF StandsFor, AnyUsage
<1>2. DetectHazard(A, u, NonAttachment) <=> IF IsRead(u) THEN IsRAWHazard(A, u) ELSE DetectWriteHazard(A, u, NonAttachment)
  <2>1. CASE IsRead(u)
    BY <1>1, <2>1 DEF DetectHazard
  <2>2. CASE ~IsRead(u)
    BY <1>1, <2>2 DEF DetectHazard
  <2> QED BY <2>1, <2>2
<1>3. PICK g \in Seq(Access) : g = Accessed(h, u) /\ Extended(h, g, u, D, {}, {})
  BY <1>1, AccessedIs
<1> HIDE DEF D
<1>4. ASSUME DetectHazard(A, u, NonAttachment), ReadOnce(g) PROVE ~Clean(g)
  <2>1. ReadOnce(h)
    BY <1>1, <1>3, <1>4, ReadOnceBefore
  <2>2. PICK i \in 1 .. Len(h) : Conflict(h[i].usage, u) /\ ~OrderedAfter(h, i, D)
    <3>1. CASE IsRead(u)
      BY <1>2, <1>4, <2>1, <3>1, ReadHazardReal DEF D
    <3>2. CASE ~IsRead(u)
      BY <1>2, <1>4, <2>1, <3>2, WriteHazardReal DEF D, Conflict
    <3> QED BY <3>1, <3>2
  <2>3. i \notin D /\ \A k \in h[i].before : k \notin D
    BY <2>2 DEF OrderedAfter
  <2> QED BY <1>1, <1>3, <2>2, <2>3, ExtendedUnclean
<1>5. ASSUME ~DetectHazard(A, u, NonAttachment) PROVE Clean(g)
  <2>1. \A i \in 1 .. Len(h) : Conflict(h[i].usage, u) => OrderedAfter(h, i, D)
    <3>1. CASE IsRead(u)
      BY <1>2, <1>5, <3>1, ReadPasses DEF D
    <3>2. CASE ~IsRead(u)
      BY <1>2, <1>5, <3>2, WritePasses DEF D
    <3> QED BY <3>1, <3>2
  <2>2. \A i \in 1 .. Len(h) : Conflict(h[i].usage, u) => i \in D \/ \E k \in h[i].before : k \in D
    BY <2>1 DEF OrderedAfter
  <2> QED BY <1>1, <1>3, <2>2, ExtendedClean
<1>6. Update(A, u, tag) \in State /\ StandsFor(Update(A, u, tag), Accessed(h, u))
  <2>1. CASE IsRead(u)
    BY <2>1, ReadStep
  <2>2. CASE ~IsRead(u)
    BY <2>2, WriteStep
  <2> QED BY <2>1, <2>2
<1> QED BY <1>3, <1>4, <1>5, <1>6

\* The barriers of one command, where a transition has no other beside it.
LEMMA CmdBarrierStep ==
    ASSUME NEW A \in State, NEW h, StandsFor(A, h), Clean(h), NEW B \in SUBSET Scope, NEW tag \in Nat,
           \A b \in B : b.transition => B = {b},
           \A b \in B : Narrow(b)
    PROVE  /\ Barriered(h, B) \in Seq(Access)
           /\ TransitionHazard(A, B) /\ ReadOnce(Barriered(h, B)) => ~Clean(Barriered(h, B))
           /\ ~TransitionHazard(A, B) =>
                 /\ ApplyBarriers(A, B, tag) \in State
                 /\ StandsFor(ApplyBarriers(A, B, tag), Barriered(h, B)) /\ Clean(Barriered(h, B))
<1>1. IsHistory(h) /\ h \in Seq(Access) /\ DOMAIN h = 1 .. Len(h)
  BY HistoryFacts DEF StandsFor
<1>2. CASE \A b \in B : ~b.transition
  <2>1. ~TransitionHazard(A, B)
    BY <1>2 DEF TransitionHazard
  <2>2. ApplyBarriers(A, B, tag) \in State /\ StandsFor(ApplyBarriers(A, B, tag), Barriered(h, B))
    BY <1>2, PlainBarrierStep
  <2>3. Barriered(h, B) \in Seq(Access) /\ Barred(h, Barriered(h, B), B)
    BY <1>1, <1>2, BarrieredIs
  <2>4. Clean(Barriered(h, B))
    BY <1>1, <2>3, BarredClean
  <2> QED BY <2>1, <2>2, <2>3, <2>4
<1>3. ASSUME NEW b \in B, b.transition
      PROVE  /\ Barriered(h, B) \in Seq(Access)
             /\ TransitionHazard(A, B) /\ ReadOnce(Barriered(h, B)) => ~Clean(Barriered(h, B))
             /\ ~TransitionHazard(A, B) =>
                   /\ ApplyBarriers(A, B, tag) \in State
                   /\ StandsFor(ApplyBarriers(A, B, tag), Barriered(h, B)) /\ Clean(Barriered(h, B))
  <2> DEFINE D == DirectlyBeforeTransition(h, b)
             g == Barriered(h, {b})
  <2>1. B = {b} /\ b \in Scope /\ Narrow(b)
    BY <1>3
  <2>2. TransitionHazard(A, B) <=> DetectBarrierHazard(A, b.srcExec, b.srcAccess)
    BY <1>3, <2>1 DEF TransitionHazard
  <2>3. ApplyBarriers(A, {b}, tag) \in State /\ StandsFor(ApplyBarriers(A, {b}, tag), g)
    BY <1>3, <2>1, TransitionStep
  <2>4. PICK m \in Seq(Access) :
           Barred(h, m, {b}) /\ g \in Seq(Access) /\ Extended(m, g, Transition, D, b.dstExec, b.dstAccess)
    BY <1>1, <1>3, <2>1, TransitionIs
  <2>5. IsHistory(m) /\ Clean(m)
    BY <1>1, <2>4, BarredHistory, BarredClean
  <2>6. Len(m) = Len(h) /\ \A i \in 1 .. Len(h) : m[i].usage = h[i].usage /\ m[i].before = h[i].before
    BY <2>4 DEF Barred
  <2>7. \A i \in 1 .. Len(h) : Conflict(h[i].usage, Transition)
    BY UsageFacts DEF Conflict
  <2>8. ASSUME TransitionHazard(A, B), ReadOnce(g) PROVE ~Clean(g)
    <3>1. ReadOnce(m)
      BY <2>4, <2>8, ReadOnceBefore
    <3>2. ReadOnce(h)
      <4>1. DOMAIN m = 1 .. Len(h)
        BY <2>6
      <4> QED BY <1>1, <2>6, <3>1, <4>1 DEF ReadOnce
    <3>3. PICK i \in 1 .. Len(h) : ~OrderedAfter(h, i, D)
      <4>1. DetectBarrierHazard(A, b.srcExec, b.srcAccess)
        BY <2>2, <2>8
      <4> QED BY <2>1, <3>2, <4>1, TransitionHazardReal
    <3> HIDE DEF D, g
    <3>4. i \in 1 .. Len(m) /\ Conflict(m[i].usage, Transition) /\ i \notin D /\ \A k \in m[i].before : k \notin D
      BY <2>6, <2>7, <3>3 DEF OrderedAfter
    <3> QED BY <2>4, <2>5, <3>4, ExtendedUnclean
  <2>9. ASSUME ~TransitionHazard(A, B) PROVE Clean(g)
    <3>1. \A i \in 1 .. Len(h) : OrderedAfter(h, i, D)
      BY <2>1, <2>2, <2>9, TransitionPasses
    <3> HIDE DEF D, g
    <3>2. \A i \in 1 .. Len(m) : Conflict(m[i].usage, Transition) => i \in D \/ \E k \in m[i].before : k \in D
      BY <2>6, <3>1 DEF OrderedAfter
    <3> QED BY <2>4, <2>5, <3>2, ExtendedClean
  <2> HIDE DEF D, g
  <2>10. Barriered(h, B) = g /\ ApplyBarriers(A, B, tag) = ApplyBarriers(A, {b}, tag)
    BY <2>1 DEF g
  <2> QED BY <2>3, <2>4, <2>8, <2>9, <2>10
<1> QED BY <1>2, <1>3

-----------------------------------------------------------------------------
(* The variables *)

LEMMA ScopesIs ==
    ASSUME NEW B \in BarrierSets
    PROVE  /\ Scopes(B) \in SUBSET Scope /\ \A b \in Scopes(B) : Narrow(b)
           /\ TransitionsAlone => \A b \in Scopes(B) : b.transition => Scopes(B) = {b}
<1>1. \A b \in B : SyncBarrier(b) \in Scope /\ SyncBarrier(b).transition = b.transition /\ Narrow(SyncBarrier(b))
  BY ScopeFacts, SyncAssumption
<1>2. ASSUME TransitionsAlone, NEW s \in Scopes(B), s.transition PROVE Scopes(B) = {s}
  <2>1. PICK b \in B : s = SyncBarrier(b)
    BY DEF Scopes
  <2>2. B = {b}
    BY <1>1, <1>2, <2>1 DEF TransitionsAlone
  <2> QED BY <2>1, <2>2 DEF Scopes
<1> QED BY <1>1, <1>2 DEF Scopes

LEMMA ApplyState ==
    ASSUME NEW A \in State, NEW B \in SUBSET Scope, NEW tag \in Nat
    PROVE  ApplyBarriers(A, B, tag) \in State
<1>1. CASE \E b \in B : b.transition
  BY <1>1, ApplyTransitionIs
<1>2. CASE \A b \in B : ~b.transition
  BY <1>2, ApplyPlainIs
<1> QED BY <1>1, <1>2

LEMMA UpdateState ==
    ASSUME NEW A \in State, NEW u \in Usages, NEW tag \in Nat
    PROVE  Update(A, u, tag) \in State
<1>1. u \in AnyUsage /\ u.stage \in Stages
  BY UsageFacts DEF AnyUsage
<1>2. SetRead(A, u.stage, tag) \in State /\ SetWrite(A, u, tag) \in State
  BY <1>1, SetReadIs, SetWriteIs
<1> QED BY <1>1, <1>2, UpdateFirstIs DEF Update

\* What a command of c leaves alone.
Frame(c) ==
    /\ DOMAIN access' = CmdBuf /\ log_size' = [d \in CmdBuf |-> log_size'[d]] /\ DOMAIN history' = CmdBuf /\ DOMAIN executed' = CmdBuf
    /\ ended' = ended /\ reported' \in {reported, reported \cup {c}}
    /\ \A d \in CmdBuf \ {c} : /\ access'[d] = access[d] /\ log_size'[d] = log_size[d]
                               /\ history'[d] = history[d] /\ executed'[d] = executed[d]

LEMMA AccessFrame ==
    ASSUME Typed, NEW c \in CmdBuf, NEW u \in UsedUsages, CmdAccess(c, u)
    PROVE  /\ Frame(c) /\ c \notin reported /\ executed' = executed
           /\ history'[c] = Accessed(history[c], u)
           /\ IF DetectHazard(access[c], u, NonAttachment)
              THEN c \in reported' /\ access' = access /\ log_size' = log_size
              ELSE /\ c \notin reported'
                   /\ access'[c] = Update(access[c], u, log_size[c]) /\ log_size'[c] = log_size[c] + 1
<1>1. history' = [history EXCEPT ![c] = Accessed(history[c], u)] /\ c \notin ended \cup reported
  BY Zenon DEF CmdAccess, Recording
<1>2. CASE DetectHazard(access[c], u, NonAttachment)
  BY <1>1, <1>2 DEF Typed, CmdAccess, Report, Frame
<1>3. CASE ~DetectHazard(access[c], u, NonAttachment)
  <2>1. /\ access' = [access EXCEPT ![c] = Update(access[c], u, log_size[c])]
        /\ log_size' = [log_size EXCEPT ![c] = log_size[c] + 1]
        /\ UNCHANGED <<ended, executed, reported>>
    BY <1>3, Zenon DEF CmdAccess
  <2> QED BY <1>1, <1>3, <2>1 DEF Typed, Frame
<1> QED BY <1>2, <1>3

LEMMA BarrierFrame ==
    ASSUME Typed, NEW c \in CmdBuf, NEW B \in BarrierSets, CmdPipelineBarrier(c, B)
    PROVE  /\ Frame(c) /\ c \notin reported /\ executed' = executed
           /\ history'[c] = Barriered(history[c], Scopes(B))
           /\ IF TransitionHazard(access[c], Scopes(B))
              THEN c \in reported' /\ access' = access /\ log_size' = log_size
              ELSE /\ c \notin reported'
                   /\ access'[c] = ApplyBarriers(access[c], Scopes(B), log_size[c]) /\ log_size'[c] = log_size[c] + 1
<1>1. history' = [history EXCEPT ![c] = Barriered(history[c], Scopes(B))] /\ c \notin ended \cup reported
  BY Zenon DEF CmdPipelineBarrier, Recording
<1>2. CASE TransitionHazard(access[c], Scopes(B))
  BY <1>1, <1>2 DEF Typed, CmdPipelineBarrier, Report, Frame
<1>3. CASE ~TransitionHazard(access[c], Scopes(B))
  <2>1. /\ access' = [access EXCEPT ![c] = ApplyBarriers(access[c], Scopes(B), log_size[c])]
        /\ log_size' = [log_size EXCEPT ![c] = log_size[c] + 1]
        /\ UNCHANGED <<ended, executed, reported>>
    BY <1>3, Zenon DEF CmdPipelineBarrier
  <2> QED BY <1>1, <1>3, <2>1 DEF Typed, Frame
<1> QED BY <1>2, <1>3

LEMMA ExecuteFrame ==
    ASSUME Typed, NEW p \in Primary, NEW list \in ExecuteLists, CmdExecuteCommands(p, list)
    PROVE  p \in CmdBuf /\ Frame(p) /\ executed'[p].done
<1>1. p \in CmdBuf
  BY DEF CmdBuf
<1> DEFINE R == RecordExecuted(p, Len(list))
           done == [done |-> TRUE, from |-> Len(history[p]), to |-> Len(history'[p]),
                    firsts |-> Len(access[list[1]].firsts) + Len(list) - 1]
<1>2. /\ history' = [history EXCEPT ![p] = HistoryOf(@, list)]
      /\ executed' = [executed EXCEPT ![p] = done]
      /\ ended' = ended /\ reported' \in {reported, reported \cup {p}}
      /\ access' = access \/ access' = [access EXCEPT ![p] = R.A]
      /\ log_size' = log_size \/ log_size' = [log_size EXCEPT ![p] = R.size]
  BY DEF CmdExecuteCommands
<1>3. done.done
  OBVIOUS
<1> HIDE DEF R, done
<1> QED BY <1>1, <1>2, <1>3 DEF Typed, Frame

LEMMA ResetFrame ==
    ASSUME ResetCommandPool, NEW c \in CmdBuf
    PROVE  access'[c] = Untouched /\ log_size'[c] = 0 /\ history'[c] = << >> /\ c \notin reported'
BY DEF ResetCommandPool

LEMMA UntouchedFacts ==
    /\ Untouched \in State /\ ~HasWrite(Untouched)
    /\ DOMAIN Untouched.reads = {} /\ Untouched.read_exec = {} /\ Untouched.firsts = << >>
<1>1. DOMAIN NoReads = {} /\ NoReads \in UNION {[S -> ReadState] : S \in SUBSET Stages}
  <2>1. NoReads \in [{} -> ReadState]
    BY DEF NoReads
  <2> QED BY <2>1, StateReads
<1>2. NonAttachment \in OrderingBarrier /\ << >> \in Seq([tag : Nat, usage : Usages \cup {Transition}])
  BY DEF NonAttachment, OrderingBarrier
<1> QED BY <1>1, <1>2 DEF Untouched, State, HasWrite

LEMMA TypedInit == Init => Typed
BY UntouchedFacts DEF Init, Typed

LEMMA TypedStep == Typed /\ [Next]_vars => Typed'
<1> SUFFICES ASSUME Typed, [Next]_vars PROVE Typed'
  OBVIOUS
\* A command of c keeps the types if it keeps those of c.
<1>1. ASSUME NEW c \in CmdBuf, Frame(c), ~executed'[c].done => access'[c] \in State /\ log_size'[c] \in Nat PROVE Typed'
  BY <1>1 DEF Typed, Frame
<1>2. ASSUME NEW c \in CmdBuf, NEW u \in UsedUsages, CmdAccess(c, u) PROVE Typed'
  <2>1. u \in Usages
    BY SyncAssumption
  <2>2. ASSUME ~executed'[c].done PROVE access'[c] \in State /\ log_size'[c] \in Nat
    <3>1. access[c] \in State /\ log_size[c] \in Nat
      BY <1>2, <2>2, AccessFrame DEF Typed
    <3>2. Update(access[c], u, log_size[c]) \in State
      BY <2>1, <3>1, UpdateState
    <3> QED BY <1>2, <3>1, <3>2, AccessFrame
  <2> QED BY <1>1, <1>2, <2>2, AccessFrame
<1>3. ASSUME NEW c \in CmdBuf, NEW B \in BarrierSets, CmdPipelineBarrier(c, B) PROVE Typed'
  <2>1. ASSUME ~executed'[c].done PROVE access'[c] \in State /\ log_size'[c] \in Nat
    <3>1. access[c] \in State /\ log_size[c] \in Nat
      BY <1>3, <2>1, BarrierFrame DEF Typed
    <3>2. ApplyBarriers(access[c], Scopes(B), log_size[c]) \in State
      BY <3>1, ApplyState, ScopesIs
    <3> QED BY <1>3, <3>1, <3>2, BarrierFrame
  <2> QED BY <1>1, <1>3, <2>1, BarrierFrame
<1>4. ASSUME NEW p \in Primary, NEW list \in ExecuteLists, CmdExecuteCommands(p, list) PROVE Typed'
  BY <1>1, <1>4, ExecuteFrame
<1>5. ASSUME NEW c \in Secondary, EndCommandBuffer(c) PROVE Typed'
  BY <1>5 DEF EndCommandBuffer, Typed, CmdBuf
<1>6. CASE ResetCommandPool
  BY <1>6, UntouchedFacts DEF ResetCommandPool, Typed
<1>7. CASE UNCHANGED vars
  BY <1>7 DEF Typed, vars
<1> QED BY <1>2, <1>3, <1>4, <1>5, <1>6, <1>7 DEF Next

-----------------------------------------------------------------------------
(* The summary of every command buffer *)

LEMMA NothingStands == StandsFor(Untouched, << >>) /\ Clean(<< >>)
<1>1. DOMAIN << >> = {} /\ << >> \in Seq(Access)
  OBVIOUS
<1>2. IsHistory(<< >>) /\ Clean(<< >>)
  BY <1>1 DEF IsHistory, Clean
<1>3. Recent(<< >>) = {}
  BY <1>1 DEF Recent
<1>4. RecentWrites(<< >>) = {} /\ \A s : RecentReads(<< >>, s) = {}
  BY <1>3 DEF RecentWrites, RecentReads
<1>5. WriteStands(Untouched, << >>)
  BY <1>1, <1>4, UntouchedFacts DEF WriteStands
<1>6. ReadsStand(Untouched, << >>)
  BY <1>4, UntouchedFacts DEF ReadsStand
<1>7. ReadsComplete(Untouched, << >>)
  BY UntouchedFacts DEF ReadsComplete
<1> QED BY <1>2, <1>5, <1>6, <1>7 DEF StandsFor

LEMMA SummaryInit == Init => Summary
BY NothingStands, HistoryFacts DEF Init, Summary, StandsFor

LEMMA SummaryStep ==
    ASSUME TransitionsAlone, Typed, Summary, [Next]_vars
    PROVE  Summary'
\* A command of c keeps the summaries if it keeps that of c.
<1>1. ASSUME NEW c \in CmdBuf, Frame(c),
             ~executed'[c].done =>
                /\ history'[c] \in Seq(Access)
                /\ c \notin reported' => StandsFor(access'[c], history'[c]) /\ Clean(history'[c])
                /\ c \in reported' /\ ReadOnce(history'[c]) => ~Clean(history'[c])
      PROVE  Summary'
  BY <1>1 DEF Summary, Frame
<1>2. ASSUME NEW c \in CmdBuf, NEW u \in UsedUsages, CmdAccess(c, u) PROVE Summary'
  <2>1. u \in Usages
    BY SyncAssumption
  <2>2. ASSUME ~executed'[c].done
        PROVE  /\ history'[c] \in Seq(Access)
               /\ c \notin reported' => StandsFor(access'[c], history'[c]) /\ Clean(history'[c])
               /\ c \in reported' /\ ReadOnce(history'[c]) => ~Clean(history'[c])
    <3>1. access[c] \in State /\ log_size[c] \in Nat /\ StandsFor(access[c], history[c]) /\ Clean(history[c])
      BY <1>2, <2>2, AccessFrame DEF Typed, Summary
    <3>2. /\ Accessed(history[c], u) \in Seq(Access)
          /\ DetectHazard(access[c], u, NonAttachment) /\ ReadOnce(Accessed(history[c], u)) => ~Clean(Accessed(history[c], u))
          /\ ~DetectHazard(access[c], u, NonAttachment) =>
                /\ StandsFor(Update(access[c], u, log_size[c]), Accessed(history[c], u))
                /\ Clean(Accessed(history[c], u))
      BY <2>1, <3>1, CmdAccessStep
    <3> QED BY <1>2, <3>2, AccessFrame
  <2> QED BY <1>1, <1>2, <2>2, AccessFrame
<1>3. ASSUME NEW c \in CmdBuf, NEW B \in BarrierSets, CmdPipelineBarrier(c, B) PROVE Summary'
  <2>1. ASSUME ~executed'[c].done
        PROVE  /\ history'[c] \in Seq(Access)
               /\ c \notin reported' => StandsFor(access'[c], history'[c]) /\ Clean(history'[c])
               /\ c \in reported' /\ ReadOnce(history'[c]) => ~Clean(history'[c])
    <3>1. access[c] \in State /\ log_size[c] \in Nat /\ StandsFor(access[c], history[c]) /\ Clean(history[c])
      BY <1>3, <2>1, BarrierFrame DEF Typed, Summary
    <3>2. PICK S \in SUBSET Scope : S = Scopes(B)
      BY ScopesIs
    <3>3. (\A b \in S : b.transition => S = {b}) /\ \A b \in S : Narrow(b)
      BY <3>2, ScopesIs
    <3>4. /\ Barriered(history[c], S) \in Seq(Access)
          /\ TransitionHazard(access[c], S) /\ ReadOnce(Barriered(history[c], S)) => ~Clean(Barriered(history[c], S))
          /\ ~TransitionHazard(access[c], S) =>
                /\ StandsFor(ApplyBarriers(access[c], S, log_size[c]), Barriered(history[c], S))
                /\ Clean(Barriered(history[c], S))
      BY <3>1, <3>3, CmdBarrierStep
    <3> QED BY <1>3, <3>2, <3>4, BarrierFrame
  <2> QED BY <1>1, <1>3, <2>1, BarrierFrame
<1>4. ASSUME NEW p \in Primary, NEW list \in ExecuteLists, CmdExecuteCommands(p, list) PROVE Summary'
  BY <1>1, <1>4, ExecuteFrame
<1>5. ASSUME NEW c \in Secondary, EndCommandBuffer(c) PROVE Summary'
  BY <1>5 DEF EndCommandBuffer, Summary
<1>6. CASE ResetCommandPool
  <2>1. << >> \in Seq(Access)
    OBVIOUS
  <2> QED BY <1>6, <2>1, ResetFrame, NothingStands DEF Summary
<1>7. CASE UNCHANGED vars
  BY <1>7 DEF Summary, vars
<1> QED BY <1>2, <1>3, <1>4, <1>5, <1>6, <1>7 DEF Next

-----------------------------------------------------------------------------
(* The tags of every command buffer *)

FirstsOrdered(A) ==
    \A i, j \in DOMAIN A.firsts : i < j =>
        /\ A.firsts[i].tag < A.firsts[j].tag
        /\ IsRead(A.firsts[i].usage)
        /\ A.firsts[i].usage # A.firsts[j].usage

LEMMA FirstsFacts ==
    ASSUME NEW A \in State
    PROVE  /\ A.firsts \in Seq(First) /\ DOMAIN A.firsts = 1 .. Len(A.firsts) /\ Len(A.firsts) \in Nat
           /\ \A i \in DOMAIN A.firsts : A.firsts[i].tag \in Nat
<1>1. A.firsts \in Seq(First)
  BY StateFacts
<1>2. DOMAIN A.firsts = 1 .. Len(A.firsts) /\ Len(A.firsts) \in Nat /\ \A i \in DOMAIN A.firsts : A.firsts[i] \in First
  BY <1>1
<1>3. \A a \in First : a.tag \in Nat
  BY DEF First
<1> QED BY <1>1, <1>2, <1>3

LEMMA FirstsStep ==
    ASSUME NEW A \in State, NEW u \in AnyUsage, NEW tag \in Nat, FirstsIn(A, tag), FirstsOrdered(A)
    PROVE  FirstsIn(UpdateFirst(A, tag, u), tag + 1) /\ FirstsOrdered(UpdateFirst(A, tag, u))
<1>1. PICK R : R = UpdateFirst(A, tag, u)
  OBVIOUS
<1>2. /\ A.firsts \in Seq(First) /\ DOMAIN A.firsts = 1 .. Len(A.firsts) /\ Len(A.firsts) \in Nat
      /\ \A i \in DOMAIN A.firsts : A.firsts[i].tag \in Nat
  BY FirstsFacts
<1>3. \A i \in DOMAIN A.firsts : A.firsts[i].tag < tag + 1
  BY <1>2 DEF FirstsIn
<1>4. CASE R.firsts = A.firsts /\ A.first_reads \subseteq R.first_reads
  BY <1>1, <1>3, <1>4 DEF FirstsIn, FirstsOrdered
<1>5. CASE /\ A.firsts = << >> \/ IsRead(Last(A.firsts).usage)
           /\ IsRead(u) => u.stage \notin A.first_reads /\ R.first_reads = A.first_reads \cup {u.stage}
           /\ ~IsRead(u) => R.first_reads = A.first_reads
           /\ R.firsts = Append(A.firsts, [tag |-> tag, usage |-> u])
  <2> DEFINE n == Len(A.firsts) + 1
             a == [tag |-> tag, usage |-> u]
  <2>1. a \in First /\ a.tag = tag /\ a.usage = u
    BY DEF First
  <2> HIDE DEF a
  <2>2. /\ DOMAIN R.firsts = 1 .. n /\ R.firsts[n] = a
        /\ \A i \in 1 .. Len(A.firsts) : R.firsts[i] = A.firsts[i]
    BY <1>2, <1>5, <2>1, AppendProperties DEF a
  <2>3. \A i \in 1 .. Len(A.firsts) : IsRead(A.firsts[i].usage)
    <3>1. ASSUME NEW i \in 1 .. Len(A.firsts) PROVE IsRead(A.firsts[i].usage)
      <4>1. A.firsts # << >> /\ Len(A.firsts) \in DOMAIN A.firsts
        BY <1>2
      <4>2. Last(A.firsts) = A.firsts[Len(A.firsts)]
        BY DEF Last
      <4>3. CASE i = Len(A.firsts)
        BY <1>5, <4>1, <4>2, <4>3
      <4>4. CASE i < Len(A.firsts)
        BY <1>2, <4>1, <4>4 DEF FirstsOrdered
      <4> QED BY <1>2, <4>3, <4>4
    <3> QED BY <3>1
  <2>4. \A i \in 1 .. Len(A.firsts) : A.firsts[i].usage # u
    BY <1>2, <1>5, <2>3 DEF FirstsIn
  <2>5. \A i \in 1 .. n : R.firsts[i].tag < tag + 1
    <3>1. \A i \in 1 .. n : i \in 1 .. Len(A.firsts) \/ i = n
      BY <1>2
    <3> HIDE DEF n
    <3> QED BY <1>2, <1>3, <2>1, <2>2, <3>1
  <2>6. \A i \in 1 .. n : IsRead(R.firsts[i].usage) => R.firsts[i].usage.stage \in R.first_reads
    <3>1. \A i \in 1 .. n : i \in 1 .. Len(A.firsts) \/ i = n
      BY <1>2
    <3> HIDE DEF n
    <3> QED BY <1>2, <1>5, <2>1, <2>2, <3>1 DEF FirstsIn
  <2>7. ASSUME NEW i \in 1 .. n, NEW j \in 1 .. n, i < j
        PROVE  /\ R.firsts[i].tag < R.firsts[j].tag
               /\ IsRead(R.firsts[i].usage)
               /\ R.firsts[i].usage # R.firsts[j].usage
    <3>1. i \in 1 .. Len(A.firsts) /\ (j \in 1 .. Len(A.firsts) \/ j = n)
      <4>1. Len(A.firsts) \in Nat /\ n = Len(A.firsts) + 1
        BY <1>2
      <4> HIDE DEF n
      <4> QED BY <2>7, <4>1
    <3>2. CASE j \in 1 .. Len(A.firsts)
      BY <1>2, <2>2, <2>7, <3>1, <3>2 DEF FirstsOrdered
    <3>3. CASE j = n
      <4>1. R.firsts[i] = A.firsts[i] /\ R.firsts[j] = a
        BY <2>2, <3>1, <3>3
      <4> QED BY <1>2, <2>1, <2>3, <2>4, <3>1, <4>1 DEF FirstsIn
    <3> QED BY <3>1, <3>2, <3>3
  <2> HIDE DEF n
  <2>8. FirstsIn(R, tag + 1)
    BY <2>2, <2>5, <2>6 DEF FirstsIn
  <2>9. FirstsOrdered(R)
    BY <2>2, <2>7 DEF FirstsOrdered
  <2> QED BY <1>1, <2>8, <2>9
<1> QED BY <1>1, <1>4, <1>5, UpdateFirstIs

LEMMA TagsInIs ==
    ASSUME NEW A \in State, NEW size \in Nat, FirstsIn(A, size), FirstsOrdered(A),
           HasWrite(A) => A.write_tag < size,
           \A s \in DOMAIN A.reads : A.reads[s].tag < size /\ (HasWrite(A) => A.write_tag < A.reads[s].tag)
    PROVE  TagsIn(A, size)
<1>1. A.firsts # << >> => Last(A.firsts).tag < size
  <2>1. ASSUME A.firsts # << >> PROVE Len(A.firsts) \in DOMAIN A.firsts
    BY <2>1, StateFacts
  <2> QED BY <2>1 DEF FirstsIn, Last
<1> QED BY <1>1 DEF TagsIn, FirstsOrdered

LEMMA UpdateTags ==
    ASSUME NEW A \in State, NEW u \in Usages, NEW tag \in Nat, TagsIn(A, tag), FirstsIn(A, tag)
    PROVE  TagsIn(Update(A, u, tag), tag + 1) /\ FirstsIn(Update(A, u, tag), tag + 1)
<1>1. u \in AnyUsage /\ u.stage \in Stages
  BY UsageFacts DEF AnyUsage
<1>2. PICK S : S = IF IsRead(u) THEN SetRead(A, u.stage, tag) ELSE SetWrite(A, u, tag)
  OBVIOUS
<1>3. PICK R : R = UpdateFirst(S, tag, u) /\ R = Update(A, u, tag)
  BY <1>2 DEF Update
<1>4. S \in State /\ S.firsts = A.firsts /\ S.first_reads = A.first_reads
  <2>1. CASE IsRead(u)
    <3>1. S = SetRead(A, u.stage, tag)
      BY <1>2, <2>1
    <3>2. SetRead(A, u.stage, tag) \in State /\ ReadSet(A, SetRead(A, u.stage, tag), u.stage, tag)
      BY <1>1, SetReadIs
    <3>3. S \in State /\ ReadSet(A, S, u.stage, tag)
      BY <3>1, <3>2
    <3> QED BY <3>3 DEF ReadSet
  <2>2. CASE ~IsRead(u)
    <3>1. S = SetWrite(A, u, tag)
      BY <1>2, <2>2
    <3> QED BY <1>1, <3>1, SetWriteIs
  <2> QED BY <2>1, <2>2
<1>5. FirstsOrdered(A)
  BY DEF TagsIn, FirstsOrdered
<1>6. FirstsIn(S, tag) /\ FirstsOrdered(S)
  BY <1>4, <1>5 DEF FirstsIn, FirstsOrdered
<1>7. R \in State /\ SameRecent(S, R) /\ FirstsIn(R, tag + 1) /\ FirstsOrdered(R)
  <2>1. FirstsIn(R, tag + 1) /\ FirstsOrdered(R)
    BY <1>1, <1>3, <1>4, <1>6, FirstsStep
  <2>2. UpdateFirst(S, tag, u) \in State /\ SameRecent(S, UpdateFirst(S, tag, u))
    BY <1>1, <1>4, UpdateFirstIs
  <2> QED BY <1>3, <2>1, <2>2
<1>8. /\ HasWrite(S) => S.write_tag < tag + 1
      /\ \A s \in DOMAIN S.reads : S.reads[s].tag < tag + 1 /\ (HasWrite(S) => S.write_tag < S.reads[s].tag)
  <2>1. CASE IsRead(u)
    <3>1. PICK x \in Stages : x = u.stage
      BY <1>1
    <3>2. /\ S.last_write = A.last_write /\ S.write_tag = A.write_tag /\ DOMAIN S.reads = DOMAIN A.reads \cup {x}
          /\ S.reads[x] = [barriers |-> {}, sync_stages |-> {}, tag |-> tag]
          /\ \A s \in DOMAIN A.reads : s # x => S.reads[s].tag = A.reads[s].tag
      BY <1>2, <2>1, <3>1, SetReadIs DEF ReadSet
    <3>3. S.reads[x].tag = tag /\ (HasWrite(S) <=> HasWrite(A))
      BY <3>2 DEF HasWrite
    <3>4. A.write_tag \in Nat /\ \A s \in DOMAIN A.reads : A.reads[s].tag \in Nat
      BY StateFacts
    <3>5. /\ HasWrite(A) => A.write_tag < tag
          /\ \A s \in DOMAIN A.reads : A.reads[s].tag < tag /\ (HasWrite(A) => A.write_tag < A.reads[s].tag)
      BY DEF TagsIn
    <3>6. HasWrite(S) => S.write_tag < tag + 1
      BY <3>2, <3>3, <3>4, <3>5
    <3>7. ASSUME NEW s \in DOMAIN S.reads PROVE S.reads[s].tag < tag + 1 /\ (HasWrite(S) => S.write_tag < S.reads[s].tag)
      <4>1. CASE s = x
        BY <3>2, <3>3, <3>5, <4>1
      <4>2. CASE s # x
        BY <3>2, <3>3, <3>4, <3>5, <4>2
      <4> QED BY <4>1, <4>2
    <3> QED BY <3>6, <3>7
  <2>2. CASE ~IsRead(u)
    <3>1. S.write_tag = tag /\ DOMAIN S.reads = {}
      BY <1>1, <1>2, <2>2, SetWriteIs
    <3> QED BY <3>1
  <2> QED BY <2>1, <2>2
<1>9. /\ HasWrite(R) => R.write_tag < tag + 1
      /\ \A s \in DOMAIN R.reads : R.reads[s].tag < tag + 1 /\ (HasWrite(R) => R.write_tag < R.reads[s].tag)
  BY <1>7, <1>8 DEF SameRecent, HasWrite
<1> QED BY <1>3, <1>7, <1>9, TagsInIs

LEMMA ApplyTags ==
    ASSUME NEW A \in State, NEW B \in SUBSET Scope, NEW tag \in Nat, TagsIn(A, tag), FirstsIn(A, tag)
    PROVE  TagsIn(ApplyBarriers(A, B, tag), tag + 1) /\ FirstsIn(ApplyBarriers(A, B, tag), tag + 1)
<1>1. PICK R : R = ApplyBarriers(A, B, tag)
  OBVIOUS
<1>2. FirstsOrdered(A)
  BY DEF TagsIn, FirstsOrdered
<1>3. CASE \E b \in B : b.transition
  <2>1. PICK W : W = SetWrite(A, Transition, tag)
    OBVIOUS
  <2>2. PICK F : F = UpdateFirst(W, tag, Transition)
    OBVIOUS
  <2>3. W \in State /\ W.firsts = A.firsts /\ W.first_reads = A.first_reads
    BY <2>1, SetWriteIs, UsageFacts
  <2>4. FirstsIn(W, tag) /\ FirstsOrdered(W)
    BY <1>2, <2>3 DEF FirstsIn, FirstsOrdered
  <2>5. FirstsIn(F, tag + 1) /\ FirstsOrdered(F)
    BY <2>2, <2>3, <2>4, FirstsStep, UsageFacts
  <2>6. R \in State /\ R.write_tag = tag /\ DOMAIN R.reads = {} /\ R.firsts = F.firsts /\ R.first_reads = F.first_reads
    BY <1>1, <1>3, <2>1, <2>2, ApplyTransitionIs
  <2>7. FirstsIn(R, tag + 1) /\ FirstsOrdered(R)
    BY <2>5, <2>6 DEF FirstsIn, FirstsOrdered
  <2>8. R.write_tag < tag + 1
    BY <2>6
  <2> QED BY <1>1, <2>6, <2>7, <2>8, TagsInIs
<1>4. CASE \A b \in B : ~b.transition
  <2>1. /\ R \in State /\ R.last_write = A.last_write /\ R.write_tag = A.write_tag
        /\ R.firsts = A.firsts /\ R.first_reads = A.first_reads
        /\ DOMAIN R.reads = DOMAIN A.reads /\ \A s \in DOMAIN A.reads : R.reads[s].tag = A.reads[s].tag
    BY <1>1, <1>4, ApplyPlainIs
  <2>2. A.write_tag \in Nat /\ \A s \in DOMAIN A.reads : A.reads[s].tag \in Nat
    BY StateFacts
  <2>3. /\ HasWrite(A) => A.write_tag < tag
        /\ \A s \in DOMAIN A.reads : A.reads[s].tag < tag /\ (HasWrite(A) => A.write_tag < A.reads[s].tag)
    BY DEF TagsIn
  <2>4. HasWrite(R) <=> HasWrite(A)
    BY <2>1 DEF HasWrite
  <2>5. FirstsOrdered(R)
    BY <1>2, <2>1 DEF FirstsOrdered
  <2>6. FirstsIn(R, tag + 1)
    <3>1. \A i \in DOMAIN A.firsts : A.firsts[i].tag \in Nat
      BY FirstsFacts
    <3> QED BY <2>1, <3>1 DEF FirstsIn
  <2>7. HasWrite(R) => R.write_tag < tag + 1
    BY <2>1, <2>2, <2>3, <2>4
  <2>8. \A s \in DOMAIN R.reads : R.reads[s].tag < tag + 1 /\ (HasWrite(R) => R.write_tag < R.reads[s].tag)
    BY <2>1, <2>2, <2>3, <2>4
  <2> QED BY <1>1, <2>1, <2>5, <2>6, <2>7, <2>8, TagsInIs
<1> QED BY <1>3, <1>4

LEMMA TagsInit == Init => Tags
<1>1. TagsIn(Untouched, 0) /\ FirstsIn(Untouched, 0)
  BY UntouchedFacts DEF TagsIn, FirstsIn
<1> QED BY <1>1 DEF Init, Tags

LEMMA TagsStep ==
    ASSUME Typed, Tags, [Next]_vars
    PROVE  Tags'
\* A command of c keeps the tags in order if it keeps those of c so.
<1>1. ASSUME NEW c \in CmdBuf, Frame(c),
             ~executed'[c].done => TagsIn(access'[c], log_size'[c]) /\ FirstsIn(access'[c], log_size'[c])
      PROVE  Tags'
  BY <1>1 DEF Tags, Frame
<1>2. ASSUME NEW c \in CmdBuf, NEW u \in UsedUsages, CmdAccess(c, u) PROVE Tags'
  <2>1. u \in Usages
    BY SyncAssumption
  <2>2. ASSUME ~executed'[c].done PROVE TagsIn(access'[c], log_size'[c]) /\ FirstsIn(access'[c], log_size'[c])
    <3>1. /\ access[c] \in State /\ log_size[c] \in Nat
          /\ TagsIn(access[c], log_size[c]) /\ FirstsIn(access[c], log_size[c])
      BY <1>2, <2>2, AccessFrame DEF Typed, Tags
    <3>2. /\ TagsIn(Update(access[c], u, log_size[c]), log_size[c] + 1)
          /\ FirstsIn(Update(access[c], u, log_size[c]), log_size[c] + 1)
      BY <2>1, <3>1, UpdateTags
    <3> QED BY <1>2, <3>1, <3>2, AccessFrame
  <2> QED BY <1>1, <1>2, <2>2, AccessFrame
<1>3. ASSUME NEW c \in CmdBuf, NEW B \in BarrierSets, CmdPipelineBarrier(c, B) PROVE Tags'
  <2>1. ASSUME ~executed'[c].done PROVE TagsIn(access'[c], log_size'[c]) /\ FirstsIn(access'[c], log_size'[c])
    <3>1. /\ access[c] \in State /\ log_size[c] \in Nat
          /\ TagsIn(access[c], log_size[c]) /\ FirstsIn(access[c], log_size[c])
      BY <1>3, <2>1, BarrierFrame DEF Typed, Tags
    <3>2. /\ TagsIn(ApplyBarriers(access[c], Scopes(B), log_size[c]), log_size[c] + 1)
          /\ FirstsIn(ApplyBarriers(access[c], Scopes(B), log_size[c]), log_size[c] + 1)
      BY <3>1, ApplyTags, ScopesIs
    <3> QED BY <1>3, <3>1, <3>2, BarrierFrame
  <2> QED BY <1>1, <1>3, <2>1, BarrierFrame
<1>4. ASSUME NEW p \in Primary, NEW list \in ExecuteLists, CmdExecuteCommands(p, list) PROVE Tags'
  BY <1>1, <1>4, ExecuteFrame
<1>5. ASSUME NEW c \in Secondary, EndCommandBuffer(c) PROVE Tags'
  BY <1>5 DEF EndCommandBuffer, Tags
<1>6. CASE ResetCommandPool
  <2>1. TagsIn(Untouched, 0) /\ FirstsIn(Untouched, 0)
    BY UntouchedFacts DEF TagsIn, FirstsIn
  <2> QED BY <1>6, <2>1, ResetFrame DEF Tags
<1>7. CASE UNCHANGED vars
  BY <1>7 DEF Tags, vars
<1> QED BY <1>2, <1>3, <1>4, <1>5, <1>6, <1>7 DEF Next

-----------------------------------------------------------------------------
(* The theorems *)

\* The values of the variables are of their types, whatever is recorded: for every set of
\* stages, of barriers and of command buffers, of every length.
THEOREM SyncTyped == Spec => []Typed
BY TypedInit, TypedStep, PTL DEF Spec

\* The tags in the access context of a command buffer that executed no other are in order and
\* name entries of its log, as FormatUsage() and ValidateFirstUse() take for granted.
THEOREM SyncTags == Spec => []Tags
<1>1. Typed /\ Tags /\ [Next]_vars => Tags'
  BY TagsStep
<1> QED BY <1>1, TagsInit, SyncTyped, PTL DEF Spec

\* The ResourceAccessState of a command buffer that executed no other stands for the whole
\* history of its accesses: the layer reports a hazard at the first access that nothing orders
\* after one it conflicts with, however far back, and not before.
THEOREM SyncSummary ==
    ASSUME TransitionsAlone
    PROVE  Spec => []Summary
<1>1. Typed /\ Summary /\ [Next]_vars => Summary'
  BY SummaryStep
<1> QED BY <1>1, SummaryInit, SyncTyped, PTL DEF Spec

\* Without vkCmdExecuteCommands no command buffer has executed another.
NoneExecuted == \A c \in CmdBuf : ~executed[c].done

LEMMA NoneExecutes ==
    ASSUME ExecuteLists = {}
    PROVE  Spec => []NoneExecuted
<1>1. Init => NoneExecuted
  BY DEF Init, NoneExecuted, NothingExecuted
<1>2. ASSUME Typed, NoneExecuted, [Next]_vars PROVE NoneExecuted'
  <2>1. ASSUME NEW c \in CmdBuf, NEW u \in UsedUsages, CmdAccess(c, u) PROVE NoneExecuted'
    BY <1>2, <2>1, AccessFrame DEF NoneExecuted
  <2>2. ASSUME NEW c \in CmdBuf, NEW B \in BarrierSets, CmdPipelineBarrier(c, B) PROVE NoneExecuted'
    BY <1>2, <2>2, BarrierFrame DEF NoneExecuted
  <2>3. ASSUME NEW c \in Secondary, EndCommandBuffer(c) PROVE NoneExecuted'
    BY <1>2, <2>3 DEF EndCommandBuffer, NoneExecuted
  <2>4. CASE ResetCommandPool
    BY <2>4 DEF ResetCommandPool, NoneExecuted, NothingExecuted
  <2>5. CASE UNCHANGED vars
    BY <1>2, <2>5 DEF vars, NoneExecuted
  <2> QED BY <1>2, <2>1, <2>2, <2>3, <2>4, <2>5 DEF Next
<1> QED BY <1>1, <1>2, SyncTyped, PTL DEF Spec

LEMMA HazardsClean ==
    ASSUME NEW h \in Seq(Access)
    PROVE  Hazards(h) = {} <=> Clean(h)
<1>1. DOMAIN h = 1 .. Len(h)
  OBVIOUS
<1>2. ASSUME Hazards(h) = {}, NEW i \in DOMAIN h, NEW j \in DOMAIN h, i < j, Conflict(h[i].usage, h[j].usage)
      PROVE  j \in h[i].before
  <2>1. <<i, j>> \in (1 .. Len(h)) \X (1 .. Len(h))
    BY <1>1
  <2>2. <<i, j>>[1] = i /\ <<i, j>>[2] = j
    OBVIOUS
  <2> QED BY <1>2, <2>1, <2>2 DEF Hazards
<1>3. ASSUME Clean(h), NEW p \in Hazards(h) PROVE FALSE
  BY <1>1, <1>3 DEF Clean, Hazards
<1> QED BY <1>2, <1>3 DEF Clean

\* Every field of the access contexts holds a value of its type.
THEOREM SyncTypeCorrect ==
    ASSUME ExecuteLists = {}
    PROVE  Spec => []TypeOK
<1>1. Typed /\ NoneExecuted => TypeOK
  <2>1. SUFFICES ASSUME Typed, NoneExecuted PROVE TypeOK
    OBVIOUS
  <2>2. ASSUME NEW A \in State PROVE IsResourceAccessState(A)
    <3>1. A.reads \in [DOMAIN A.reads -> ReadState] /\ DOMAIN A.reads \in SUBSET Stages
      BY StateFacts
    <3> QED BY <3>1, StateFacts, StateIs
  <2>3. log_size \in [CmdBuf -> Nat]
    BY <2>1 DEF Typed, NoneExecuted
  <2> QED BY <2>1, <2>2, <2>3 DEF Typed, NoneExecuted, TypeOK
<1> QED BY <1>1, SyncTyped, NoneExecutes, PTL

\* The tags of a context name entries of its access log and are in order.
THEOREM SyncTagsInOrder ==
    ASSUME ExecuteLists = {}
    PROVE  Spec => []TagsInOrder
<1>1. Tags => TagsInOrder
  BY DEF Tags, TagsInOrder
<1> QED BY <1>1, SyncTags, PTL

\* The summary loses no hazard: while nothing is reported, any two conflicting accesses of a
\* command buffer are ordered, however many commands, stages and barriers are between them.
THEOREM SyncMissesNone ==
    ASSUME ExecuteLists = {}, TransitionsAlone
    PROVE  Spec => []NoMissedHazard
<1>1. Typed /\ NoneExecuted /\ Summary => NoMissedHazard
  <2>1. SUFFICES ASSUME Typed, NoneExecuted, Summary, NEW c \in CmdBuf \ reported PROVE Hazards(history[c]) = {}
    BY DEF NoMissedHazard
  <2>2. IsHistory(history[c]) /\ Clean(history[c])
    BY <2>1 DEF NoneExecuted, Summary, StandsFor
  <2> QED BY <2>2, HistoryFacts, HazardsClean
<1> QED BY <1>1, SyncTyped, NoneExecutes, SyncSummary, PTL

\* And it invents none: if no stage reads twice between two writes, a hazard is reported only
\* where the history holds a conflicting pair that nothing orders.
THEOREM SyncInventsNone ==
    ASSUME ExecuteLists = {}, TransitionsAlone
    PROVE  Spec => []NoFalseHazard
<1>1. Typed /\ NoneExecuted /\ Summary => NoFalseHazard
  <2>1. SUFFICES ASSUME Typed, NoneExecuted, Summary, NEW c \in reported, ReadOnce(history[c]) PROVE Hazards(history[c]) # {}
    BY DEF NoFalseHazard
  <2>2. history[c] \in Seq(Access) /\ ~Clean(history[c])
    BY <2>1 DEF Typed, NoneExecuted, Summary
  <2> QED BY <2>2, HazardsClean
<1> QED BY <1>1, SyncTyped, NoneExecutes, SyncSummary, PTL

=============================================================================
