----------------------------- MODULE TreeProofs -----------------------------
(* Theorems about ObjectTree, for any number of threads, objects, command     *)
(* buffers and descriptors: types; the links and walks, of which Safe is      *)
(* inductive for an application that does not race with its own calls; and    *)
(* Complete, which is inductive for an application without bad habits.        *)
EXTENDS TreeInv, TLAPS, SequenceTheorems

USE DEF nodeVars, cbVars, hostVars, appVars, useVars

-----------------------------------------------------------------------------
(* Kinds of nodes *)

\* The kinds of handles are disjoint, and None is no handle.
LEMMA Kinds ==
    /\ None \notin Node
    /\ Image \cap View = {} /\ Image \cap Set = {} /\ Image \cap CB = {}
    /\ View \cap Set = {} /\ View \cap CB = {} /\ Set \cap CB = {}
    /\ Primary \cap Secondary = {}
<1> DEFINE kind == <<Image, View, Set, Primary, Secondary>>
<1>1. DOMAIN kind = 1..5
  OBVIOUS
<1>2. \A i, j \in 1..5 : None \notin kind[i] /\ (i # j => kind[i] \cap kind[j] = {})
  BY <1>1, ObjectTreeAssumption
<1>3. /\ None \notin Image /\ None \notin View /\ None \notin Set
      /\ None \notin Primary /\ None \notin Secondary
  BY <1>2
<1>4. /\ Image \cap View = {} /\ Image \cap Set = {} /\ Image \cap Primary = {} /\ Image \cap Secondary = {}
      /\ View \cap Set = {} /\ View \cap Primary = {} /\ View \cap Secondary = {}
      /\ Set \cap Primary = {} /\ Set \cap Secondary = {} /\ Primary \cap Secondary = {}
  BY <1>2
<1> QED BY <1>3, <1>4 DEF Node, Object, CB

\* What an object stands on: its views and their images.
InBelow(n, x) ==
    \/ x = n
    \/ n \in Set /\ \E k \in Slot : x = slot[n][k] /\ x # None
    \/ n \in View /\ x = image_of[n] /\ x # None
    \/ n \in Set /\ \E k \in Slot : slot[n][k] # None /\ x = image_of[slot[n][k]] /\ x # None

LEMMA BelowIs == TypeOK => \A n \in Node : \A x : x \in Below(n) <=> InBelow(n, x)
<1> SUFFICES ASSUME TypeOK, NEW n \in Node, NEW x PROVE x \in Below(n) <=> InBelow(n, x)
  OBVIOUS
<1>1. CASE n \in Set
  <2>1. slot[n] \in [Slot -> View \cup {None}]
    BY <1>1 DEF TypeOK
  <2>2. Range(slot[n]) = {slot[n][k] : k \in Slot}
    BY <2>1 DEF Range
  <2>3. n \notin View
    BY <1>1, Kinds
  <2> QED BY <1>1, <2>2, <2>3 DEF Below, InBelow
<1>2. CASE n \in View
  <2>1. n \notin Set
    BY <1>2, Kinds
  <2> QED BY <1>2, <2>1 DEF Below, InBelow
<1>3. CASE n \notin Set \cup View
  BY <1>3 DEF Below, InBelow
<1> QED BY <1>1, <1>2, <1>3

LEMMA UsesAre ==
    \A c, x : x \in Uses(c) <=> \/ \E n \in used[c] : n \in Object /\ x \in Below(n)
                                \/ x \in used[c] /\ x \in Secondary
                                \/ \E s \in used[c] : s \in Secondary /\ \E n \in used[s] : x \in Below(n)
BY DEF Uses

\* The same of the next state.
LEMMA BelowIsNext == (TypeOK => \A n \in Node : \A x : x \in Below(n) <=> InBelow(n, x))'
BY BelowIs, PTL

LEMMA UsesAreNext ==
    (\A c, x : x \in Uses(c) <=> \/ \E n \in used[c] : n \in Object /\ x \in Below(n)
                                 \/ x \in used[c] /\ x \in Secondary
                                 \/ \E s \in used[c] : s \in Secondary /\ \E n \in used[s] : x \in Below(n))'
BY UsesAre, PTL

-----------------------------------------------------------------------------
(* Activations of a walk *)

Path == Seq(Node) \ {<< >>}
Rest == SUBSET (Node \cup {None})

LEMMA ActivateIs ==
    ASSUME NEW path \in Path, NEW S \in Rest
    PROVE  /\ Activate(path, S) \in Seq(Frame)
           /\ Range(Activate(path, S)) = IF S = {} THEN {} ELSE {[path |-> path, rest |-> S]}
<1>1. CASE S = {}
  BY <1>1, RangeEquality, EmptySeq DEF Activate, Range
<1>2. CASE S # {}
  <2> DEFINE f == [path |-> path, rest |-> S]
  <2>1. f \in Frame
    BY DEF Frame, Path, Rest
  <2> HIDE DEF f
  <2>2. <<f>> \in Seq(Frame) /\ DOMAIN <<f>> = {1} /\ <<f>>[1] = f
    BY <2>1
  <2>3. Range(<<f>>) = {f}
    BY <2>2 DEF Range
  <2> QED BY <1>2, <2>2, <2>3 DEF Activate, f
<1> QED BY <1>1, <1>2

LEMMA SingletonPath ==
    ASSUME NEW n \in Node
    PROVE  <<n>> \in Path /\ Range(<<n>>) = {n}
<1>1. <<n>> \in Seq(Node) /\ DOMAIN <<n>> = {1} /\ <<n>>[1] = n /\ <<n>> # << >>
  OBVIOUS
<1> QED BY <1>1 DEF Path, Range

LEMMA AppendPath ==
    ASSUME NEW path \in Path, NEW n \in Node
    PROVE  Append(path, n) \in Path /\ Range(Append(path, n)) = Range(path) \cup {n}
<1>1. path \in Seq(Node) /\ <<n>> \in Seq(Node) /\ Append(path, n) = path \o <<n>>
  BY DEF Path
<1>2. Append(path, n) \in Seq(Node) /\ Append(path, n) # << >>
  BY <1>1, AppendProperties
<1>3. Range(path \o <<n>>) = Range(path) \cup Range(<<n>>)
  <2>1. PICK r \in Seq(Node) : r = <<n>>
    BY <1>1
  <2>2. Range(path \o r) = Range(path) \cup Range(r)
    BY <1>1, RangeConcatenation
  <2> QED BY <2>1, <2>2
<1> QED BY <1>1, <1>2, <1>3, SingletonPath DEF Path

\* The topmost activation and the ones below it.
LEMMA TopFrame ==
    ASSUME NEW fr \in Seq(Frame), fr # << >>
    PROVE  /\ Last(fr) \in Frame /\ Front(fr) \in Seq(Frame)
           /\ Range(fr) = Range(Front(fr)) \cup {Last(fr)}
<1>1. Len(fr) \in Nat /\ Len(fr) > 0 /\ fr \in [1..Len(fr) -> Frame]
  BY EmptySeq, LenProperties
<1>2. Front(fr) \in Seq(Frame) /\ Len(Front(fr)) = Len(fr) - 1
      /\ \A i \in 1..(Len(fr) - 1) : Front(fr)[i] = fr[i]
  BY <1>1, SubSeqProperties DEF Front
<1>3. Range(Front(fr)) = {fr[i] : i \in 1..(Len(fr) - 1)}
  BY <1>2, RangeEquality
<1>4. Range(fr) = {fr[i] : i \in 1..Len(fr)}
  BY RangeEquality
<1>5. 1..Len(fr) = 1..(Len(fr) - 1) \cup {Len(fr)}
  BY <1>1
<1> QED BY <1>1, <1>2, <1>3, <1>4, <1>5 DEF Last

LEMMA ConcatFrames ==
    \A s, t \in Seq(Frame) : s \o t \in Seq(Frame) /\ Range(s \o t) = Range(s) \cup Range(t)
<1> TAKE s, t \in Seq(Frame)
<1> QED BY ConcatProperties, RangeConcatenation

\* What a visited activation leaves: the frames below it, what it has still to visit,
\* and the activation for the parents of the node it visited.
Kept(top, p) == IF top.rest \ {p} = {} THEN {} ELSE {[path |-> top.path, rest |-> top.rest \ {p}]}
Left(fr, p)  == Front(fr) \o Activate(Last(fr).path, Last(fr).rest \ {p})

LEMMA LeftIs ==
    ASSUME NEW fr \in Seq(Frame), fr # << >>, NEW p
    PROVE  Left(fr, p) \in Seq(Frame) /\ Range(Left(fr, p)) = Range(Front(fr)) \cup Kept(Last(fr), p)
<1>1. Last(fr) \in Frame /\ Front(fr) \in Seq(Frame)
  BY TopFrame
<1>2. Last(fr).path \in Path /\ Last(fr).rest \ {p} \in Rest
  BY <1>1 DEF Frame, Path, Rest
<1> DEFINE a == Activate(Last(fr).path, Last(fr).rest \ {p})
<1>3. a \in Seq(Frame) /\ Range(a) = Kept(Last(fr), p)
  BY <1>2, ActivateIs DEF Kept
<1> HIDE DEF a
<1>4. Front(fr) \o a \in Seq(Frame) /\ Range(Front(fr) \o a) = Range(Front(fr)) \cup Range(a)
  BY <1>1, <1>3, ConcatFrames
<1> QED BY <1>3, <1>4 DEF Left, a

\* A frame after c was freed.
Expired(f, c) == [path |-> f.path, rest |-> IF c \in f.rest THEN (f.rest \ {c}) \cup {None} ELSE f.rest]

LEMMA ExpireIs ==
    ASSUME NEW fr \in [Host -> Seq(Frame)], NEW c
    PROVE  /\ Expire(fr, c) \in [Host -> Seq(Frame)]
           /\ \A h \in Host : \A f \in Range(Expire(fr, c)[h]) : \E e \in Range(fr[h]) : f = Expired(e, c)
           /\ \A h \in Host : \A e \in Range(fr[h]) : Expired(e, c) \in Range(Expire(fr, c)[h])
           /\ \A h \in Host : fr[h] = << >> => Expire(fr, c)[h] = << >>
<1> SUFFICES ASSUME NEW h \in Host
             PROVE  /\ Expire(fr, c)[h] \in Seq(Frame)
                    /\ \A f \in Range(Expire(fr, c)[h]) : \E e \in Range(fr[h]) : f = Expired(e, c)
                    /\ \A e \in Range(fr[h]) : Expired(e, c) \in Range(Expire(fr, c)[h])
                    /\ fr[h] = << >> => Expire(fr, c)[h] = << >>
  BY DEF Expire
<1> DEFINE s == fr[h]
           t == Expire(fr, c)[h]
<1>1. Len(s) \in Nat /\ DOMAIN s = 1..Len(s) /\ \A i \in 1..Len(s) : s[i] \in Frame
  BY LenProperties
<1>2. \A f \in Frame :
        /\ Expired(f, c) \in Frame
        /\ (IF c \in f.rest THEN [f EXCEPT !.rest = (@ \ {c}) \cup {None}] ELSE f) = Expired(f, c)
  <2> TAKE f \in Frame
  <2>1. f.path \in Path /\ f.rest \in Rest /\ f = [path |-> f.path, rest |-> f.rest]
    BY DEF Frame, Path, Rest
  <2>2. Expired(f, c) \in Frame
    BY <2>1 DEF Expired, Frame, Path, Rest
  <2>3. CASE c \in f.rest
    BY <2>1, <2>2, <2>3 DEF Expired
  <2>4. CASE c \notin f.rest
    BY <2>1, <2>2, <2>4 DEF Expired
  <2> QED BY <2>2, <2>3, <2>4
<1>3. t = [i \in 1..Len(s) |-> IF c \in s[i].rest THEN [s[i] EXCEPT !.rest = (@ \ {c}) \cup {None}] ELSE s[i]]
  BY <1>1 DEF Expire
<1>4. t = [i \in 1..Len(s) |-> Expired(s[i], c)]
  <2>1. \A i \in 1..Len(s) : (IF c \in s[i].rest THEN [s[i] EXCEPT !.rest = (@ \ {c}) \cup {None}] ELSE s[i]) = Expired(s[i], c)
    BY <1>1, <1>2
  <2> HIDE DEF t, s
  <2> QED BY <1>3, <2>1
<1>5. t \in [1..Len(s) -> Frame]
  <2>1. \A i \in 1..Len(s) : Expired(s[i], c) \in Frame
    BY <1>1, <1>2
  <2> HIDE DEF t, s
  <2> QED BY <1>4, <2>1
<1>6. t \in Seq(Frame)
  <2> HIDE DEF t, s
  <2> QED BY <1>1, <1>5, SeqDef
<1>7. Range(t) = {Expired(f, c) : f \in Range(s)}
  BY <1>1, <1>4 DEF Range
<1>8. ASSUME s = << >> PROVE t = << >>
  <2>1. Len(s) = 0
    BY <1>8, EmptySeq
  <2>2. DOMAIN t = 1..0
    BY <1>4, <2>1
  <2>3. Len(t) = 0
    <3>1. Len(t) \in Nat /\ DOMAIN t = 1..Len(t)
      BY <1>6, LenProperties
    <3> HIDE DEF t
    <3> QED BY <2>2, <3>1
  <2> QED BY <1>6, <2>3, EmptySeq
<1> QED BY <1>6, <1>7, <1>8

\* A walk of h starts with the parents of n.
LEMMA ActivationIs ==
    ASSUME frames \in [Host -> Seq(Frame)], NEW par \in [Node -> SUBSET Node],
           NEW h \in Host, NEW n \in Node, frames' = [frames EXCEPT ![h] = Activate(<<n>>, par[n])]
    PROVE  /\ frames' \in [Host -> Seq(Frame)]
           /\ \A g \in Host : g # h => frames'[g] = frames[g]
           /\ Range(frames'[h]) = IF par[n] = {} THEN {} ELSE {[path |-> <<n>>, rest |-> par[n]]}
<1>1. <<n>> \in Path /\ par[n] \in Rest
  BY SingletonPath DEF Rest
<1> DEFINE a == Activate(<<n>>, par[n])
<1>2. a \in Seq(Frame) /\ Range(a) = IF par[n] = {} THEN {} ELSE {[path |-> <<n>>, rest |-> par[n]]}
  BY <1>1, ActivateIs
<1>3. frames' = [frames EXCEPT ![h] = a]
  OBVIOUS
<1> HIDE DEF a
<1>4. frames' \in [Host -> Seq(Frame)] /\ frames'[h] = a /\ \A g \in Host : g # h => frames'[g] = frames[g]
  BY <1>2, <1>3
<1> QED BY <1>2, <1>4

\* Invalidate(): the parents of n are to be visited.
LEMMA InvalidateIs ==
    ASSUME frames \in [Host -> Seq(Frame)], NEW par \in [Node -> SUBSET Node],
           NEW h \in Host, NEW n \in Node, NEW unlink \in BOOLEAN, Invalidate(h, par, n, unlink)
    PROVE  /\ frames' \in [Host -> Seq(Frame)]
           /\ \A g \in Host : g # h => frames'[g] = frames[g]
           /\ Range(frames'[h]) = IF par[n] = {} THEN {} ELSE {[path |-> <<n>>, rest |-> par[n]]}
           /\ parents' \in [Node -> SUBSET Node]
           /\ \A m \in Node : parents'[m] = IF m = n /\ unlink THEN {} ELSE par[m]
<1>3. /\ frames' = [frames EXCEPT ![h] = Activate(<<n>>, par[n])]
      /\ parents' = GetParentsForInvalidate(par, n, unlink)
  BY DEF Invalidate
<1>4. /\ frames' \in [Host -> Seq(Frame)] /\ \A g \in Host : g # h => frames'[g] = frames[g]
      /\ Range(frames'[h]) = IF par[n] = {} THEN {} ELSE {[path |-> <<n>>, rest |-> par[n]]}
  BY <1>3, ActivationIs
<1>5. /\ parents' \in [Node -> SUBSET Node]
      /\ \A m \in Node : parents'[m] = IF m = n /\ unlink THEN {} ELSE par[m]
  BY <1>3 DEF GetParentsForInvalidate
<1> QED BY <1>4, <1>5

\* NotifyInvalidate() in terms of the set of a thread's activations: low are those below
\* the topmost one, top; p is the parent it takes.
Found(p)     == p # None /\ life[p] \in {"live", "dying"}
Deeper(top, p) == IF parents[p] = {} THEN {} ELSE {[path |-> Append(top.path, p), rest |-> parents[p]]}

Skipped(h, low, top, p) ==
    /\ ~Found(p)
    /\ Range(frames'[h]) = low \cup Kept(top, p)
    /\ UNCHANGED <<cbVars, parents>>

Visited(h, low, top, p) ==
    /\ p \in Node /\ Found(p) /\ (p \in CB => ~Locked(p))
    /\ Range(frames'[h]) = low \cup Kept(top, p) \cup Deeper(top, p)
    /\ IF p \in CB THEN Break(p, top.path, hpc[h] # "update") ELSE UNCHANGED cbVars
    /\ parents' = IF hpc[h] # "update" THEN [parents EXCEPT ![p] = {}] ELSE parents
    /\ Append(top.path, p) \in Path /\ Range(Append(top.path, p)) = Range(top.path) \cup {p}

LEMMA NotifyIs ==
    ASSUME TypeOK, NEW h \in Host, NotifyInvalidate(h)
    PROVE  /\ frames' \in [Host -> Seq(Frame)]
           /\ \A g \in Host : g # h => frames'[g] = frames[g]
           /\ \E low : \E top \in Frame : \E p \in top.rest :
                 /\ Range(frames[h]) = low \cup {top}
                 /\ Skipped(h, low, top, p) \/ Visited(h, low, top, p)
           /\ frames[h] # << >>
           /\ UNCHANGED <<life, image_of, slot, hpc, cur, after, appVars, useVars>>
<1> DEFINE fr  == frames[h]
           low == Range(Front(fr))
           top == Last(fr)
           unlink == hpc[h] # "update"
<1>1. fr \in Seq(Frame) /\ fr # << >> /\ frames \in [Host -> Seq(Frame)] /\ parents \in [Node -> SUBSET Node]
  BY DEF NotifyInvalidate, TypeOK
<1>2. top \in Frame /\ Range(fr) = low \cup {top}
  BY <1>1, TopFrame
<1>3. PICK p \in top.rest :
        /\ p \in CB /\ Found(p) => ~Locked(p)
        /\ IF p \in CB /\ Found(p) THEN Break(p, top.path, unlink) ELSE UNCHANGED cbVars
        /\ frames' = [frames EXCEPT ![h] =
               IF Found(p) THEN Left(fr, p) \o Activate(Append(top.path, p), parents[p]) ELSE Left(fr, p)]
        /\ parents' = IF Found(p) THEN GetParentsForInvalidate(parents, p, unlink) ELSE parents
  BY DEF NotifyInvalidate, Found, Left
<1>4. top.path \in Path /\ top.rest \in Rest
  BY <1>2 DEF Frame, Path, Rest
<1> HIDE DEF fr, low, top, unlink
<1>5. CASE ~Found(p)
  <2>2. Left(fr, p) \in Seq(Frame) /\ Range(Left(fr, p)) = low \cup Kept(top, p)
    BY <1>1, LeftIs DEF low, top
  <2>3. frames' = [frames EXCEPT ![h] = Left(fr, p)] /\ UNCHANGED <<cbVars, parents>>
    BY <1>3, <1>5
  <2>4. frames' \in [Host -> Seq(Frame)] /\ frames'[h] = Left(fr, p) /\ \A g \in Host : g # h => frames'[g] = frames[g]
    BY <1>1, <2>2, <2>3
  <2>5. Skipped(h, low, top, p)
    BY <1>5, <2>2, <2>3, <2>4 DEF Skipped
  <2> QED BY <1>1, <1>2, <2>4, <2>5 DEF NotifyInvalidate, fr
<1>6. CASE Found(p)
  <2>1. p \in Node /\ parents[p] \in Rest
    BY <1>1, <1>4, <1>6 DEF Found, Rest
  <2>2. Append(top.path, p) \in Path /\ Range(Append(top.path, p)) = Range(top.path) \cup {p}
    BY <1>4, <2>1, AppendPath
  <2> DEFINE new == Left(fr, p) \o Activate(Append(top.path, p), parents[p])
  <2>3. new \in Seq(Frame) /\ Range(new) = low \cup Kept(top, p) \cup Deeper(top, p)
    <3>1. Left(fr, p) \in Seq(Frame) /\ Range(Left(fr, p)) = low \cup Kept(top, p)
      BY <1>1, LeftIs DEF low, top
    <3> DEFINE b == Activate(Append(top.path, p), parents[p])
    <3>2. b \in Seq(Frame) /\ Range(b) = Deeper(top, p)
      BY <2>1, <2>2, ActivateIs DEF Deeper
    <3> HIDE DEF b
    <3>3. Left(fr, p) \o b \in Seq(Frame) /\ Range(Left(fr, p) \o b) = Range(Left(fr, p)) \cup Range(b)
      BY <3>1, <3>2, ConcatFrames
    <3> QED BY <3>1, <3>2, <3>3 DEF b
  <2>4. /\ frames' = [frames EXCEPT ![h] = new]
        /\ p \in CB => ~Locked(p)
        /\ IF p \in CB THEN Break(p, top.path, unlink) ELSE UNCHANGED cbVars
        /\ parents' = GetParentsForInvalidate(parents, p, unlink)
    BY <1>3, <1>6
  <2> HIDE DEF new
  <2>5. frames' \in [Host -> Seq(Frame)] /\ frames'[h] = new /\ \A g \in Host : g # h => frames'[g] = frames[g]
    BY <1>1, <2>3, <2>4
  <2>6. Visited(h, low, top, p)
    BY <1>6, <2>1, <2>2, <2>3, <2>4, <2>5 DEF Visited, GetParentsForInvalidate, unlink
  <2> QED BY <1>1, <1>2, <2>5, <2>6 DEF NotifyInvalidate, fr
<1> QED BY <1>5, <1>6

-----------------------------------------------------------------------------
(* Type correctness *)

TypeInv == TypeOK /\ \A h \in Host : hpc[h] \in {"reset", "unlink"} => cur[h] \in CB

LEMMA TypeInit == Init => TypeInv
<1>1. CB \subseteq Node /\ Object \subseteq Node
  BY DEF Node
<1> QED BY <1>1, EmptySeq DEF Init, TypeInv, TypeOK, CB_STATE

LEMMA TypeObjects ==
    ASSUME TypeInv, NEW h \in Host,
           \/ \E n \in Image \cup Set : Create(h, n)
           \/ \E v \in View, i \in Image : CreateView(h, v, i)
           \/ \E s \in Set, k \in Slot, v \in View : WriteUpdate(h, s, k, v)
           \/ \E n \in Object : Destroy(h, n)
           \/ FinishObject(h)
    PROVE  TypeInv'
<1> USE DEF TypeInv
<1>0. Image \cup View \cup Set \subseteq Node
  BY DEF Node, Object
<1>1. ASSUME NEW n \in Image \cup Set, Create(h, n) PROVE TypeInv'
  BY <1>0, <1>1 DEF TypeOK, Create
<1>2. ASSUME NEW v \in View, NEW i \in Image, CreateView(h, v, i) PROVE TypeInv'
  <2>1. parents' \in [Node -> SUBSET Node]
    BY <1>0, <1>2 DEF TypeOK, CreateView, AddParent
  <2> QED BY <1>0, <1>2, <2>1 DEF TypeOK, CreateView
<1>3. ASSUME NEW s \in Set, NEW k \in Slot, NEW v \in View, WriteUpdate(h, s, k, v) PROVE TypeInv'
  <2> DEFINE par == ReplaceStatePtr(parents, s, slot[s][k], v)
  <2>1. par \in [Node -> SUBSET Node]
    BY <1>0 DEF TypeOK, ReplaceStatePtr, AddParent, RemoveParent
  <2>2. Invalidate(h, par, s, FALSE)
    BY <1>3 DEF WriteUpdate
  <2> HIDE DEF par
  <2>3. parents' \in [Node -> SUBSET Node] /\ frames' \in [Host -> Seq(Frame)]
    BY <1>0, <2>1, <2>2, InvalidateIs DEF TypeOK
  <2>4. slot' \in [Set -> [Slot -> View \cup {None}]]
    BY <1>3 DEF TypeOK, WriteUpdate
  <2> QED BY <1>0, <1>3, <2>3, <2>4 DEF TypeOK, WriteUpdate, Enter, Harm
<1>4. ASSUME NEW n \in Object, Destroy(h, n) PROVE TypeInv'
  <2> DEFINE par == RemoveParent(parents, Children(n), n)
  <2>0. n \in Node
    BY DEF Node
  <2>1. par \in [Node -> SUBSET Node]
    BY DEF TypeOK, RemoveParent
  <2>2. Invalidate(h, par, n, TRUE)
    BY <1>4 DEF Destroy
  <2> HIDE DEF par
  <2>3. parents' \in [Node -> SUBSET Node] /\ frames' \in [Host -> Seq(Frame)]
    BY <2>0, <2>1, <2>2, InvalidateIs DEF TypeOK
  <2> QED BY <2>0, <1>4, <2>3 DEF TypeOK, Destroy, Enter, Harm
<1>5. ASSUME FinishObject(h) PROVE TypeInv'
  BY <1>5 DEF TypeOK, FinishObject, Return
<1> QED BY <1>1, <1>2, <1>3, <1>4, <1>5

LEMMA TypeNotify ==
    ASSUME TypeInv, NEW h \in Host, NotifyInvalidate(h)
    PROVE  TypeInv'
<1> USE DEF TypeInv
<1>1. /\ frames' \in [Host -> Seq(Frame)]
      /\ UNCHANGED <<life, image_of, slot, hpc, cur, after, appVars, useVars>>
  BY NotifyIs
<1>2. PICK low : \E top \in Frame : \E p \in top.rest : Skipped(h, low, top, p) \/ Visited(h, low, top, p)
  BY NotifyIs
<1>3. PICK top \in Frame : \E p \in top.rest : Skipped(h, low, top, p) \/ Visited(h, low, top, p)
  BY <1>2
<1>4. PICK p \in top.rest : Skipped(h, low, top, p) \/ Visited(h, low, top, p)
  BY <1>3
<1>5. CASE Skipped(h, low, top, p)
  BY <1>1, <1>5 DEF Skipped, TypeOK
<1>6. CASE Visited(h, low, top, p)
  <2>1. parents' \in [Node -> SUBSET Node]
    BY <1>6 DEF Visited, TypeOK
  <2>2. top.path[1] \in Node
    <3>1. top.path \in Seq(Node) /\ top.path # << >>
      BY DEF Frame
    <3>2. Len(top.path) \in Nat \ {0}
      BY <3>1, EmptySeq
    <3> QED BY <3>1, <3>2, ElementOfSeq
  <2>3. CASE p \in CB
    <3>1. Break(p, top.path, hpc[h] # "update")
      BY <1>6, <2>3 DEF Visited
    <3>2. /\ state' \in [CB -> CB_STATE] /\ broken' \in [CB -> SUBSET Node]
          /\ bindings' \in [CB -> SUBSET Node] /\ linked' \in [CB -> SUBSET Secondary]
      BY <2>2, <2>3, <3>1 DEF Break, TypeOK, Invalidated, CB_STATE
    <3> QED BY <1>1, <2>1, <3>2 DEF TypeOK
  <2>4. CASE p \notin CB
    BY <1>1, <1>6, <2>1, <2>4 DEF TypeOK, Visited
  <2> QED BY <2>3, <2>4
<1> QED BY <1>4, <1>5, <1>6

LEMMA TypeCommandBuffers ==
    ASSUME TypeInv, NEW h \in Host,
           \/ \E c \in CB : Allocate(h, c)
           \/ \E c \in CB, n \in Image \cup Set : Record(h, c, n)
           \/ \E p \in Primary, s \in Secondary : ExecuteCommands(h, p, s)
           \/ \E c \in CB : End(h, c)
           \/ \E c \in CB : Begin(h, c)
           \/ \E c \in CB, why \in {"reset", "begin", "free"} : CallReset(h, c, why)
           \/ Reset(h)
           \/ FinishReset(h)
    PROVE  TypeInv'
<1> USE DEF TypeInv
<1>0. CB \subseteq Node /\ Image \subseteq Node /\ Set \subseteq Node /\ Primary \subseteq CB /\ Secondary \subseteq CB
  BY DEF Node, Object, CB
<1>1. ASSUME NEW c \in CB, Allocate(h, c) PROVE TypeInv'
  BY <1>0, <1>1 DEF TypeOK, Allocate
<1>2. ASSUME NEW c \in CB, NEW n \in Image \cup Set, Record(h, c, n) PROVE TypeInv'
  <2>1. parents' \in [Node -> SUBSET Node] /\ bindings' \in [CB -> SUBSET Node]
    BY <1>0, <1>2 DEF TypeOK, Record, AddChild, AddParent
  <2>2. used' \in [CB -> SUBSET Node]
    BY <1>0, <1>2 DEF TypeOK, Record
  <2> QED BY <1>2, <2>1, <2>2 DEF TypeOK, Record
<1>3. ASSUME NEW p \in Primary, NEW s \in Secondary, ExecuteCommands(h, p, s) PROVE TypeInv'
  <2>1. parents' \in [Node -> SUBSET Node] /\ bindings' \in [CB -> SUBSET Node]
    BY <1>0, <1>3 DEF TypeOK, ExecuteCommands, AddChild, AddParent
  <2>2. used' \in [CB -> SUBSET Node]
    BY <1>0, <1>3 DEF TypeOK, ExecuteCommands
  <2>3. linked' \in [CB -> SUBSET Secondary]
    BY <1>0, <1>3 DEF TypeOK, ExecuteCommands
  <2> QED BY <1>3, <2>1, <2>2, <2>3 DEF TypeOK, ExecuteCommands
<1>4. ASSUME NEW c \in CB, End(h, c) PROVE TypeInv'
  BY <1>4 DEF TypeOK, End, CB_STATE
<1>5. ASSUME NEW c \in CB, Begin(h, c) PROVE TypeInv'
  BY <1>5 DEF TypeOK, Begin, CB_STATE, Forget
<1>6. ASSUME NEW c \in CB, NEW why \in {"reset", "begin", "free"}, CallReset(h, c, why) PROVE TypeInv'
  <2>1. life' \in [Node -> {"none", "live", "dying", "dead"}]
    BY <1>0, <1>6 DEF TypeOK, CallReset
  <2> QED BY <1>0, <1>6, <2>1 DEF TypeOK, CallReset, Enter, Harm
<1>7. ASSUME Reset(h) PROVE TypeInv'
  <2>1. cur[h] \in CB /\ cur[h] \in Node
    BY <1>0, <1>7 DEF Reset
  <2>2. Invalidate(h, parents, cur[h], TRUE)
    BY <1>7 DEF Reset
  <2>3. parents' \in [Node -> SUBSET Node] /\ frames' \in [Host -> Seq(Frame)]
    BY <2>1, <2>2, InvalidateIs DEF TypeOK
  <2> QED BY <1>7, <2>1, <2>3 DEF TypeOK, Reset, CB_STATE
<1>8. ASSUME FinishReset(h) PROVE TypeInv'
  <2>1. cur[h] \in CB /\ cur[h] \in Node
    BY <1>0, <1>8 DEF FinishReset
  <2>2. frames' \in [Host -> Seq(Frame)]
    BY <1>8, ExpireIs DEF TypeOK, FinishReset
  <2>3. parents' \in [Node -> SUBSET Node]
    BY <1>8 DEF TypeOK, FinishReset, RemoveParent
  <2>4. /\ bindings' \in [CB -> SUBSET Node] /\ state' \in [CB -> CB_STATE]
        /\ life' \in [Node -> {"none", "live", "dying", "dead"}]
        /\ used' \in [CB -> SUBSET Node] /\ hurt' \in [CB -> BOOLEAN]
    BY <1>8, <2>1 DEF TypeOK, FinishReset, Forget, CB_STATE
  <2>5. /\ hpc' \in [Host -> {"idle", "update", "destroy", "reset", "unlink", "submit"}]
        /\ cur' \in [Host -> Node \cup {None}] /\ after' \in [Host -> {"none", "reset", "begin", "free"}]
        /\ \A g \in Host : hpc'[g] \in {"reset", "unlink"} => cur'[g] \in CB
    BY <1>8 DEF TypeOK, FinishReset, Return
  <2> QED BY <1>8, <2>2, <2>3, <2>4, <2>5 DEF TypeOK, FinishReset
<1> QED BY <1>1, <1>2, <1>3, <1>4, <1>5, <1>6, <1>7, <1>8

LEMMA TypeSubmission ==
    ASSUME TypeInv,
           \/ \E h \in Host, p \in Primary : QueueSubmit(h, p)
           \/ \E h \in Host : BeginUse(h)
           \/ \E p \in Primary : DeviceFinish(p)
           \/ \E p \in Primary : EndUse(p)
    PROVE  TypeInv'
<1> USE DEF TypeInv
<1>0. Primary \subseteq Node
  BY DEF Node, CB
<1>1. ASSUME NEW h \in Host, NEW p \in Primary, QueueSubmit(h, p) PROVE TypeInv'
  <2>1. running' \in [Primary -> Nat]
    BY <1>1 DEF TypeOK, QueueSubmit
  <2>2. /\ hpc' \in [Host -> {"idle", "update", "destroy", "reset", "unlink", "submit"}]
        /\ cur' \in [Host -> Node \cup {None}]
        /\ \A g \in Host : hpc'[g] \in {"reset", "unlink"} => cur'[g] \in CB
    BY <1>0, <1>1 DEF TypeOK, QueueSubmit, Enter
  <2> QED BY <1>1, <2>1, <2>2 DEF TypeOK, QueueSubmit
<1>2. ASSUME NEW h \in Host, BeginUse(h) PROVE TypeInv'
  <2>1. in_use' = [in_use EXCEPT ![cur[h]] = in_use[cur[h]] + 1] /\ in_use \in [Primary -> Nat]
    BY <1>2 DEF TypeOK, BeginUse
  <2>2. in_use' = [q \in Primary |-> IF q = cur[h] THEN in_use[q] + 1 ELSE in_use[q]]
    BY <2>1
  <2>3. in_use' \in [Primary -> Nat]
    <3>1. \A q \in Primary : (IF q = cur[h] THEN in_use[q] + 1 ELSE in_use[q]) \in Nat
      BY <2>1
    <3> QED BY <2>2, <3>1
  <2>4. /\ hpc' \in [Host -> {"idle", "update", "destroy", "reset", "unlink", "submit"}]
        /\ cur' \in [Host -> Node \cup {None}]
        /\ \A g \in Host : hpc'[g] \in {"reset", "unlink"} => cur'[g] \in CB
    BY <1>2 DEF TypeOK, BeginUse, Return
  <2> QED BY <1>2, <2>3, <2>4 DEF TypeOK, BeginUse
<1>3. ASSUME NEW p \in Primary, DeviceFinish(p) PROVE TypeInv'
  BY <1>3 DEF TypeOK, DeviceFinish
<1>4. ASSUME NEW p \in Primary, EndUse(p) PROVE TypeInv'
  BY <1>4 DEF TypeOK, EndUse
<1> QED BY <1>1, <1>2, <1>3, <1>4

LEMMA TypeStep == TypeInv /\ [Next]_vars => TypeInv'
<1> SUFFICES ASSUME TypeInv, [Next]_vars PROVE TypeInv'
  OBVIOUS
<1>1. CASE UNCHANGED vars
  BY <1>1 DEF vars, TypeInv, TypeOK
<1>2. ASSUME NEW h \in Host, Call(h) PROVE TypeInv'
  BY <1>2, TypeObjects, TypeCommandBuffers, TypeSubmission DEF Call
<1>3. ASSUME NEW h \in Host, Step(h) PROVE TypeInv'
  BY <1>3, TypeObjects, TypeNotify, TypeCommandBuffers, TypeSubmission DEF Step
<1> QED BY <1>1, <1>2, <1>3, TypeSubmission DEF Next

\* Type correctness, whatever the application's habits: every parent map, binding and
\* activation holds nodes, and the in-use counts never go below zero.
THEOREM TreeTypeCorrect == Spec => []TypeOK
<1>1. TypeInv => TypeOK
  BY DEF TypeInv
<1> QED BY <1>1, TypeInit, TypeStep, PTL DEF Spec

-----------------------------------------------------------------------------
(* What walks can reach *)

LEMMA AboveIs ==
    ASSUME NEW par \in [Node -> SUBSET Node], NEW S \in SUBSET Node
    PROVE  /\ Above(par, S) \in SUBSET Node /\ S \subseteq Above(par, S)
           /\ \A m \in Above(par, S) : par[m] \subseteq Above(par, S)
           /\ \A Y \in SUBSET Node : S \subseteq Y /\ (\A m \in Y : par[m] \subseteq Y) => Above(par, S) \subseteq Y
BY DEF Above

\* A set of spoiled nodes that no walk can leave.
Reach(Y) == OnTheWay \subseteq Y /\ \A m \in Y : parents[m] \subseteq Y /\ Spoiled(m)

LEMMA WalksIs == TypeOK => (Walks <=> \E Y \in SUBSET Node : Reach(Y))
<1> SUFFICES ASSUME TypeOK PROVE Walks <=> \E Y \in SUBSET Node : Reach(Y)
  OBVIOUS
<1> DEFINE A == Above(parents, OnTheWay)
<1>1. parents \in [Node -> SUBSET Node] /\ OnTheWay \in SUBSET Node
  BY DEF TypeOK, OnTheWay
<1>2. /\ A \in SUBSET Node /\ OnTheWay \subseteq A /\ \A m \in A : parents[m] \subseteq A
      /\ \A Y \in SUBSET Node : OnTheWay \subseteq Y /\ (\A m \in Y : parents[m] \subseteq Y) => A \subseteq Y
  BY <1>1, AboveIs
<1>3. Walks <=> \A m \in A : Spoiled(m)
  BY DEF Walks
<1> HIDE DEF A
<1> QED BY <1>2, <1>3 DEF Reach

LEMMA WalksIsNext == (TypeOK => (Walks <=> \E Y \in SUBSET Node : Reach(Y)))'
BY WalksIs, PTL

\* A node is spoiled when it, or a view or an image it stands on, is gone.
GoneBelow(n) ==
    \/ Gone(n)
    \/ n \in View /\ image_of[n] # None /\ Gone(image_of[n])
    \/ n \in Set /\ \E k \in Slot : slot[n][k] # None
          /\ (Gone(slot[n][k]) \/ (image_of[slot[n][k]] # None /\ Gone(image_of[slot[n][k]])))

LEMMA SpoiledIs ==
    TypeOK => \A n \in Node : Spoiled(n) <=> \/ n \in CB /\ hurt[n] /\ ~Locked(n)
                                             \/ n \in View \cup Set /\ GoneBelow(n)
<1> SUFFICES ASSUME TypeOK, NEW n \in Node
             PROVE  Spoiled(n) <=> \/ n \in CB /\ hurt[n] /\ ~Locked(n)
                                   \/ n \in View \cup Set /\ GoneBelow(n)
  OBVIOUS
<1>1. CASE n \in CB
  BY <1>1, Kinds DEF Spoiled
<1>2. CASE n \notin CB
  <2>1. (\E m \in Below(n) : Gone(m)) <=> \E m : InBelow(n, m) /\ Gone(m)
    BY BelowIs
  <2>2. (\E m : InBelow(n, m) /\ Gone(m)) <=> GoneBelow(n)
    BY DEF InBelow, GoneBelow
  <2> QED BY <1>2, <2>1, <2>2 DEF Spoiled
<1> QED BY <1>1, <1>2

LEMMA SpoiledIsNext ==
   (TypeOK => \A n \in Node : Spoiled(n) <=> \/ n \in CB /\ hurt[n] /\ ~Locked(n)
                                             \/ n \in View \cup Set /\ GoneBelow(n))'
BY SpoiledIs, PTL

\* A thread without activations, and an idle one.
LEMMA NoFrames == ASSUME NEW fr, fr = << >> PROVE Range(fr) = {}
BY DEF Range

LEMMA QuietIs ==
    ASSUME TypeOK, Calls, Quiet
    PROVE  OnTheWay = {} /\ \A h \in Host : Range(frames[h]) = {}
<1>1. \A h \in Host : hpc[h] = "idle" /\ frames[h] = << >>
  BY DEF Quiet, Idle, Calls
<1> QED BY <1>1, NoFrames DEF OnTheWay

\* Steps that leave every activation as it is, let no spoiled node recover and give no
\* new parent to a spoiled node or one that a call is about.
LEMMA WalksKept ==
    ASSUME TypeOK, Calls, Walks, Paths, TypeOK', UNCHANGED frames,
           \A h \in Host : frames[h] # << >> => hpc'[h] = hpc[h] /\ cur'[h] = cur[h],
           \A h \in Host : hpc'[h] = "reset" => hpc[h] = "reset" /\ cur'[h] = cur[h],
           Quiet \/ \A m \in Node : Spoiled(m) => Spoiled(m)',
           \A m \in Node : Spoiled(m) \/ InCall(m) => parents'[m] \subseteq parents[m]
    PROVE  Walks' /\ Paths'
<1>1. CASE Quiet
  <2>1. OnTheWay = {} /\ \A h \in Host : Range(frames[h]) = {} /\ hpc[h] # "reset"
    BY <1>1, QuietIs DEF Quiet, Idle
  <2>2. OnTheWay' = {}
    BY <2>1 DEF OnTheWay
  <2>3. Reach({})'
    BY <2>2 DEF Reach
  <2>4. Walks'
    BY <2>3, WalksIsNext
  <2>5. Paths'
    BY <2>1 DEF Paths
  <2> QED BY <2>4, <2>5
<1>2. CASE \A m \in Node : Spoiled(m) => Spoiled(m)'
  <2>1. PICK Y \in SUBSET Node : Reach(Y)
    BY WalksIs
  <2>2. OnTheWay' \subseteq OnTheWay
    <3>1. \A h \in Host : hpc'[h] = "reset" => parents'[cur'[h]] \subseteq parents[cur[h]]
      BY DEF InCall, Calls, Node
    <3> QED BY <3>1 DEF OnTheWay
  <2>3. Reach(Y)'
    BY <1>2, <2>1, <2>2 DEF Reach
  <2>4. Walks'
    BY <2>3, WalksIsNext
  <2>5. Paths'
    <3> SUFFICES ASSUME NEW h \in Host, hpc'[h] # "update", NEW f \in Range(frames[h]), NEW n \in Range(f.path)
                 PROVE  parents'[n] = {} /\ (n = cur'[h] \/ Spoiled(n)')
      BY DEF Paths
    <3>1. frames[h] # << >> /\ hpc'[h] = hpc[h] /\ cur'[h] = cur[h]
      BY NoFrames
    <3>2. parents[n] = {} /\ (n = cur[h] \/ Spoiled(n))
      BY <3>1 DEF Paths
    <3>3. n \in Node
      <4>1. frames[h] \in Seq(Frame)
        BY DEF TypeOK
      <4>2. f \in Frame
        BY <4>1, RangeOfSeq
      <4>3. f.path \in Seq(Node)
        BY <4>2 DEF Frame
      <4> QED BY <4>3, RangeOfSeq
    <3>4. InCall(n) \/ Spoiled(n)
      BY <3>2 DEF InCall
    <3> QED BY <1>2, <3>1, <3>2, <3>3, <3>4
  <2> QED BY <2>4, <2>5
<1> QED BY <1>1, <1>2

LEMMA SpoiledKept ==
    ASSUME TypeOK, TypeOK', UNCHANGED <<image_of, slot>>,
           \A n \in Object : Gone(n) => Gone(n)',
           \A c \in CB : hurt[c] /\ ~Locked(c) => hurt'[c] /\ ~Locked(c)'
    PROVE  \A m \in Node : Spoiled(m) => Spoiled(m)'
<1> SUFFICES ASSUME NEW m \in Node, Spoiled(m) PROVE Spoiled(m)'
  OBVIOUS
<1>1. CASE m \in CB /\ hurt[m] /\ ~Locked(m)
  BY <1>1, SpoiledIsNext
<1>2. CASE m \in View \cup Set /\ GoneBelow(m)
  <2>1. /\ m \in View => image_of[m] \in Object \cup {None}
        /\ m \in Set => \A k \in Slot : slot[m][k] \in View \cup {None}
        /\ \A v \in View : image_of[v] \in Object \cup {None}
        /\ View \subseteq Object /\ m \in Object
    BY <1>2 DEF TypeOK, Object
  <2>2. GoneBelow(m)'
    BY <1>2, <2>1 DEF GoneBelow
  <2> QED BY <1>2, <2>2, SpoiledIsNext
<1> QED BY <1>1, <1>2, SpoiledIs

\* Steps that leave the links and the activations as they are.
LEMMA LinksKept ==
    ASSUME TypeOK, Calls, Structure, Unlinking, UNCHANGED <<parents, image_of, slot, bindings, frames>>,
           \A h \in Host : frames[h] # << >> => hpc'[h] = hpc[h]
    PROVE  Structure' /\ Unlinking'
<1>1. Structure'
  BY DEF Structure, ParentOf
<1>2. \A c, n : WillUnlink(c, n) => WillUnlink(c, n)'
  BY NoFrames DEF WillUnlink
<1>3. Unlinking'
  BY <1>2 DEF Unlinking
<1> QED BY <1>1, <1>3

-----------------------------------------------------------------------------
(* Steps that change no link *)

Careful == "racing" \notin Habits /\ "rebegin" \notin Habits

LEMMA SafeCreate ==
    ASSUME Safe, TypeOK', NEW h \in Host, NEW n \in Node, Create(h, n) \/ (n \in CB /\ Allocate(h, n))
    PROVE  Safe'
<1> USE DEF Safe
<1>1. /\ life[n] = "none" /\ life' = [life EXCEPT ![n] = "live"]
      /\ UNCHANGED <<parents, image_of, slot, cbVars, hostVars, appVars, useVars>>
  BY DEF Create, Allocate
<1>2. life \in [Node -> {"none", "live", "dying", "dead"}]
  BY DEF TypeOK
<1>3. Calls'
  BY <1>1, <1>2 DEF Calls
<1>4. Lives'
  <2>1. \A m \in Node : life'[m] = IF m = n THEN "live" ELSE life[m]
    BY <1>1, <1>2
  <2>2. /\ \A v \in View : image_of[v] # None => image_of[v] \in Node
        /\ \A s \in Set, k \in Slot : slot[s][k] # None => slot[s][k] \in Node
        /\ Set \subseteq Node /\ View \subseteq Node /\ CB \subseteq Node
    BY DEF TypeOK, Node, Object
  <2> QED BY <1>1, <2>1, <2>2 DEF Lives
<1>5. Structure' /\ Unlinking'
  BY <1>1, LinksKept
<1>6. Bound' /\ Resets'
  BY <1>1 DEF Bound, Resets, Locked
<1>7. LinkedAlive'
  BY <1>1, <1>2 DEF LinkedAlive
<1>8. InvalidHasReason'
  BY <1>1, <1>2 DEF InvalidHasReason, Lives, Invalid
<1>9. Walks' /\ Paths'
  <2>1. \A m \in Object : Gone(m) => Gone(m)'
    BY <1>1, <1>2 DEF Gone
  <2>2. \A m \in Node : Spoiled(m) => Spoiled(m)'
    BY <1>1, <2>1, SpoiledKept DEF Locked
  <2> QED BY <1>1, <2>2, WalksKept DEF Calls
<1> QED BY <1>3, <1>4, <1>5, <1>6, <1>7, <1>8, <1>9

LEMMA SafeEnd ==
    ASSUME Safe, TypeOK', NEW h \in Host, NEW c \in CB, End(h, c)
    PROVE  Safe'
<1> USE DEF Safe
<1>1. /\ ~InCall(c) /\ state' = [state EXCEPT ![c] = "CB_RECORDED"] /\ life[c] = "live"
      /\ UNCHANGED <<nodeVars, bindings, linked, broken, hostVars, appVars, useVars>>
  BY DEF End, Recording
<1>2. \A d \in CB : state'[d] = IF d = c THEN "CB_RECORDED" ELSE state[d]
  BY <1>1 DEF TypeOK
<1>3. Calls'
  BY <1>1, <1>2 DEF Calls, InCall
<1>4. Lives'
  BY <1>1, <1>2 DEF Lives
<1>5. Structure' /\ Unlinking'
  BY <1>1, LinksKept
<1>6. Bound' /\ Resets' /\ LinkedAlive'
  BY <1>1, <1>2 DEF Bound, Resets, Locked, LinkedAlive
<1>7. InvalidHasReason'
  BY <1>1, <1>2 DEF InvalidHasReason, Invalid
<1>8. Walks' /\ Paths'
  <2>1. \A m \in Node : Spoiled(m) => Spoiled(m)'
    BY <1>1, SpoiledKept DEF Locked, Gone
  <2> QED BY <1>1, <2>1, WalksKept DEF Calls
<1> QED BY <1>3, <1>4, <1>5, <1>6, <1>7, <1>8

LEMMA SafeBegin ==
    ASSUME Safe, Careful, TypeOK', NEW h \in Host, NEW c \in CB, Begin(h, c)
    PROVE  Safe'
<1> USE DEF Safe
<1>1. /\ ~InCall(c) /\ life[c] = "live" /\ (~hurt[c] \/ Quiet)
      /\ state' = [state EXCEPT ![c] = "CB_RECORDING"]
      /\ used' = [used EXCEPT ![c] = {}] /\ hurt' = [hurt EXCEPT ![c] = FALSE]
      /\ UNCHANGED <<nodeVars, bindings, linked, broken, hostVars, useVars>>
  BY DEF Begin, MayReset, Forget, Careful
<1>2. state[c] = "CB_NEW"
  BY DEF Begin, Careful, TypeOK, CB_STATE, ImplicitReset
<1>3. \A d \in CB : /\ state'[d] = IF d = c THEN "CB_RECORDING" ELSE state[d]
                    /\ used'[d] = IF d = c THEN {} ELSE used[d]
                    /\ hurt'[d] = IF d = c THEN FALSE ELSE hurt[d]
  BY <1>1 DEF TypeOK
<1>4. Calls'
  BY <1>1, <1>3 DEF Calls, InCall
<1>5. Lives'
  BY <1>1, <1>3 DEF Lives
<1>6. Structure' /\ Unlinking'
  BY <1>1, LinksKept
<1>7. Bound'
  <2>1. ~Locked(c)
    BY <1>1 DEF Locked, InCall
  <2>2. bindings[c] = {}
    BY <1>2, <2>1 DEF Bound
  <2> QED BY <1>1, <1>3, <2>2 DEF Bound, Locked
<1>8. Resets' /\ LinkedAlive'
  BY <1>1 DEF Resets, LinkedAlive
<1>9. InvalidHasReason'
  <2> SUFFICES ASSUME NEW d \in CB, life'[d] = "live", state'[d] \in Invalid PROVE hurt'[d]
    BY DEF InvalidHasReason
  <2>1. d # c
    BY <1>3 DEF Invalid
  <2>2. hurt[d]
    BY <1>1, <1>3, <2>1 DEF InvalidHasReason
  <2> QED BY <1>3, <2>1, <2>2
<1>10. Walks' /\ Paths'
  <2>1. Quiet \/ \A m \in Node : Spoiled(m) => Spoiled(m)'
    BY <1>1, <1>3, SpoiledKept DEF Locked, Gone
  <2> QED BY <1>1, <2>1, WalksKept DEF Calls
<1> QED BY <1>4, <1>5, <1>6, <1>7, <1>8, <1>9, <1>10

LEMMA SafeFinishObject ==
    ASSUME Safe, TypeOK', NEW h \in Host, FinishObject(h)
    PROVE  Safe'
<1> USE DEF Safe
<1>1. /\ hpc[h] \in {"destroy", "update"} /\ frames[h] = << >>
      /\ life' = IF hpc[h] = "destroy" THEN [life EXCEPT ![cur[h]] = "dead"] ELSE life
      /\ hpc' = [hpc EXCEPT ![h] = "idle"] /\ cur' = [cur EXCEPT ![h] = None]
      /\ UNCHANGED <<parents, image_of, slot, cbVars, after, frames, appVars, useVars>>
  BY DEF FinishObject, Return
<1>2. \A g \in Host : /\ hpc'[g] = IF g = h THEN "idle" ELSE hpc[g]
                      /\ cur'[g] = IF g = h THEN None ELSE cur[g]
  BY <1>1 DEF TypeOK
<1>3. hpc[h] = "destroy" => cur[h] \in Object /\ life[cur[h]] = "dying"
  BY DEF Calls
<1>4. \A m \in Node : life'[m] # life[m] => m \in Object /\ m = cur[h] /\ life[m] = "dying" /\ life'[m] = "dead"
  BY <1>1, <1>3 DEF TypeOK
<1>5. Calls'
  <2>1. \A g \in Host : g # h /\ cur[g] # None => cur[g] # cur[h]
    BY DEF Calls
  <2>2. \A g \in Host : g # h /\ cur[g] \in Node => life'[cur[g]] = life[cur[g]]
    BY <1>4, <2>1, Kinds
  <2>3. CB \subseteq Node /\ Object \subseteq Node
    BY DEF Node
  <2> QED BY <1>1, <1>2, <2>1, <2>2, <2>3 DEF Calls
<1>6. Lives'
  <2>1. /\ \A v \in View : image_of[v] # None => image_of[v] \in Node
        /\ \A s \in Set, k \in Slot : slot[s][k] # None => slot[s][k] \in Node
        /\ Set \subseteq Node /\ View \subseteq Node /\ CB \subseteq Node /\ Object \cap CB = {}
    BY Kinds DEF TypeOK, Node, Object
  <2> QED BY <1>1, <1>4, <2>1 DEF Lives
<1>7. Structure' /\ Unlinking'
  BY <1>1, <1>2, LinksKept
<1>8. \A c \in CB : Locked(c)' <=> Locked(c)
  BY <1>1, <1>2, Kinds DEF Locked, Node
<1>9. Bound'
  BY <1>1, <1>8 DEF Bound
<1>10. LinkedAlive'
  BY <1>1, <1>4, Kinds DEF LinkedAlive, TypeOK, Node, CB, Object
<1>11. InvalidHasReason' /\ Resets'
  BY <1>1, <1>2, <1>4, Kinds DEF InvalidHasReason, Resets, Node, Object
<1>12. Walks' /\ Paths'
  <2>1. \A m \in Object : Gone(m) => Gone(m)'
    BY <1>4 DEF Gone, Node
  <2>2. \A m \in Node : Spoiled(m) => Spoiled(m)'
    BY <1>1, <1>8, <2>1, SpoiledKept
  <2> QED BY <1>1, <1>2, <2>2, WalksKept DEF Calls
<1> QED BY <1>5, <1>6, <1>7, <1>9, <1>10, <1>11, <1>12

\* The counters of a command buffer: nothing that is reset is submitted.
LEMMA SafeSubmission ==
    ASSUME Safe, TypeOK',
           \/ \E h \in Host, p \in Primary : QueueSubmit(h, p)
           \/ \E h \in Host : BeginUse(h)
           \/ \E p \in Primary : DeviceFinish(p)
           \/ \E p \in Primary : EndUse(p)
    PROVE  Safe'
<1> USE DEF Safe
<1>1. UNCHANGED <<nodeVars, cbVars, frames, appVars>>
  BY DEF QueueSubmit, BeginUse, DeviceFinish, EndUse
<1>2. \A g \in Host : \/ hpc'[g] = hpc[g] /\ cur'[g] = cur[g]
                      \/ hpc[g] = "idle" /\ hpc'[g] = "submit" /\ cur'[g] \in Primary /\ ~InCall(cur'[g])
                      \/ hpc[g] = "submit" /\ hpc'[g] = "idle" /\ cur'[g] = None
  BY DEF QueueSubmit, BeginUse, DeviceFinish, EndUse, Enter, Return, Idle, TypeOK
<1>3. \A f, g \in Host : f = g \/ (hpc'[f] = hpc[f] /\ cur'[f] = cur[f]) \/ (hpc'[g] = hpc[g] /\ cur'[g] = cur[g])
  BY DEF QueueSubmit, BeginUse, DeviceFinish, EndUse, Enter, Return, TypeOK
<1>4. Calls'
  <2>1. \A f, g \in Host : cur'[f] = cur'[g] /\ cur'[g] # None => f = g
    BY <1>2, <1>3 DEF Calls, InCall
  <2> QED BY <1>1, <1>2, <2>1 DEF Calls
<1>5. Lives' /\ LinkedAlive' /\ InvalidHasReason'
  BY <1>1 DEF Lives, LinkedAlive, InvalidHasReason
<1>6. \A g \in Host : frames[g] # << >> => hpc'[g] = hpc[g] /\ cur'[g] = cur[g]
  BY <1>2 DEF Calls
<1>7. Structure' /\ Unlinking'
  BY <1>1, <1>6, LinksKept
<1>8. \A c \in CB : Locked(c)' <=> Locked(c)
  BY <1>2 DEF Locked
<1>9. Bound'
  BY <1>1, <1>8 DEF Bound
<1>10. Walks' /\ Paths'
  <2>1. \A m \in Node : Spoiled(m) => Spoiled(m)'
    BY <1>1, <1>8, SpoiledKept DEF Gone
  <2> QED BY <1>1, <1>2, <1>6, <2>1, WalksKept
<1>11. Resets'
  <2> SUFFICES ASSUME NEW g \in Host, hpc'[g] = "reset", NEW p \in Primary, p = cur'[g] \/ p \in parents'[cur'[g]]
               PROVE  in_use'[p] = 0 /\ \A f \in Host : ~(hpc'[f] = "submit" /\ cur'[f] = p)
    BY DEF Resets
  <2>1. /\ hpc[g] = "reset" /\ cur'[g] = cur[g] /\ parents'[cur'[g]] = parents[cur[g]]
        /\ in_use[p] = 0 /\ \A f \in Host : ~(hpc[f] = "submit" /\ cur[f] = p)
    BY <1>1, <1>2 DEF Resets
  <2>2. cur[g] \in CB /\ cur[g] \in Node /\ InCall(cur[g])
    BY <2>1 DEF Calls, Node, InCall
  <2>3. ASSUME NEW h \in Host, NEW q \in Primary, QueueSubmit(h, q) PROVE q # p
    <3>1. CASE p = cur[g]
      BY <2>2, <2>3, <3>1 DEF QueueSubmit
    <3>2. CASE p \in parents[cur[g]]
      <4>1. cur[g] \in Secondary
        BY <2>2, <3>2, Kinds DEF Structure, ParentOf, CB
      <4>2. cur[g] \in used[p]
        BY <2>2, <3>2 DEF Bound, CB
      <4>3. cur[g] \in Uses(p)
        BY <4>1, <4>2, UsesAre
      <4> QED BY <2>2, <2>3, <4>3 DEF QueueSubmit
    <3> QED BY <2>1, <3>1, <3>2
  <2>4. in_use'[p] = 0
    BY <2>1 DEF QueueSubmit, BeginUse, DeviceFinish, EndUse, TypeOK
  <2>5. ASSUME NEW f \in Host, hpc'[f] = "submit" PROVE cur'[f] # p
    <3>1. CASE hpc'[f] = hpc[f] /\ cur'[f] = cur[f]
      BY <2>1, <2>5, <3>1
    <3>2. CASE ~(hpc'[f] = hpc[f] /\ cur'[f] = cur[f])
      <4>1. PICK h \in Host, q \in Primary : QueueSubmit(h, q)
        BY <1>2, <2>5, <3>2 DEF BeginUse, DeviceFinish, EndUse, Return, TypeOK
      <4>2. cur'[f] = q
        BY <3>2, <4>1 DEF QueueSubmit, Enter, TypeOK
      <4> QED BY <2>3, <4>1, <4>2
    <3> QED BY <3>1, <3>2
  <2> QED BY <2>4, <2>5
<1> QED BY <1>4, <1>5, <1>7, <1>9, <1>10, <1>11

-----------------------------------------------------------------------------
(* Steps that add a link *)

\* What is sound is neither spoiled nor the subject of a call.
LEMMA SoundIs ==
    ASSUME TypeOK, NEW n \in Object, Sound(n)
    PROVE  ~Spoiled(n) /\ ~InCall(n) /\ life[n] = "live"
<1>1. n \notin CB
  BY Kinds DEF Object
<1> QED BY <1>1 DEF Sound, Spoiled, Gone

LEMMA SafeCreateView ==
    ASSUME Safe, TypeOK', NEW h \in Host, NEW v \in View, NEW i \in Image, CreateView(h, v, i)
    PROVE  Safe'
<1> USE DEF Safe
<1>1. /\ life[v] = "none" /\ life' = [life EXCEPT ![v] = "live"]
      /\ image_of' = [image_of EXCEPT ![v] = i] /\ parents' = AddParent(parents, {i}, v)
      /\ UNCHANGED <<slot, cbVars, hostVars, appVars, useVars>>
  BY DEF CreateView
<1>2. ~Spoiled(i) /\ ~InCall(i) /\ life[i] = "live"
  BY SoundIs DEF CreateView, Object
<1>3. v \in Node /\ i \in Node /\ v # i /\ v \notin CB /\ i \notin View /\ i # None
  BY Kinds DEF Node, Object
<1>4. /\ \A m \in Node : life'[m] = IF m = v THEN "live" ELSE life[m]
      /\ \A m \in Node : parents'[m] = IF m = i THEN parents[m] \cup {v} ELSE parents[m]
      /\ \A w \in View : image_of'[w] = IF w = v THEN i ELSE image_of[w]
  BY <1>1, <1>3 DEF TypeOK, AddParent
<1>5. image_of[v] = None
  BY <1>1 DEF Lives
<1>6. /\ \A w \in View : image_of[w] # None => image_of[w] \in Node
      /\ \A s \in Set, k \in Slot : slot[s][k] # None => slot[s][k] \in Node
      /\ Set \subseteq Node /\ View \subseteq Node /\ CB \subseteq Node /\ Object \subseteq Node
  BY DEF TypeOK, Node, Object
<1>7. Calls'
  <2>1. \A g \in Host : cur[g] # i
    BY <1>2 DEF InCall
  <2>2. \A g \in Host : cur[g] \in Node => parents'[cur[g]] = parents[cur[g]]
    BY <1>4, <2>1
  <2>3. \A g \in Host : cur[g] \in Node /\ life[cur[g]] # "none" => life'[cur[g]] = life[cur[g]]
    BY <1>1, <1>4
  <2>4. /\ \A f, g \in Host : cur'[f] = cur'[g] /\ cur'[g] # None => f = g
        /\ UNCHANGED <<hpc, cur, frames, state, linked>>
    BY <1>1 DEF Calls
  <2> QED BY <1>6, <2>2, <2>3, <2>4 DEF Calls
<1>8. Lives'
  <2>1. \A m \in Node : life'[m] = life[m] \/ (m = v /\ life'[m] = "live")
    BY <1>4
  <2>2. \A m \in Node : parents'[m] = parents[m] \/ (m = i /\ life'[m] = "live")
    BY <1>2, <1>3, <1>4
  <2>3. ASSUME NEW m \in Node, life'[m] \in {"none", "dead"} \/ (m \in Object /\ life'[m] = "dying")
        PROVE  parents'[m] = {}
    BY <2>1, <2>2, <2>3 DEF Lives
  <2>4. ASSUME NEW c \in CB
        PROVE  life'[c] # "dead" /\ (life'[c] = "none" => bindings'[c] = {} /\ state'[c] = "CB_NEW")
    BY <1>1, <1>6, <2>1 DEF Lives
  <2>5. ASSUME NEW w \in View
        PROVE  /\ life'[w] = "none" => image_of'[w] = None
               /\ image_of'[w] # None => life'[image_of'[w]] # "none"
    BY <1>2, <1>3, <1>4, <1>6 DEF Lives
  <2>6. ASSUME NEW s \in Set, NEW k \in Slot, slot'[s][k] # None
        PROVE  life'[slot'[s][k]] # "none" /\ life'[s] # "none"
    BY <1>1, <1>6, <2>1, <2>6 DEF Lives
  <2> QED BY <2>3, <2>4, <2>5, <2>6 DEF Lives
<1>9. Structure'
  <2> SUFFICES ASSUME NEW n \in Node, NEW p \in parents'[n] PROVE ParentOf(n, p)'
    BY DEF Structure
  <2>1. CASE p \in parents[n]
    <3>1. ParentOf(n, p)
      BY <2>1 DEF Structure
    <3> QED BY <1>1, <1>4, <1>5, <1>6, <3>1, Kinds DEF ParentOf, Object
  <2>2. CASE n = i /\ p = v
    BY <1>4, <2>2 DEF ParentOf
  <2> QED BY <1>4, <2>1, <2>2
<1>10. Bound'
  <2>1. \A c \in CB, n \in Node : c \in parents'[n] <=> c \in parents[n]
    BY <1>3, <1>4
  <2> QED BY <1>1, <2>1 DEF Bound, Locked
<1>11. Unlinking'
  <2>1. \A c, n : WillUnlink(c, n)' <=> WillUnlink(c, n)
    BY <1>1 DEF WillUnlink
  <2>2. \A n \in Node : parents[n] \subseteq parents'[n]
    BY <1>4
  <2> QED BY <1>1, <2>1, <2>2 DEF Unlinking
<1>12. LinkedAlive' /\ InvalidHasReason' /\ Resets'
  <2>1. \A c \in CB : life'[c] = life[c]
    BY <1>3, <1>4, <1>6
  <2>2. LinkedAlive'
    BY <1>1, <2>1 DEF LinkedAlive, TypeOK, CB
  <2>3. InvalidHasReason'
    BY <1>1, <2>1 DEF InvalidHasReason
  <2>4. Resets'
    <3>1. \A g \in Host : hpc[g] = "reset" => parents'[cur[g]] = parents[cur[g]]
      BY <1>2, <1>4, <1>6 DEF Calls, InCall
    <3> QED BY <1>1, <3>1 DEF Resets
  <2> QED BY <2>2, <2>3, <2>4
<1>13. Walks' /\ Paths'
  <2>1. \A m \in Node : Spoiled(m) => Spoiled(m)'
    <3> SUFFICES ASSUME NEW m \in Node, Spoiled(m) PROVE Spoiled(m)'
      OBVIOUS
    <3>1. CASE m \in CB
      BY <1>1, <3>1, SpoiledIs, SpoiledIsNext, Kinds DEF Locked, Object
    <3>2. CASE m \in View \cup Set /\ GoneBelow(m)
      <4>1. \A x \in Node : Gone(x) => Gone(x)'
        BY <1>1, <1>4 DEF Gone
      <4>2. \A w \in View : image_of[w] # None => image_of'[w] = image_of[w]
        BY <1>4, <1>5
      <4>3. \A s \in Set, k \in Slot : slot[s][k] # None => slot[s][k] \in View
        BY DEF TypeOK
      <4>4. GoneBelow(m)'
        BY <1>1, <1>6, <3>2, <4>1, <4>2, <4>3 DEF GoneBelow
      <4> QED BY <3>2, <4>4, SpoiledIsNext
    <3> QED BY <3>1, <3>2, SpoiledIs
  <2>2. \A m \in Node : Spoiled(m) \/ InCall(m) => parents'[m] = parents[m]
    BY <1>2, <1>4
  <2> QED BY <1>1, <2>1, <2>2, WalksKept
<1> QED BY <1>7, <1>8, <1>9, <1>10, <1>11, <1>12, <1>13

\* AddChild() of a node that is neither spoiled nor the subject of a call.
LEMMA SafeAddChild ==
    ASSUME Safe, TypeOK', NEW c \in CB, NEW n \in Node, ParentOf(n, c),
           ~Spoiled(n), ~InCall(n), life[n] = "live", life[c] = "live", state[c] # "CB_NEW",
           AddChild(c, n), used' = [used EXCEPT ![c] = @ \cup {n}],
           linked' = [linked EXCEPT ![c] = @ \cup ({n} \cap Secondary)],
           UNCHANGED <<life, image_of, slot, state, broken, hostVars, hurt, useVars>>
    PROVE  Safe'
<1> USE DEF Safe
<1>1. CB \subseteq Node
  BY DEF Node
<1>2. /\ parents'[n] = parents[n] \cup {c} /\ \A m \in Node : m # n => parents'[m] = parents[m]
      /\ used'[c] = used[c] \cup {n} /\ \A d \in CB : d # c => used'[d] = used[d]
      /\ linked'[c] = linked[c] \cup ({n} \cap Secondary) /\ \A d \in CB : d # c => linked'[d] = linked[d]
  BY DEF TypeOK, AddChild, AddParent
<1>3. bindings'[c] = bindings[c] \cup {n} /\ \A d \in CB : d # c => bindings'[d] = bindings[d]
  <2>1. CASE c \in parents[n]
    BY <2>1 DEF AddChild, Bound, TypeOK
  <2>2. CASE c \notin parents[n]
    BY <2>2 DEF AddChild, TypeOK
  <2> QED BY <2>1, <2>2
<1>4. Calls'
  <2>1. \A g \in Host : cur[g] \in Node => parents'[cur[g]] = parents[cur[g]]
    BY <1>2 DEF InCall
  <2>2. \A g \in Host : hpc[g] = "unlink" => cur[g] # c
    BY DEF Calls
  <2>3. \A g \in Host : hpc[g] = "unlink" => linked'[cur[g]] = linked[cur[g]]
    BY <1>2, <2>2 DEF Calls
  <2> QED BY <1>1, <2>1, <2>3 DEF Calls, Node
<1>5. Lives'
  BY <1>2, <1>3 DEF Lives
<1>6. Structure'
  <2>1. \A m \in Node : \A p : ParentOf(m, p)' <=> ParentOf(m, p)
    BY DEF ParentOf
  <2>2. \A m \in Node : \A p \in parents'[m] : p \in parents[m] \/ (m = n /\ p = c)
    BY <1>2
  <2> QED BY <2>1, <2>2 DEF Structure
<1>7. Bound'
  <2>1. n \in Image \cup Set \cup (IF c \in Primary THEN Secondary ELSE {})
    BY Kinds DEF ParentOf, Object
  <2>2. ASSUME NEW d \in CB, NEW m \in Node, d \in parents'[m] PROVE m \in bindings'[d]
    <3>1. d \in parents[m] => m \in bindings[d]
      BY DEF Bound
    <3>2. d \in parents[m] \/ (d = c /\ m = n)
      BY <1>2, <2>2
    <3> QED BY <1>3, <3>1, <3>2
  <2>3. ASSUME NEW d \in CB
        PROVE  /\ bindings'[d] \subseteq used'[d]
               /\ used'[d] \subseteq Image \cup Set \cup (IF d \in Primary THEN Secondary ELSE {})
    <3>1. /\ bindings[d] \subseteq used[d]
          /\ used[d] \subseteq Image \cup Set \cup (IF d \in Primary THEN Secondary ELSE {})
      BY DEF Bound
    <3>2. CASE d = c
      BY <1>2, <1>3, <2>1, <3>1, <3>2
    <3>3. CASE d # c
      BY <1>2, <1>3, <3>1, <3>3
    <3> QED BY <3>2, <3>3
  <2>4. ASSUME NEW d \in CB, state'[d] = "CB_NEW", ~Locked(d)' PROVE bindings'[d] = {}
    <3>1. d # c /\ state[d] = "CB_NEW" /\ ~Locked(d)
      BY <2>4 DEF Locked
    <3> QED BY <1>3, <3>1 DEF Bound
  <2> QED BY <2>2, <2>3, <2>4 DEF Bound
<1>8. Unlinking'
  <2>1. \A d, m : WillUnlink(d, m)' <=> WillUnlink(d, m)
    BY DEF WillUnlink
  <2>2. \A m \in Node : parents[m] \subseteq parents'[m]
    BY <1>2
  <2>3. \A d \in CB : \A m \in bindings'[d] : m \in bindings[d] \/ (m = n /\ d \in parents'[n])
    BY <1>2, <1>3
  <2> QED BY <2>1, <2>2, <2>3 DEF Unlinking
<1>9. LinkedAlive' /\ InvalidHasReason'
  <2>1. ASSUME NEW d \in CB, NEW s \in linked'[d] PROVE s \in linked[d] \/ (s = n /\ n \in bindings'[d])
    BY <1>2, <1>3
  <2>2. \A d \in CB : bindings[d] \subseteq bindings'[d]
    BY <1>3
  <2> QED BY <2>1, <2>2 DEF LinkedAlive, InvalidHasReason
<1>10. Resets'
  <2>1. \A g \in Host : cur[g] \in Node => parents'[cur[g]] = parents[cur[g]]
    BY <1>2 DEF InCall
  <2> QED BY <1>1, <2>1 DEF Resets, Calls
<1>11. Walks' /\ Paths'
  <2>1. \A m \in Node : Spoiled(m) => Spoiled(m)'
    BY SpoiledKept DEF Locked, Gone
  <2>2. \A m \in Node : Spoiled(m) \/ InCall(m) => parents'[m] = parents[m]
    BY <1>2
  <2> QED BY <2>1, <2>2, WalksKept
<1> QED BY <1>4, <1>5, <1>6, <1>7, <1>8, <1>9, <1>10, <1>11

LEMMA SafeRecord ==
    ASSUME Safe, TypeOK', NEW h \in Host, NEW c \in CB, NEW n \in Image \cup Set, Record(h, c, n)
    PROVE  Safe'
<1>1. ~Spoiled(n) /\ ~InCall(n) /\ life[n] = "live"
  BY SoundIs DEF Safe, Record, Object
<1>2. n \in Node /\ ParentOf(n, c) /\ {n} \cap Secondary = {}
  BY Kinds DEF Node, Object, ParentOf, CB
<1>3. linked' = [linked EXCEPT ![c] = @ \cup ({n} \cap Secondary)]
  BY <1>2 DEF Record, Safe, TypeOK
<1>4. life[c] = "live" /\ state[c] # "CB_NEW"
  BY DEF Record, Recording
<1> QED BY <1>1, <1>2, <1>3, <1>4, SafeAddChild DEF Record

LEMMA SafeExecuteCommands ==
    ASSUME Safe, TypeOK', NEW h \in Host, NEW p \in Primary, NEW s \in Secondary, ExecuteCommands(h, p, s)
    PROVE  Safe'
<1>1. p \in CB /\ s \in CB /\ s \in Node /\ ParentOf(s, p) /\ {s} \cap Secondary = {s}
  BY DEF Node, ParentOf, CB
<1>2. ~Spoiled(s) /\ ~InCall(s) /\ life[s] = "live"
  BY <1>1 DEF ExecuteCommands, Spoiled
<1>3. linked' = [linked EXCEPT ![p] = @ \cup ({s} \cap Secondary)]
  BY <1>1 DEF ExecuteCommands
<1>4. life[p] = "live" /\ state[p] # "CB_NEW"
  BY DEF ExecuteCommands, Recording
<1> QED BY <1>1, <1>2, <1>3, <1>4, SafeAddChild DEF ExecuteCommands

-----------------------------------------------------------------------------
(* Steps that harm what stands on a node *)

\* The nodes that stand on n.
Over(n) == {m \in Node : IF m \in CB THEN n \in Uses(m) ELSE m \notin Image /\ m # n /\ n \in Below(m)}

LEMMA OverIs ==
    ASSUME TypeOK, Structure, Bound, NEW n \in Node
    PROVE  parents[n] \subseteq Over(n) /\ n \notin Over(n) /\ \A m \in Over(n) : parents[m] \subseteq Over(n)
<1>0. /\ \A m \in Node : parents[m] \subseteq Node
      /\ Image \cup View \cup Set = Object /\ Object \cap CB = {} /\ Node = Object \cup CB
      /\ CB = Primary \cup Secondary /\ Primary \cap Secondary = {}
      /\ Image \cap View = {} /\ Image \cap Set = {} /\ View \cap Set = {}
  BY Kinds DEF TypeOK, Node, Object, CB
<1>1. \A x \in Object, c \in CB : c \in parents[x] => \A y \in Below(x) : y \in Uses(c)
  <2> SUFFICES ASSUME NEW x \in Object, NEW c \in CB, c \in parents[x], NEW y \in Below(x) PROVE y \in Uses(c)
    OBVIOUS
  <2>1. x \in used[c]
    BY <1>0 DEF Bound
  <2> QED BY <2>1, UsesAre
<1>2. \A x, c \in CB : c \in parents[x] => x \in Secondary /\ c \in Primary /\ x \in used[c]
  BY <1>0 DEF Structure, ParentOf, Bound
<1>3. \A x, c \in CB : c \in parents[x] => x \in Uses(c) /\ \A y \in Uses(x) : y \in Uses(c)
  <2> SUFFICES ASSUME NEW x \in CB, NEW c \in CB, c \in parents[x]
               PROVE  x \in Uses(c) /\ \A y \in Uses(x) : y \in Uses(c)
    OBVIOUS
  <2>1. x \in Secondary /\ x \in used[c]
    BY <1>2
  <2>2. used[x] \subseteq Object
    BY <1>0, <2>1 DEF Bound
  <2>3. \A y \in Uses(x) : \E z \in used[x] : y \in Below(z)
    BY <1>0, <2>2, UsesAre
  <2> QED BY <2>1, <2>3, UsesAre
<1>4. n \in Below(n)
  BY DEF Below
<1>5. ASSUME NEW p \in parents[n] PROVE p \in Over(n)
  <2>1. p \in Node /\ ParentOf(n, p)
    BY <1>0 DEF Structure
  <2>2. CASE p \in CB
    BY <1>0, <1>1, <1>3, <1>4, <2>1, <2>2 DEF Over
  <2>3. CASE p \in View /\ n \in Image /\ image_of[p] = n
    <3>1. n \in Below(p)
      BY <1>0, <2>1, <2>3, BelowIs, Kinds DEF InBelow
    <3> QED BY <1>0, <2>1, <2>3, <3>1 DEF Over
  <2>4. CASE p \in Set /\ n \in View /\ \E k \in Slot : slot[p][k] = n
    <3>1. n \in Below(p)
      BY <1>0, <2>1, <2>4, BelowIs, Kinds DEF InBelow
    <3> QED BY <1>0, <2>1, <2>4, <3>1 DEF Over
  <2> QED BY <1>0, <2>1, <2>2, <2>3, <2>4 DEF ParentOf
<1>6. n \notin Over(n)
  <2> SUFFICES ASSUME n \in CB, n \in Uses(n) PROVE FALSE
    BY DEF Over
  <2>1. \A z \in Object : n \notin Below(z)
    <3> SUFFICES ASSUME NEW z \in Object, n \in Below(z) PROVE FALSE
      OBVIOUS
    <3>1. InBelow(z, n)
      BY <1>0, BelowIs
    <3>2. /\ \A v \in View : image_of[v] \in Image \cup {None}
          /\ \A t \in Set, k \in Slot : slot[t][k] \in View \cup {None}
      BY DEF TypeOK
    <3> QED BY <1>0, <3>1, <3>2 DEF InBelow
  <2>2. used[n] \subseteq Object \cup (IF n \in Primary THEN Secondary ELSE {})
    BY <1>0 DEF Bound
  <2>3. \A t \in used[n] : t \in Secondary => used[t] \subseteq Object
    BY <1>0 DEF Bound
  <2>4. n \in used[n] /\ n \in Secondary
    BY <1>0, <2>1, <2>2, <2>3, UsesAre
  <2> QED BY <1>0, <2>2, <2>4
<1>7. ASSUME NEW m \in Over(n), NEW p \in parents[m] PROVE p \in Over(n)
  <2>1. m \in Node /\ p \in Node /\ ParentOf(m, p)
    BY <1>0 DEF Structure, Over
  <2>2. CASE m \in CB
    <3>1. n \in Uses(m) /\ p \in CB
      BY <1>0, <2>1, <2>2 DEF Over, ParentOf
    <3> QED BY <1>3, <2>1, <2>2, <3>1 DEF Over
  <2>3. CASE m \notin CB
    <3>1. m \in Object /\ m \notin Image /\ n \in Below(m) /\ m # n
      BY <1>0, <2>1, <2>3 DEF Over
    <3>2. CASE p \in CB
      BY <1>1, <2>1, <3>1, <3>2 DEF Over
    <3>3. CASE p \notin CB
      <4>1. m \in View /\ p \in Set /\ \E k \in Slot : slot[p][k] = m
        BY <1>0, <2>1, <3>1, <3>3 DEF ParentOf
      <4>2. n = image_of[m] /\ n # None
        BY <1>0, <2>1, <3>1, <4>1, BelowIs DEF InBelow
      <4>3. n \in Below(p)
        BY <1>0, <2>1, <4>1, <4>2, BelowIs, Kinds DEF InBelow
      <4>4. n \in Image
        BY <4>1, <4>2 DEF TypeOK
      <4> QED BY <1>0, <2>1, <3>3, <4>1, <4>3, <4>4 DEF Over
    <3> QED BY <3>2, <3>3
  <2> QED BY <2>2, <2>3
<1> QED BY <1>5, <1>6, <1>7

\* A new walk starts at n: it can reach what stands on n, all of which is spoiled.
LEMMA WalksHarm ==
    ASSUME TypeOK, Calls, Structure, Bound, Walks, TypeOK', NEW n \in Node,
           OnTheWay' \subseteq OnTheWay \cup parents[n],
           \A m \in Node : Spoiled(m) \/ m \in Over(n) => parents'[m] \subseteq parents[m],
           Quiet \/ \A m \in Node : Spoiled(m) => Spoiled(m)',
           \A m \in Over(n) : Spoiled(m)'
    PROVE  Walks'
<1>1. PICK O \in SUBSET Node : O = Over(n)
  BY DEF Over
<1>2. parents[n] \subseteq O /\ \A m \in O : parents[m] \subseteq O
  BY <1>1, OverIs
<1>3. \A m \in O : parents'[m] \subseteq O /\ Spoiled(m)'
  BY <1>1, <1>2
<1>4. CASE Quiet
  <2>1. OnTheWay = {}
    BY <1>4, QuietIs
  <2>2. OnTheWay' \subseteq O
    BY <1>2, <2>1
  <2>3. Reach(O)'
    BY <1>3, <2>2 DEF Reach
  <2> QED BY <1>1, <2>3, WalksIsNext
<1>5. CASE \A m \in Node : Spoiled(m) => Spoiled(m)'
  <2>1. PICK Y \in SUBSET Node : Reach(Y)
    BY WalksIs
  <2>2. \A m \in Y : parents'[m] \subseteq Y /\ Spoiled(m)'
    BY <1>5, <2>1 DEF Reach
  <2>3. OnTheWay' \subseteq Y \cup O
    BY <1>2, <2>1 DEF Reach
  <2>4. Reach(Y \cup O)'
    BY <1>3, <2>2, <2>3 DEF Reach
  <2> QED BY <2>4, WalksIsNext
<1> QED BY <1>4, <1>5

LEMMA FrameType ==
    ASSUME TypeOK, NEW h \in Host, NEW f \in Range(frames[h])
    PROVE  f \in Frame /\ Range(f.path) \subseteq Node /\ f.rest \subseteq Node \cup {None}
<1>1. frames[h] \in Seq(Frame)
  BY DEF TypeOK
<1>2. f \in Frame
  BY <1>1, RangeOfSeq
<1>3. f.path \in Seq(Node) /\ f.rest \subseteq Node \cup {None}
  BY <1>2 DEF Frame
<1> QED BY <1>2, <1>3, RangeOfSeq

\* Steps of h in which the other threads' walks keep their paths.
LEMMA PathsKept ==
    ASSUME TypeOK, Calls, Paths, NEW h \in Host,
           \A g \in Host : g # h => hpc'[g] = hpc[g] /\ cur'[g] = cur[g],
           \A g \in Host : g # h => \A f \in Range(frames'[g]) : \E e \in Range(frames[g]) : f.path = e.path,
           hpc'[h] # "update" => \A f \in Range(frames'[h]) : \A n \in Range(f.path) :
               parents'[n] = {} /\ (n = cur'[h] \/ Spoiled(n)'),
           Quiet \/ \A m \in Node : Spoiled(m) => Spoiled(m)',
           \A m \in Node : Spoiled(m) \/ InCall(m) => parents'[m] \subseteq parents[m]
    PROVE  Paths'
<1> SUFFICES ASSUME NEW g \in Host, hpc'[g] # "update", NEW f \in Range(frames'[g]), NEW n \in Range(f.path)
             PROVE  parents'[n] = {} /\ (n = cur'[g] \/ Spoiled(n)')
  BY DEF Paths
<1>1. CASE g = h
  BY <1>1
<1>2. CASE g # h
  <2>1. PICK e \in Range(frames[g]) : f.path = e.path
    BY <1>2
  <2>2. n \in Node
    BY <2>1, FrameType
  <2>3. parents[n] = {} /\ (n = cur[g] \/ Spoiled(n))
    BY <1>2, <2>1 DEF Paths
  <2>4. parents'[n] = {}
    BY <2>2, <2>3 DEF InCall
  <2>5. ~Quiet
    BY <2>1, QuietIs
  <2> QED BY <1>2, <2>2, <2>3, <2>4, <2>5
<1> QED BY <1>1, <1>2

\* A call about n by an idle thread h.
LEMMA EnterIs ==
    ASSUME TypeOK, Calls, NEW h \in Host, NEW pc, NEW n \in Node, ~InCall(n), Enter(h, pc, n)
    PROVE  /\ hpc[h] = "idle" /\ frames[h] = << >> /\ Range(frames[h]) = {}
           /\ hpc'[h] = pc /\ cur'[h] = n
           /\ \A g \in Host : g # h => hpc'[g] = hpc[g] /\ cur'[g] = cur[g] /\ cur[g] # n
           /\ \A f, g \in Host : cur'[f] = cur'[g] /\ cur'[g] # None => f = g
<1>1. hpc[h] = "idle" /\ frames[h] = << >> /\ Range(frames[h]) = {}
  BY NoFrames DEF Enter, Idle, Calls
<1>2. /\ hpc'[h] = pc /\ cur'[h] = n
      /\ \A g \in Host : g # h => hpc'[g] = hpc[g] /\ cur'[g] = cur[g] /\ cur[g] # n
  BY DEF Enter, TypeOK, InCall
<1>3. \A f, g \in Host : cur'[f] = cur'[g] /\ cur'[g] # None => f = g
  <2>1. \A f, g \in Host : cur[f] = cur[g] /\ cur[g] # None => f = g
    BY DEF Calls
  <2> QED BY <1>2, <2>1
<1> QED BY <1>1, <1>2, <1>3

\* The links after Destroy() of n, and the new walk.
LEMMA DestroyIs ==
    ASSUME TypeOK, NEW h \in Host, NEW n \in Object, Destroy(h, n)
    PROVE  /\ \A g \in Host : g # h => frames'[g] = frames[g]
           /\ Range(frames'[h]) = IF parents[n] = {} THEN {} ELSE {[path |-> <<n>>, rest |-> parents[n]]}
           /\ parents'[n] = {}
           /\ \A m \in Node : parents'[m] \subseteq parents[m]
           /\ \A m \in Node : m # n => parents[m] \subseteq parents'[m] \cup {n}
           /\ \A m \in Children(n) : m \in Node => n \notin parents'[m]
<1> DEFINE par == RemoveParent(parents, Children(n), n)
<1>1. Invalidate(h, par, n, TRUE) /\ n \in Node
  BY DEF Destroy, Node
<1>2. n \notin Children(n)
  <2>1. CASE n \in Set
    <3>1. slot[n] \in [Slot -> View \cup {None}]
      BY <2>1 DEF TypeOK
    <3>2. Children(n) \subseteq View
      BY <2>1, <3>1 DEF Children, Range
    <3> QED BY <2>1, <3>2, Kinds
  <2>2. CASE n \in View
    <3>1. Children(n) \subseteq Image
      BY <2>2, Kinds DEF Children, TypeOK
    <3> QED BY <2>2, <3>1, Kinds
  <2>3. CASE n \notin Set \cup View
    BY <2>3 DEF Children
  <2> QED BY <2>1, <2>2, <2>3
<1>3. /\ par \in [Node -> SUBSET Node] /\ par[n] = parents[n]
      /\ \A m \in Node : par[m] = parents[m] \/ par[m] = parents[m] \ {n}
      /\ \A m \in Children(n) : m \in Node => n \notin par[m]
  BY <1>1, <1>2 DEF RemoveParent, TypeOK
<1> HIDE DEF par
<1>4. frames \in [Host -> Seq(Frame)]
  BY DEF TypeOK
<1>5. /\ \A g \in Host : g # h => frames'[g] = frames[g]
      /\ Range(frames'[h]) = IF par[n] = {} THEN {} ELSE {[path |-> <<n>>, rest |-> par[n]]}
      /\ \A m \in Node : parents'[m] = IF m = n THEN {} ELSE par[m]
  <2>1. frames' = [frames EXCEPT ![h] = Activate(<<n>>, par[n])] /\ parents' = [par EXCEPT ![n] = {}]
    BY <1>1 DEF Invalidate, GetParentsForInvalidate
  <2>2. \A m \in Node : parents'[m] = IF m = n THEN {} ELSE par[m]
    BY <1>1, <1>3, <2>1
  <2> QED BY <1>1, <1>3, <1>4, <2>1, <2>2, ActivationIs
<1> QED BY <1>1, <1>3, <1>5

LEMMA SafeDestroy ==
    ASSUME Safe, Careful, TypeOK', NEW h \in Host, NEW n \in Object, Destroy(h, n)
    PROVE  Safe'
<1> USE DEF Safe
<1>1. /\ life[n] = "live" /\ ~InCall(n) /\ \A c \in CB : Locked(c) => n \notin Uses(c)
      /\ life' = [life EXCEPT ![n] = "dying"]
      /\ image_of' = [v \in View |-> IF v = n THEN None ELSE image_of[v]]
      /\ Enter(h, "destroy", n) /\ Harm(n)
      /\ UNCHANGED <<slot, cbVars, after, used, useVars>>
  BY DEF Destroy, MayHarm, Careful
<1>2. /\ n \in Node /\ n # None /\ n \notin CB /\ CB \subseteq Node /\ Object \subseteq Node
      /\ View \subseteq Object /\ Set \subseteq Object /\ Image \subseteq Object
  BY Kinds DEF Node, Object
<1>3. /\ hpc[h] = "idle" /\ frames[h] = << >> /\ Range(frames[h]) = {}
      /\ hpc'[h] = "destroy" /\ cur'[h] = n
      /\ \A g \in Host : g # h => hpc'[g] = hpc[g] /\ cur'[g] = cur[g] /\ cur[g] # n
      /\ \A f, g \in Host : cur'[f] = cur'[g] /\ cur'[g] # None => f = g
  BY <1>1, <1>2, EnterIs
<1>6. /\ \A g \in Host : g # h => frames'[g] = frames[g]
      /\ Range(frames'[h]) = IF parents[n] = {} THEN {} ELSE {[path |-> <<n>>, rest |-> parents[n]]}
  BY DestroyIs
<1>7. /\ parents'[n] = {}
      /\ \A m \in Node : parents'[m] \subseteq parents[m]
      /\ \A m \in Node : m # n => parents[m] \subseteq parents'[m] \cup {n}
      /\ \A m \in Children(n) : m \in Node => n \notin parents'[m]
  BY DestroyIs
<1>8. \A m \in Node : life'[m] = IF m = n THEN "dying" ELSE life[m]
  BY <1>1, <1>2 DEF TypeOK
<1>9. \A c \in CB : hurt'[c] = (hurt[c] \/ n \in Uses(c))
  BY <1>1 DEF Harm
<1>10. \A c \in CB : Locked(c)' <=> Locked(c)
  BY <1>2, <1>3 DEF Locked
<1>11. Calls'
  <2>1. \A g \in Host : g # h /\ cur[g] \in Node => life'[cur[g]] = life[cur[g]] /\ parents'[cur[g]] \subseteq parents[cur[g]]
    BY <1>3, <1>7, <1>8
  <2>2. /\ hpc'[h] = "destroy" /\ cur'[h] \in Object /\ life'[cur'[h]] = "dying" /\ parents'[cur'[h]] = {}
    BY <1>2, <1>3, <1>7, <1>8
  <2>3. ASSUME NEW g \in Host, g # h
        PROVE  /\ hpc'[g] = "idle" => cur'[g] = None
               /\ hpc'[g] \in {"idle", "reset", "submit"} => frames'[g] = << >>
               /\ hpc'[g] = "update" => cur'[g] \in Set
               /\ hpc'[g] = "destroy" => cur'[g] \in Object /\ life'[cur'[g]] = "dying"
               /\ hpc'[g] = "submit" => cur'[g] \in Primary
               /\ hpc'[g] \in {"reset", "unlink"} => cur'[g] \in CB /\ life'[cur'[g]] \in {"live", "dying"}
               /\ hpc'[g] \in {"destroy", "unlink"} => parents'[cur'[g]] = {}
               /\ hpc'[g] = "unlink" => state'[cur'[g]] = "CB_NEW" /\ linked'[cur'[g]] = {}
    <3>1. /\ hpc'[g] = hpc[g] /\ cur'[g] = cur[g] /\ frames'[g] = frames[g]
      BY <1>3, <1>6, <2>3
    <3>2. /\ hpc[g] = "idle" => cur[g] = None
          /\ hpc[g] \in {"idle", "reset", "submit"} => frames[g] = << >>
          /\ hpc[g] = "update" => cur[g] \in Set
          /\ hpc[g] = "destroy" => cur[g] \in Object /\ life[cur[g]] = "dying"
          /\ hpc[g] = "submit" => cur[g] \in Primary
          /\ hpc[g] \in {"reset", "unlink"} => cur[g] \in CB /\ life[cur[g]] \in {"live", "dying"}
          /\ hpc[g] \in {"destroy", "unlink"} => parents[cur[g]] = {}
          /\ hpc[g] = "unlink" => state[cur[g]] = "CB_NEW" /\ linked[cur[g]] = {}
      BY DEF Calls
    <3> QED BY <1>1, <1>2, <1>3, <1>6, <2>1, <2>3, <3>1, <3>2
  <2> QED BY <1>3, <2>2, <2>3 DEF Calls
<1>12. \A v \in View : image_of'[v] = IF v = n THEN None ELSE image_of[v]
  BY <1>1
<1>13. Lives'
  <2>1. /\ \A w \in View : image_of[w] # None => image_of[w] \in Node
        /\ \A s \in Set, k \in Slot : slot[s][k] # None => slot[s][k] \in Node
    BY DEF TypeOK, Node, Object
  <2>2. \A m \in Node : life'[m] = life[m] \/ (m = n /\ life'[m] = "dying")
    BY <1>8
  <2>3. ASSUME NEW m \in Node, life'[m] \in {"none", "dead"} \/ (m \in Object /\ life'[m] = "dying")
        PROVE  parents'[m] = {}
    BY <1>7, <2>2, <2>3 DEF Lives
  <2>4. ASSUME NEW c \in CB
        PROVE  life'[c] # "dead" /\ (life'[c] = "none" => bindings'[c] = {} /\ state'[c] = "CB_NEW")
    BY <1>1, <1>2, <2>2 DEF Lives
  <2>5. ASSUME NEW w \in View
        PROVE  /\ life'[w] = "none" => image_of'[w] = None
               /\ image_of'[w] # None => life'[image_of'[w]] # "none"
    BY <1>2, <1>12, <2>1, <2>2 DEF Lives
  <2>6. ASSUME NEW s \in Set, NEW k \in Slot, slot'[s][k] # None
        PROVE  life'[slot'[s][k]] # "none" /\ life'[s] # "none"
    BY <1>1, <1>2, <2>1, <2>2, <2>6 DEF Lives
  <2> QED BY <2>3, <2>4, <2>5, <2>6 DEF Lives
<1>14. Structure'
  <2> SUFFICES ASSUME NEW m \in Node, NEW p \in parents'[m] PROVE ParentOf(m, p)'
    BY DEF Structure
  <2>1. p \in parents[m] /\ ParentOf(m, p)
    BY <1>7 DEF Structure
  <2>2. CASE m \in Image /\ p \in View /\ image_of[p] = m
    <3>1. p # n
      <4> SUFFICES ASSUME p = n PROVE FALSE
        OBVIOUS
      <4>1. m \in Children(n)
        BY <2>2, Kinds DEF Children, Node
      <4> QED BY <1>7, <4>1
    <3> QED BY <1>12, <2>2, <3>1 DEF ParentOf
  <2>3. CASE ~(m \in Image /\ p \in View /\ image_of[p] = m)
    BY <1>1, <2>1, <2>3 DEF ParentOf
  <2> QED BY <2>2, <2>3
<1>15. Bound'
  <2>1. \A c \in CB, m \in Node : c \in parents'[m] => c \in parents[m]
    BY <1>7
  <2> QED BY <1>1, <1>10, <2>1 DEF Bound
<1>16. Unlinking'
  <2> SUFFICES ASSUME NEW c \in CB, NEW m \in Node, m \in bindings[c] PROVE c \in parents'[m] \/ WillUnlink(c, m)'
    BY <1>1 DEF Unlinking
  <2>1. CASE c \in parents[m]
    <3>1. CASE m = n
      <4> DEFINE f == [path |-> <<n>>, rest |-> parents[n]]
      <4>1. f \in Range(frames'[h])
        BY <1>6, <2>1, <3>1
      <4>2. c \in f.rest /\ m \in Range(f.path)
        BY <1>2, <2>1, <3>1, SingletonPath
      <4> HIDE DEF f
      <4> QED BY <1>3, <4>1, <4>2 DEF WillUnlink
    <3>2. CASE m # n
      BY <1>2, <1>7, <2>1, <3>2
    <3> QED BY <3>1, <3>2
  <2>2. CASE WillUnlink(c, m)
    BY <1>3, <1>6, <2>2 DEF WillUnlink
  <2> QED BY <2>1, <2>2 DEF Unlinking
<1>17. LinkedAlive'
  BY <1>1, <1>2, <1>8 DEF LinkedAlive, TypeOK, CB
<1>18. InvalidHasReason'
  <2> SUFFICES ASSUME NEW d \in CB, life'[d] = "live", state'[d] \in Invalid PROVE hurt'[d]
    BY DEF InvalidHasReason
  <2>1. hurt[d]
    BY <1>1, <1>2, <1>8 DEF InvalidHasReason
  <2> QED BY <1>9, <2>1
<1>19. Resets'
  <2>1. \A g \in Host : hpc'[g] = "reset" => hpc[g] = "reset" /\ cur'[g] = cur[g] /\ parents'[cur'[g]] \subseteq parents[cur[g]]
    BY <1>2, <1>3, <1>7 DEF Calls
  <2>2. \A g \in Host : hpc'[g] = "submit" => hpc[g] = "submit" /\ cur'[g] = cur[g]
    BY <1>3
  <2> QED BY <1>1, <2>1, <2>2 DEF Resets
<1>20. \A m \in Node : Spoiled(m) => Spoiled(m)'
  <2> SUFFICES ASSUME NEW m \in Node, Spoiled(m) PROVE Spoiled(m)'
    OBVIOUS
  <2>1. CASE m \in CB /\ hurt[m] /\ ~Locked(m)
    BY <1>9, <1>10, <2>1, SpoiledIsNext
  <2>2. CASE m \in View \cup Set /\ GoneBelow(m)
    <3>1. \A x \in Node : Gone(x) => Gone(x)'
      BY <1>8 DEF Gone
    <3>2. Gone(n)'
      BY <1>2, <1>8 DEF Gone
    <3>3. /\ \A v \in View : image_of[v] \in Image \cup {None}
          /\ \A s \in Set, k \in Slot : slot[s][k] \in View \cup {None}
          /\ slot' = slot
      BY <1>1 DEF TypeOK
    <3>4. GoneBelow(m)'
      <4>1. CASE Gone(m)
        BY <3>1, <4>1 DEF GoneBelow
      <4>2. CASE m \in View /\ image_of[m] # None /\ Gone(image_of[m])
        BY <1>2, <1>12, <3>1, <3>2, <3>3, <4>2 DEF GoneBelow
      <4>3. ASSUME m \in Set, NEW k \in Slot, slot[m][k] # None,
                   Gone(slot[m][k]) \/ (image_of[slot[m][k]] # None /\ Gone(image_of[slot[m][k]]))
            PROVE  GoneBelow(m)'
        <5> DEFINE v == slot[m][k]
        <5>1. v \in View /\ v \in Node /\ slot'[m][k] = v /\ v # None
          BY <1>2, <3>3, <4>3
        <5>2. CASE Gone(v)
          BY <3>1, <4>3, <5>1, <5>2 DEF GoneBelow
        <5>3. CASE v = n
          BY <3>2, <4>3, <5>1, <5>3 DEF GoneBelow
        <5>4. CASE v # n /\ image_of[v] # None /\ Gone(image_of[v])
          <6>1. image_of'[v] = image_of[v] /\ image_of[v] \in Node
            BY <1>2, <1>12, <3>3, <5>1, <5>4
          <6> QED BY <3>1, <4>3, <5>1, <5>4, <6>1 DEF GoneBelow
        <5> QED BY <4>3, <5>2, <5>3, <5>4
      <4> QED BY <2>2, <4>1, <4>2, <4>3 DEF GoneBelow
    <3> QED BY <2>2, <3>4, SpoiledIsNext
  <2> QED BY <2>1, <2>2, SpoiledIs
<1>21. Walks'
  <2>1. OnTheWay' \subseteq OnTheWay \cup parents[n]
    <3>1. \A g \in Host : hpc'[g] = "reset" => hpc[g] = "reset" /\ parents'[cur'[g]] \subseteq parents[cur[g]]
      BY <1>2, <1>3, <1>7 DEF Calls
    <3>2. \A f \in Range(frames'[h]) : f.rest = parents[n]
      BY <1>6
    <3> QED BY <1>6, <3>1, <3>2 DEF OnTheWay
  <2>2. ASSUME NEW m \in Over(n) PROVE Spoiled(m)'
    <3>0. m \in Node
      BY DEF Over
    <3>1. CASE m \in CB
      BY <1>1, <1>9, <1>10, <3>0, <3>1, SpoiledIsNext DEF Over
    <3>2. CASE m \notin CB
      <4>1. m \in View \cup Set /\ m # n /\ InBelow(m, n)
        BY <3>0, <3>2, BelowIs DEF Over, Node, Object
      <4>2. Gone(n)'
        BY <1>2, <1>8 DEF Gone
      <4>3. \A s \in Set, k \in Slot : slot[s][k] \in View \cup {None}
        BY DEF TypeOK
      <4>4. \A v \in View : image_of[v] = n => v # n
        <5>1. \A v \in View : image_of[v] \in Image \cup {None}
          BY DEF TypeOK
        <5> QED BY <1>2, <5>1, Kinds
      <4>5. GoneBelow(m)'
        <5>1. slot' = slot
          BY <1>1
        <5>2. CASE m \in View /\ n = image_of[m]
          BY <1>2, <1>12, <4>1, <4>2, <5>2 DEF GoneBelow
        <5>3. ASSUME m \in Set, NEW k \in Slot, n = slot[m][k] PROVE GoneBelow(m)'
          BY <1>2, <4>2, <5>1, <5>3 DEF GoneBelow
        <5>4. ASSUME m \in Set, NEW k \in Slot, slot[m][k] # None, n = image_of[slot[m][k]] PROVE GoneBelow(m)'
          <6>1. slot[m][k] \in View /\ slot[m][k] # n
            BY <4>3, <4>4, <5>4
          <6>2. image_of'[slot[m][k]] = n
            BY <1>12, <5>4, <6>1
          <6> QED BY <1>2, <4>2, <5>1, <5>4, <6>2 DEF GoneBelow
        <5> QED BY <4>1, <5>2, <5>3, <5>4 DEF InBelow
      <4> QED BY <3>0, <4>1, <4>5, SpoiledIsNext
    <3> QED BY <3>1, <3>2
  <2> QED BY <1>2, <1>7, <1>20, <2>1, <2>2, WalksHarm
<1>22. Paths'
  <2>1. \A f \in Range(frames'[h]) : Range(f.path) = {n}
    BY <1>2, <1>6, SingletonPath
  <2>2. \A f \in Range(frames'[h]) : \A m \in Range(f.path) : parents'[m] = {} /\ m = cur'[h]
    BY <1>3, <1>7, <2>1
  <2> QED BY <1>3, <1>6, <1>7, <1>20, <2>2, PathsKept
<1> QED BY <1>11, <1>13, <1>14, <1>15, <1>16, <1>17, <1>18, <1>19, <1>21, <1>22

\* The links after ReplaceStatePtr() and the new walk, in the terms of a step.
LEMMA WriteUpdateIs ==
    ASSUME TypeOK, NEW h \in Host, NEW s \in Set, NEW k \in Slot, NEW v \in View, WriteUpdate(h, s, k, v)
    PROVE  /\ \A g \in Host : g # h => frames'[g] = frames[g]
           /\ Range(frames'[h]) = IF parents[s] = {} THEN {} ELSE {[path |-> <<s>>, rest |-> parents[s]]}
           /\ \A m \in Node : m # v => parents'[m] \subseteq parents[m]
           /\ \A m \in Node : parents[m] \subseteq parents'[m] \cup {s}
           /\ \A m \in Node : m \notin View => parents'[m] = parents[m]
           /\ parents'[v] \subseteq parents[v] \cup {s} /\ s \in parents'[v]
<1> DEFINE old == slot[s][k]
           par == ReplaceStatePtr(parents, s, old, v)
<1>1. parents \in [Node -> SUBSET Node] /\ frames \in [Host -> Seq(Frame)] /\ old \in View \cup {None}
  BY DEF TypeOK
<1>2. s \in Node /\ v \in Node /\ s \notin View /\ s # None /\ View \subseteq Node
  BY Kinds DEF Node, Object
<1>3. par = [m \in Node |-> IF m = v THEN (IF m = old THEN parents[m] \ {s} ELSE parents[m]) \cup {s}
                                     ELSE (IF m = old THEN parents[m] \ {s} ELSE parents[m])]
  BY DEF ReplaceStatePtr, AddParent, RemoveParent
<1>4. frames' = [frames EXCEPT ![h] = Activate(<<s>>, par[s])] /\ parents' = par
  BY DEF WriteUpdate, Invalidate, GetParentsForInvalidate
<1> HIDE DEF par, old
<1>5. par \in [Node -> SUBSET Node] /\ par[s] = parents[s]
  BY <1>1, <1>2, <1>3
<1>6. /\ \A g \in Host : g # h => frames'[g] = frames[g]
      /\ Range(frames'[h]) = IF par[s] = {} THEN {} ELSE {[path |-> <<s>>, rest |-> par[s]]}
  BY <1>1, <1>2, <1>4, <1>5, ActivationIs
<1>7. /\ \A m \in Node : m # v /\ m # old => par[m] = parents[m]
      /\ \A m \in Node : m # v /\ m = old => par[m] = parents[m] \ {s}
      /\ par[v] = IF v = old THEN (parents[v] \ {s}) \cup {s} ELSE parents[v] \cup {s}
  BY <1>2, <1>3
<1>8. /\ \A m \in Node : m # v => parents'[m] \subseteq parents[m]
      /\ \A m \in Node : parents[m] \subseteq parents'[m] \cup {s}
  BY <1>2, <1>4, <1>7
<1>9. \A m \in Node : m \notin View => parents'[m] = parents[m]
  BY <1>1, <1>2, <1>4, <1>7, Kinds
<1>10. parents'[v] \subseteq parents[v] \cup {s} /\ s \in parents'[v]
  BY <1>2, <1>4, <1>7
<1> QED BY <1>5, <1>6, <1>8, <1>9, <1>10

LEMMA SafeWriteUpdate ==
    ASSUME Safe, Careful, TypeOK', NEW h \in Host, NEW s \in Set, NEW k \in Slot, NEW v \in View,
           WriteUpdate(h, s, k, v)
    PROVE  Safe'
<1> USE DEF Safe
<1>1. /\ life[s] = "live" /\ ~InCall(s) /\ \A c \in CB : Locked(c) => s \notin Uses(c)
      /\ (\A m \in Below(s) : life[m] = "live") \/ Quiet
      /\ Enter(h, "update", s) /\ Harm(s)
      /\ UNCHANGED <<life, image_of, cbVars, after, used, useVars>>
  BY DEF WriteUpdate, MayUpdate, MayHarm, Careful
<1>2. ~Spoiled(v) /\ ~InCall(v) /\ life[v] = "live"
  BY SoundIs DEF WriteUpdate, Object
<1>3. /\ s \in Node /\ s # None /\ s \notin CB /\ s \notin View /\ s \notin Image
      /\ v \in Node /\ v # None /\ v \notin CB /\ v \notin Set
      /\ CB \subseteq Node /\ Object \subseteq Node /\ View \subseteq Object /\ Set \subseteq Object /\ CB \cap View = {}
  BY Kinds DEF Node, Object
<1>4. /\ hpc[h] = "idle" /\ frames[h] = << >> /\ Range(frames[h]) = {}
      /\ hpc'[h] = "update" /\ cur'[h] = s
      /\ \A g \in Host : g # h => hpc'[g] = hpc[g] /\ cur'[g] = cur[g] /\ cur[g] # s
      /\ \A f, g \in Host : cur'[f] = cur'[g] /\ cur'[g] # None => f = g
  BY <1>1, <1>3, EnterIs
<1>5. /\ \A g \in Host : g # h => frames'[g] = frames[g]
      /\ Range(frames'[h]) = IF parents[s] = {} THEN {} ELSE {[path |-> <<s>>, rest |-> parents[s]]}
      /\ \A m \in Node : m # v => parents'[m] \subseteq parents[m]
      /\ \A m \in Node : parents[m] \subseteq parents'[m] \cup {s}
      /\ \A m \in Node : m \notin View => parents'[m] = parents[m]
      /\ parents'[v] \subseteq parents[v] \cup {s} /\ s \in parents'[v]
  <2>1. TypeOK /\ WriteUpdate(h, s, k, v)
    OBVIOUS
  <2> QED BY ONLY <2>1, WriteUpdateIs, h \in Host, s \in Set, k \in Slot, v \in View
<1>5a. \A m \in Node : m # v /\ m = slot[s][k] => s \notin parents'[m]
  <2>1. parents' = ReplaceStatePtr(parents, s, slot[s][k], v)
    BY DEF WriteUpdate, Invalidate, GetParentsForInvalidate
  <2> QED BY <2>1 DEF ReplaceStatePtr, AddParent, RemoveParent
<1>6. \A t \in Set, j \in Slot : slot'[t][j] = IF t = s /\ j = k THEN v ELSE slot[t][j]
  <2>1. slot' = [slot EXCEPT ![s][k] = v]
    BY DEF WriteUpdate
  <2> QED BY <2>1 DEF TypeOK
<1>7. \A c \in CB : hurt'[c] = (hurt[c] \/ s \in Uses(c))
  BY <1>1 DEF Harm
<1>8. \A c \in CB : Locked(c)' <=> Locked(c)
  BY <1>3, <1>4 DEF Locked
<1>9. \A g \in Host : g # h /\ cur[g] \in Node => parents'[cur[g]] \subseteq parents[cur[g]]
  BY <1>2, <1>5 DEF InCall
<1>10. Calls'
  <2>1. ASSUME NEW g \in Host, g # h
        PROVE  /\ hpc'[g] = "idle" => cur'[g] = None
               /\ hpc'[g] \in {"idle", "reset", "submit"} => frames'[g] = << >>
               /\ hpc'[g] = "update" => cur'[g] \in Set
               /\ hpc'[g] = "destroy" => cur'[g] \in Object /\ life'[cur'[g]] = "dying"
               /\ hpc'[g] = "submit" => cur'[g] \in Primary
               /\ hpc'[g] \in {"reset", "unlink"} => cur'[g] \in CB /\ life'[cur'[g]] \in {"live", "dying"}
               /\ hpc'[g] \in {"destroy", "unlink"} => parents'[cur'[g]] = {}
               /\ hpc'[g] = "unlink" => state'[cur'[g]] = "CB_NEW" /\ linked'[cur'[g]] = {}
    BY <1>1, <1>3, <1>4, <1>5, <1>9, <2>1 DEF Calls
  <2> QED BY <1>4, <2>1 DEF Calls
<1>11. Lives'
  <2>1. \A m \in Node : life[m] # "live" => parents'[m] \subseteq parents[m]
    BY <1>2, <1>5
  <2>2. ASSUME NEW m \in Node, life[m] \in {"none", "dead"} \/ (m \in Object /\ life[m] = "dying")
        PROVE  parents'[m] = {}
    BY <2>1, <2>2 DEF Lives
  <2>3. ASSUME NEW t \in Set, NEW j \in Slot, slot'[t][j] # None
        PROVE  life[slot'[t][j]] # "none" /\ life[t] # "none"
    BY <1>1, <1>2, <1>6, <2>3 DEF Lives
  <2> QED BY <1>1, <2>2, <2>3 DEF Lives
<1>12. Structure'
  <2> SUFFICES ASSUME NEW m \in Node, NEW p \in parents'[m] PROVE ParentOf(m, p)'
    BY DEF Structure
  <2>1. CASE m = v /\ p = s
    BY <1>6, <2>1 DEF ParentOf
  <2>2. CASE ~(m = v /\ p = s)
    <3>1. p \in parents[m] /\ ParentOf(m, p)
      BY <1>5, <2>2 DEF Structure
    <3>2. ASSUME m \in View, p \in Set, NEW j \in Slot, slot[p][j] = m PROVE \E i \in Slot : slot'[p][i] = m
      <4>1. CASE p = s /\ j = k
        <5>1. m # v /\ slot[s][k] = m
          BY <2>2, <3>2, <4>1
        <5>2. s \notin parents'[m]
          BY <1>5a, <5>1
        <5> QED BY <4>1, <5>2
      <4>2. CASE ~(p = s /\ j = k)
        BY <1>6, <3>2, <4>2
      <4> QED BY <4>1, <4>2
    <3> QED BY <1>1, <3>1, <3>2 DEF ParentOf
  <2> QED BY <2>1, <2>2
<1>13. Bound'
  <2>1. \A c \in CB, m \in Node : c \in parents'[m] => c \in parents[m]
    BY <1>3, <1>5
  <2> QED BY <1>1, <1>8, <2>1 DEF Bound
<1>14. Unlinking'
  <2> SUFFICES ASSUME NEW c \in CB, NEW m \in Node, m \in bindings[c] PROVE c \in parents'[m] \/ WillUnlink(c, m)'
    BY <1>1 DEF Unlinking
  <2>1. CASE c \in parents[m]
    BY <1>3, <1>5, <2>1
  <2>2. CASE WillUnlink(c, m)
    BY <1>4, <1>5, <2>2 DEF WillUnlink
  <2> QED BY <2>1, <2>2 DEF Unlinking
<1>15. LinkedAlive'
  BY <1>1 DEF LinkedAlive
<1>16. InvalidHasReason'
  <2> SUFFICES ASSUME NEW d \in CB, life'[d] = "live", state'[d] \in Invalid PROVE hurt'[d]
    BY DEF InvalidHasReason
  <2>1. hurt[d]
    BY <1>1 DEF InvalidHasReason
  <2> QED BY <1>7, <2>1
<1>17. Resets'
  <2>1. \A g \in Host : hpc'[g] = "reset" => hpc[g] = "reset" /\ cur'[g] = cur[g] /\ parents'[cur'[g]] = parents[cur[g]]
    BY <1>3, <1>4, <1>5 DEF Calls
  <2>2. \A g \in Host : hpc'[g] = "submit" => hpc[g] = "submit" /\ cur'[g] = cur[g]
    BY <1>4
  <2> QED BY <1>1, <2>1, <2>2 DEF Resets
<1>18. Quiet \/ \A m \in Node : Spoiled(m) => Spoiled(m)'
  <2> SUFFICES ASSUME ~Quiet, NEW m \in Node, Spoiled(m) PROVE Spoiled(m)'
    OBVIOUS
  <2>1. CASE m \in CB /\ hurt[m] /\ ~Locked(m)
    BY <1>7, <1>8, <2>1, SpoiledIsNext
  <2>2. CASE m \in View \cup Set /\ GoneBelow(m)
    <3>1. m # s
      <4>1. ~Spoiled(s)
        BY <1>1, <1>3 DEF Spoiled, Gone
      <4> QED BY <4>1
    <3>2. \A j \in Slot : m \in Set => slot'[m][j] = slot[m][j]
      BY <1>6, <3>1
    <3>3. \A x : Gone(x)' <=> Gone(x)
      BY <1>1 DEF Gone
    <3>4. image_of' = image_of
      BY <1>1
    <3>5. GoneBelow(m)'
      BY <2>2, <3>2, <3>3, <3>4 DEF GoneBelow
    <3> QED BY <2>2, <3>5, SpoiledIsNext
  <2> QED BY <2>1, <2>2, SpoiledIs
<1>19. \A m \in Node : Spoiled(m) \/ InCall(m) => parents'[m] \subseteq parents[m]
  BY <1>2, <1>5
<1>20. Over(s) \subseteq CB
  <2> SUFFICES ASSUME NEW m \in Node, m \notin CB, m \notin Image, m # s, s \in Below(m) PROVE FALSE
    BY DEF Over
  <2>1. InBelow(m, s)
    BY BelowIs
  <2>2. /\ \A w \in View : image_of[w] \in Image \cup {None}
        /\ \A t \in Set, j \in Slot : slot[t][j] \in View \cup {None}
    BY DEF TypeOK
  <2> QED BY <1>3, <2>1, <2>2, Kinds DEF InBelow
<1>21. Walks'
  <2>1. OnTheWay' \subseteq OnTheWay \cup parents[s]
    <3>1. \A g \in Host : hpc'[g] = "reset" => hpc[g] = "reset" /\ parents'[cur'[g]] = parents[cur[g]]
      BY <1>3, <1>4, <1>5 DEF Calls
    <3>2. \A f \in Range(frames'[h]) : f.rest = parents[s]
      BY <1>5
    <3> QED BY <1>5, <3>1, <3>2 DEF OnTheWay
  <2>2. ASSUME NEW m \in Over(s) PROVE Spoiled(m)' /\ parents'[m] \subseteq parents[m]
    BY <1>1, <1>3, <1>5, <1>7, <1>8, <1>20, SpoiledIsNext DEF Over
  <2> QED BY <1>3, <1>18, <1>19, <2>1, <2>2, WalksHarm
<1>22. Paths'
  BY <1>4, <1>5, <1>18, <1>19, PathsKept
<1> QED BY <1>10, <1>11, <1>12, <1>13, <1>14, <1>15, <1>16, <1>17, <1>21, <1>22

LEMMA SafeCallReset ==
    ASSUME Safe, Careful, TypeOK', NEW h \in Host, NEW c \in CB, NEW why, CallReset(h, c, why)
    PROVE  Safe'
<1> USE DEF Safe
<1>1. /\ life[c] = "live" /\ ~InCall(c) /\ ~Busy(c) /\ (~hurt[c] \/ Quiet)
      /\ \A d \in CB : Locked(d) => c \notin Uses(d)
      /\ life' = IF why = "free" THEN [life EXCEPT ![c] = "dying"] ELSE life
      /\ Enter(h, "reset", c) /\ Harm(c)
      /\ UNCHANGED <<parents, image_of, slot, cbVars, frames, used, useVars>>
  BY DEF CallReset, MayReset, MayHarm, Careful
<1>2. c \in Node /\ c # None /\ c \notin Object /\ CB \subseteq Node /\ Object \subseteq Node
  BY Kinds DEF Node, Object
<1>3. /\ hpc[h] = "idle" /\ frames[h] = << >> /\ Range(frames[h]) = {}
      /\ hpc'[h] = "reset" /\ cur'[h] = c
      /\ \A g \in Host : g # h => hpc'[g] = hpc[g] /\ cur'[g] = cur[g] /\ cur[g] # c
      /\ \A f, g \in Host : cur'[f] = cur'[g] /\ cur'[g] # None => f = g
  BY <1>1, <1>2, EnterIs
<1>4. \A m \in Node : life'[m] = life[m] \/ (m = c /\ life'[m] = "dying")
  BY <1>1, <1>2 DEF TypeOK
<1>5. \A d \in CB : hurt'[d] = (hurt[d] \/ c \in Uses(d))
  BY <1>1 DEF Harm
<1>6. \A d \in CB : Locked(d)' <=> Locked(d) \/ d = c
  BY <1>2, <1>3 DEF Locked
<1>7. Calls'
  <2>1. ASSUME NEW g \in Host, g # h
        PROVE  /\ hpc'[g] = "idle" => cur'[g] = None
               /\ hpc'[g] \in {"idle", "reset", "submit"} => frames'[g] = << >>
               /\ hpc'[g] = "update" => cur'[g] \in Set
               /\ hpc'[g] = "destroy" => cur'[g] \in Object /\ life'[cur'[g]] = "dying"
               /\ hpc'[g] = "submit" => cur'[g] \in Primary
               /\ hpc'[g] \in {"reset", "unlink"} => cur'[g] \in CB /\ life'[cur'[g]] \in {"live", "dying"}
               /\ hpc'[g] \in {"destroy", "unlink"} => parents'[cur'[g]] = {}
               /\ hpc'[g] = "unlink" => state'[cur'[g]] = "CB_NEW" /\ linked'[cur'[g]] = {}
    BY <1>1, <1>2, <1>3, <1>4, <2>1 DEF Calls
  <2>2. life'[c] \in {"live", "dying"} /\ frames'[h] = << >>
    BY <1>1, <1>2, <1>3, <1>4
  <2> QED BY <1>3, <2>1, <2>2 DEF Calls
<1>8. Lives'
  <2>1. /\ \A w \in View : image_of[w] # None => image_of[w] \in Object
        /\ \A s \in Set, k \in Slot : slot[s][k] # None => slot[s][k] \in Object
        /\ View \subseteq Object /\ Set \subseteq Object
    BY DEF TypeOK, Object
  <2>2. \A m \in Object : life'[m] = life[m]
    BY <1>2, <1>4
  <2>3. ASSUME NEW m \in Node, life'[m] \in {"none", "dead"} \/ (m \in Object /\ life'[m] = "dying")
        PROVE  parents'[m] = {}
    BY <1>1, <1>4, <2>2, <2>3 DEF Lives
  <2>4. ASSUME NEW d \in CB
        PROVE  life'[d] # "dead" /\ (life'[d] = "none" => bindings'[d] = {} /\ state'[d] = "CB_NEW")
    BY <1>1, <1>2, <1>4 DEF Lives
  <2> QED BY <1>1, <2>1, <2>2, <2>3, <2>4 DEF Lives
<1>9. Structure' /\ Unlinking'
  BY <1>1, <1>3, LinksKept
<1>10. Bound'
  BY <1>1, <1>6 DEF Bound
<1>11. LinkedAlive'
  BY <1>1, <1>2, <1>4 DEF LinkedAlive, TypeOK, CB
<1>12. InvalidHasReason'
  <2> SUFFICES ASSUME NEW d \in CB, life'[d] = "live", state'[d] \in Invalid PROVE hurt'[d]
    BY DEF InvalidHasReason
  <2>1. hurt[d]
    BY <1>1, <1>2, <1>4 DEF InvalidHasReason
  <2> QED BY <1>5, <2>1
<1>13. \A p \in Primary : p = c \/ p \in parents[c] => ~Pending(p)
  <2> SUFFICES ASSUME NEW p \in Primary, p = c \/ p \in parents[c] PROVE ~Pending(p)
    OBVIOUS
  <2>1. p \in parents[c] => c \in Uses(p)
    <3>1. p \in Over(c) /\ p \in CB <=> p \in Over(c)
      BY DEF CB
    <3> QED BY <1>2, <3>1, OverIs DEF Over
  <2> QED BY <1>1, <2>1 DEF Busy
<1>14. Resets'
  <2> SUFFICES ASSUME NEW g \in Host, hpc'[g] = "reset", NEW p \in Primary, p = cur'[g] \/ p \in parents[cur'[g]]
               PROVE  in_use'[p] = 0 /\ \A f \in Host : ~(hpc'[f] = "submit" /\ cur'[f] = p)
    BY <1>1 DEF Resets
  <2>1. \A f \in Host : hpc'[f] = "submit" => hpc[f] = "submit" /\ cur'[f] = cur[f]
    BY <1>3
  <2>2. CASE g = h
    <3>1. ~Pending(p)
      BY <1>3, <1>13, <2>2
    <3>2. in_use[p] \in Nat
      BY DEF TypeOK
    <3> QED BY <1>1, <2>1, <3>1, <3>2 DEF Pending
  <2>3. CASE g # h
    BY <1>1, <1>3, <2>1, <2>3 DEF Resets
  <2> QED BY <2>2, <2>3
<1>15. Quiet \/ \A m \in Node : Spoiled(m) => Spoiled(m)'
  <2> SUFFICES ASSUME ~Quiet PROVE \A m \in Node : Spoiled(m) => Spoiled(m)'
    OBVIOUS
  <2>1. \A d \in CB : hurt[d] /\ ~Locked(d) => hurt'[d] /\ ~Locked(d)'
    BY <1>1, <1>5, <1>6
  <2>2. \A m \in Object : Gone(m) => Gone(m)'
    BY <1>2, <1>4 DEF Gone
  <2> QED BY <1>1, <2>1, <2>2, SpoiledKept
<1>16. Walks'
  <2>1. OnTheWay' \subseteq OnTheWay \cup parents[c]
    BY <1>1, <1>3 DEF OnTheWay
  <2>2. ASSUME NEW m \in Over(c) PROVE Spoiled(m)'
    <3>1. m \in Node /\ m # c
      BY <1>2, OverIs DEF Over
    <3>2. m \in CB
      <4> SUFFICES ASSUME m \notin CB PROVE FALSE
        OBVIOUS
      <4>1. InBelow(m, c)
        BY <3>1, BelowIs DEF Over
      <4>2. /\ \A w \in View : image_of[w] \in Object \cup {None}
            /\ \A t \in Set, j \in Slot : slot[t][j] \in View \cup {None}
            /\ View \subseteq Object
        BY DEF TypeOK, Object
      <4> QED BY <1>2, <3>1, <4>1, <4>2 DEF InBelow
    <3>3. c \in Uses(m)
      BY <3>2 DEF Over
    <3> QED BY <1>1, <1>5, <1>6, <3>1, <3>2, <3>3, SpoiledIsNext
  <2> QED BY <1>1, <1>2, <1>15, <2>1, <2>2, WalksHarm
<1>17. Paths'
  BY <1>1, <1>3, <1>15, PathsKept
<1> QED BY <1>7, <1>8, <1>9, <1>10, <1>11, <1>12, <1>14, <1>16, <1>17

-----------------------------------------------------------------------------
(* Steps of a walk *)

LEMMA SafeReset ==
    ASSUME Safe, TypeOK', NEW h \in Host, Reset(h)
    PROVE  Safe'
<1> USE DEF Safe
<1>0. PICK c : c = cur[h]
  OBVIOUS
<1>1. /\ hpc[h] = "reset"
      /\ state' = [state EXCEPT ![c] = "CB_NEW"] /\ linked' = [linked EXCEPT ![c] = {}]
      /\ hpc' = [hpc EXCEPT ![h] = "unlink"]
      /\ frames' = [frames EXCEPT ![h] = Activate(<<c>>, parents[c])] /\ parents' = [parents EXCEPT ![c] = {}]
      /\ UNCHANGED <<life, image_of, slot, bindings, cur, after, appVars, useVars>>
  BY <1>0 DEF Reset, Invalidate, GetParentsForInvalidate
<1>2. c \in CB /\ c \in Node /\ life[c] \in {"live", "dying"} /\ frames[h] = << >> /\ Range(frames[h]) = {}
  BY <1>0, <1>1, NoFrames DEF Calls, Node
<1>3. /\ \A g \in Host : g # h => frames'[g] = frames[g]
      /\ Range(frames'[h]) = IF parents[c] = {} THEN {} ELSE {[path |-> <<c>>, rest |-> parents[c]]}
  <2>1. frames \in [Host -> Seq(Frame)] /\ parents \in [Node -> SUBSET Node]
    BY DEF TypeOK
  <2> QED BY <1>1, <1>2, <2>1, ActivationIs
<1>4. /\ parents'[c] = {} /\ \A m \in Node : m # c => parents'[m] = parents[m]
      /\ state'[c] = "CB_NEW" /\ \A d \in CB : d # c => state'[d] = state[d]
      /\ linked'[c] = {} /\ \A d \in CB : d # c => linked'[d] = linked[d]
      /\ hpc'[h] = "unlink" /\ \A g \in Host : g # h => hpc'[g] = hpc[g]
  BY <1>1, <1>2 DEF TypeOK
<1>5. \A g \in Host : g # h => cur[g] # c
  BY <1>0, <1>2, Kinds DEF Calls
<1>6. \A d \in CB : Locked(d)' <=> Locked(d)
  BY <1>0, <1>1, <1>4 DEF Locked
<1>7. Calls'
  <2>1. ASSUME NEW g \in Host, g # h
        PROVE  /\ hpc'[g] = "idle" => cur'[g] = None
               /\ hpc'[g] \in {"idle", "reset", "submit"} => frames'[g] = << >>
               /\ hpc'[g] = "update" => cur'[g] \in Set
               /\ hpc'[g] = "destroy" => cur'[g] \in Object /\ life'[cur'[g]] = "dying"
               /\ hpc'[g] = "submit" => cur'[g] \in Primary
               /\ hpc'[g] \in {"reset", "unlink"} => cur'[g] \in CB /\ life'[cur'[g]] \in {"live", "dying"}
               /\ hpc'[g] \in {"destroy", "unlink"} => parents'[cur'[g]] = {}
               /\ hpc'[g] = "unlink" => state'[cur'[g]] = "CB_NEW" /\ linked'[cur'[g]] = {}
    BY <1>1, <1>3, <1>4, <1>5, <2>1 DEF Calls, Node
  <2>2. \A f, g \in Host : cur'[f] = cur'[g] /\ cur'[g] # None => f = g
    BY <1>1 DEF Calls
  <2> QED BY <1>0, <1>1, <1>2, <1>4, <2>1, <2>2 DEF Calls
<1>8. Lives'
  <2>1. \A m \in Node : parents'[m] \subseteq parents[m]
    BY <1>4
  <2>2. \A d \in CB : state'[d] = state[d] \/ state'[d] = "CB_NEW"
    BY <1>4
  <2> QED BY <1>1, <2>1, <2>2 DEF Lives
<1>9. Structure' /\ Bound'
  <2>1. \A m \in Node : parents'[m] \subseteq parents[m]
    BY <1>4
  <2>2. \A m \in Node : \A p : ParentOf(m, p)' <=> ParentOf(m, p)
    BY <1>1 DEF ParentOf
  <2>3. Structure'
    BY <2>1, <2>2 DEF Structure
  <2>4. Locked(c)
    BY <1>0, <1>1 DEF Locked
  <2>5. Bound'
    BY <1>1, <1>4, <1>6, <2>1, <2>4 DEF Bound
  <2> QED BY <2>3, <2>5
<1>10. Unlinking'
  <2> SUFFICES ASSUME NEW d \in CB, NEW m \in Node, m \in bindings[d] PROVE d \in parents'[m] \/ WillUnlink(d, m)'
    BY <1>1 DEF Unlinking
  <2>1. CASE d \in parents[m] /\ m = c
    <3> DEFINE f == [path |-> <<c>>, rest |-> parents[c]]
    <3>1. f \in Range(frames'[h])
      BY <1>3, <2>1
    <3>2. d \in f.rest /\ m \in Range(f.path)
      BY <1>2, <2>1, SingletonPath
    <3> HIDE DEF f
    <3> QED BY <1>4, <3>1, <3>2 DEF WillUnlink
  <2>2. CASE d \in parents[m] /\ m # c
    BY <1>4, <2>2
  <2>3. CASE WillUnlink(d, m)
    BY <1>2, <1>3, <1>4, <2>3 DEF WillUnlink
  <2> QED BY <2>1, <2>2, <2>3 DEF Unlinking
<1>11. LinkedAlive'
  <2>1. \A d \in CB : linked'[d] \subseteq linked[d]
    BY <1>4
  <2> QED BY <1>1, <2>1 DEF LinkedAlive
<1>12. InvalidHasReason'
  BY <1>1, <1>4 DEF InvalidHasReason, Invalid
<1>13. Resets'
  <2>1. \A g \in Host : hpc'[g] = "reset" => hpc[g] = "reset" /\ cur'[g] = cur[g] /\ parents'[cur'[g]] = parents[cur[g]]
    BY <1>1, <1>4, <1>5 DEF Calls, Node
  <2>2. \A g \in Host : hpc'[g] = "submit" => hpc[g] = "submit" /\ cur'[g] = cur[g]
    BY <1>1, <1>4
  <2> QED BY <1>1, <2>1, <2>2 DEF Resets
<1>14. \A m \in Node : Spoiled(m) => Spoiled(m)'
  BY <1>1, <1>6, SpoiledKept DEF Gone
<1>15. Walks'
  <2>1. PICK Y \in SUBSET Node : Reach(Y)
    BY WalksIs
  <2>2. OnTheWay' \subseteq OnTheWay
    <3>1. \A f \in Range(frames'[h]) : f.rest = parents[cur[h]]
      BY <1>0, <1>3
    <3>2. \A g \in Host : hpc'[g] = "reset" => hpc[g] = "reset" /\ parents'[cur'[g]] = parents[cur[g]]
      BY <1>1, <1>4, <1>5 DEF Calls, Node
    <3> QED BY <1>1, <1>3, <3>1, <3>2 DEF OnTheWay
  <2>3. \A m \in Node : parents'[m] \subseteq parents[m]
    BY <1>4
  <2>4. Reach(Y)'
    BY <1>14, <2>1, <2>2, <2>3 DEF Reach
  <2> QED BY <2>4, WalksIsNext
<1>16. Paths'
  <2>1. \A f \in Range(frames'[h]) : Range(f.path) = {c}
    BY <1>2, <1>3, SingletonPath
  <2>2. \A f \in Range(frames'[h]) : \A m \in Range(f.path) : parents'[m] = {} /\ m = cur'[h]
    BY <1>0, <1>1, <1>4, <2>1
  <2>3. \A m \in Node : parents'[m] \subseteq parents[m]
    BY <1>4
  <2> QED BY <1>1, <1>3, <1>4, <1>14, <2>2, <2>3, PathsKept
<1> QED BY <1>7, <1>8, <1>9, <1>10, <1>11, <1>12, <1>13, <1>15, <1>16

\* A walk passes over a parent that is gone.
LEMMA SafeSkipped ==
    ASSUME Safe, TypeOK', NEW h \in Host, NEW low, NEW top \in Frame, NEW p \in top.rest,
           Range(frames[h]) = low \cup {top}, frames[h] # << >>,
           \A g \in Host : g # h => frames'[g] = frames[g],
           UNCHANGED <<life, image_of, slot, hpc, cur, after, appVars, useVars>>,
           Skipped(h, low, top, p)
    PROVE  Safe'
<1> USE DEF Safe
<1>1. ~Found(p) /\ Range(frames'[h]) = low \cup Kept(top, p) /\ UNCHANGED <<cbVars, parents>>
  BY DEF Skipped
<1>2. hpc[h] \notin {"idle", "reset", "submit"}
  BY DEF Calls
<1>3. \A f \in Range(frames'[h]) : \E e \in Range(frames[h]) : f.path = e.path /\ f.rest \subseteq e.rest
  BY <1>1 DEF Kept
<1>4. \A e \in Range(frames[h]) : \A x \in e.rest : x # p => \E f \in Range(frames'[h]) : f.path = e.path /\ x \in f.rest
  <2> SUFFICES ASSUME NEW e \in Range(frames[h]), NEW x \in e.rest, x # p
               PROVE  \E f \in Range(frames'[h]) : f.path = e.path /\ x \in f.rest
    OBVIOUS
  <2>1. CASE e \in low
    BY <1>1, <2>1
  <2>2. CASE e = top
    <3> DEFINE f == [path |-> top.path, rest |-> top.rest \ {p}]
    <3>1. f \in Range(frames'[h])
      BY <1>1, <2>2 DEF Kept
    <3>2. f.path = e.path /\ x \in f.rest
      BY <2>2
    <3> QED BY <3>1, <3>2
  <2> QED BY <2>1, <2>2
<1>5. Calls'
  <2>1. \A g \in Host : hpc[g] \in {"idle", "reset", "submit"} => frames'[g] = << >>
    BY <1>2 DEF Calls
  <2> QED BY <1>1, <2>1 DEF Calls
<1>6. Lives' /\ Structure' /\ Bound' /\ LinkedAlive' /\ InvalidHasReason' /\ Resets'
  BY <1>1 DEF Lives, Structure, ParentOf, Bound, Locked, LinkedAlive, InvalidHasReason, Resets
<1>7. Unlinking'
  <2> SUFFICES ASSUME NEW d \in CB, NEW m \in Node, m \in bindings[d], WillUnlink(d, m) PROVE WillUnlink(d, m)'
    BY <1>1 DEF Unlinking
  <2>1. d # p
    <3>1. d \in Node /\ d # None
      BY Kinds DEF Node
    <3>2. life[d] \in {"live", "dying"}
      BY <3>1 DEF Lives, TypeOK
    <3> QED BY <1>1, <3>1, <3>2 DEF Found
  <2>2. PICK g \in Host : hpc[g] # "update" /\ \E e \in Range(frames[g]) : d \in e.rest /\ m \in Range(e.path)
    BY DEF WillUnlink
  <2>3. PICK e \in Range(frames[g]) : d \in e.rest /\ m \in Range(e.path)
    BY <2>2
  <2>4. \E f \in Range(frames'[g]) : d \in f.rest /\ m \in Range(f.path)
    <3>1. CASE g = h
      <4>1. PICK f \in Range(frames'[h]) : f.path = e.path /\ d \in f.rest
        BY <1>4, <2>1, <2>3, <3>1
      <4> QED BY <2>3, <3>1, <4>1
    <3>2. CASE g # h
      BY <2>3, <3>2
    <3> QED BY <3>1, <3>2
  <2> QED BY <2>2, <2>4 DEF WillUnlink
<1>8. \A m \in Node : Spoiled(m) => Spoiled(m)'
  BY SpoiledKept DEF Gone, Locked
<1>9. Walks'
  <2>1. PICK Y \in SUBSET Node : Reach(Y)
    BY WalksIs
  <2>2. OnTheWay' \subseteq OnTheWay
    BY <1>1, <1>3 DEF OnTheWay
  <2>3. Reach(Y)'
    BY <1>1, <1>8, <2>1, <2>2 DEF Reach
  <2> QED BY <2>3, WalksIsNext
<1>10. Paths'
  <2>1. hpc'[h] # "update" => \A f \in Range(frames'[h]) : \A m \in Range(f.path) :
            parents'[m] = {} /\ (m = cur'[h] \/ Spoiled(m)')
    <3> SUFFICES ASSUME hpc[h] # "update", NEW f \in Range(frames'[h]), NEW m \in Range(f.path)
                 PROVE  parents[m] = {} /\ (m = cur[h] \/ Spoiled(m)')
      BY <1>1
    <3>1. PICK e \in Range(frames[h]) : f.path = e.path
      BY <1>3
    <3>2. parents[m] = {} /\ (m = cur[h] \/ Spoiled(m))
      BY <3>1 DEF Paths
    <3>3. m \in Node
      BY <3>1, FrameType
    <3> QED BY <1>8, <3>2, <3>3
  <2> QED BY <1>1, <1>8, <2>1, PathsKept
<1> QED BY <1>5, <1>6, <1>7, <1>9, <1>10

\* A walk visits a parent: it was spoiled, so nothing can have been recorded with it
\* since, and what is above it is still to be visited.
LEMMA SafeVisited ==
    ASSUME Safe, TypeOK', NEW h \in Host, NEW low, NEW top \in Frame, NEW p \in top.rest,
           Range(frames[h]) = low \cup {top}, frames[h] # << >>,
           \A g \in Host : g # h => frames'[g] = frames[g],
           UNCHANGED <<life, image_of, slot, hpc, cur, after, appVars, useVars>>,
           Visited(h, low, top, p)
    PROVE  Safe'
<1> USE DEF Safe
<1>1. /\ p \in Node /\ life[p] \in {"live", "dying"} /\ (p \in CB => ~Locked(p))
      /\ Range(frames'[h]) = low \cup Kept(top, p) \cup Deeper(top, p)
      /\ Range(Append(top.path, p)) = Range(top.path) \cup {p}
  BY DEF Visited, Found
<1>2. hpc[h] \notin {"idle", "reset", "submit"}
  BY DEF Calls
<1>3. PICK Y \in SUBSET Node : Reach(Y)
  BY WalksIs
<1>4. p \in Y /\ Spoiled(p) /\ parents[p] \subseteq Y
  <2>1. p \in OnTheWay
    BY <1>1 DEF OnTheWay
  <2> QED BY <1>3, <2>1 DEF Reach
<1>5. \A m \in Node : parents'[m] = IF m = p /\ hpc[h] # "update" THEN {} ELSE parents[m]
  BY <1>1 DEF Visited, TypeOK
<1>6. \A m \in Node : parents'[m] \subseteq parents[m] /\ (m # p => parents'[m] = parents[m])
  BY <1>5
<1>7. \A d \in CB : Locked(d)' <=> Locked(d)
  BY DEF Locked
\* What Break() does to the command buffer, if it is one.
<1>8. /\ \A d \in CB : d # p => state'[d] = state[d] /\ bindings'[d] = bindings[d] /\ linked'[d] = linked[d]
      /\ p \in CB => /\ state'[p] = Invalidated(state[p])
                     /\ hpc[h] = "update" => bindings'[p] = bindings[p] /\ linked'[p] = linked[p]
                     /\ hpc[h] # "update" => /\ bindings'[p] = bindings[p] \ Range(top.path)
                                             /\ linked'[p] = linked[p] \ Range(top.path)
  <2>1. CASE p \in CB
    <3>1. Break(p, top.path, hpc[h] # "update")
      BY <2>1 DEF Visited
    <3> QED BY <2>1, <3>1 DEF Break, TypeOK
  <2>2. CASE p \notin CB
    BY <2>2 DEF Visited
  <2> QED BY <2>1, <2>2
<1>9. \A d \in CB : bindings'[d] \subseteq bindings[d] /\ linked'[d] \subseteq linked[d]
  BY <1>8
<1>10. \A d \in CB : /\ state'[d] # state[d] => state'[d] \in Invalid /\ d = p
                     /\ state'[d] = "CB_NEW" => state[d] = "CB_NEW"
  <2> SUFFICES ASSUME NEW d \in CB
               PROVE  /\ state'[d] # state[d] => state'[d] \in Invalid /\ d = p
                      /\ state'[d] = "CB_NEW" => state[d] = "CB_NEW"
    OBVIOUS
  <2>1. CASE d = p
    <3>1. state'[p] = Invalidated(state[p]) /\ state[p] \in CB_STATE
      BY <1>8, <2>1 DEF TypeOK
    <3> QED BY <2>1, <3>1 DEF Invalidated, Invalid, CB_STATE
  <2>2. CASE d # p
    BY <1>8, <2>2
  <2> QED BY <2>1, <2>2
<1>11. \A e \in Range(frames[h]) : \A x \in e.rest : x # p => \E f \in Range(frames'[h]) : f.path = e.path /\ x \in f.rest
  <2> SUFFICES ASSUME NEW e \in Range(frames[h]), NEW x \in e.rest, x # p
               PROVE  \E f \in Range(frames'[h]) : f.path = e.path /\ x \in f.rest
    OBVIOUS
  <2>1. CASE e \in low
    BY <1>1, <2>1
  <2>2. CASE e = top
    <3> DEFINE f == [path |-> top.path, rest |-> top.rest \ {p}]
    <3>1. f \in Range(frames'[h])
      BY <1>1, <2>2 DEF Kept
    <3>2. f.path = e.path /\ x \in f.rest
      BY <2>2
    <3> QED BY <3>1, <3>2
  <2> QED BY <2>1, <2>2
<1>12. \A f \in Range(frames'[h]) :
          \/ \E e \in Range(frames[h]) : f.path = e.path /\ f.rest \subseteq e.rest
          \/ f.path = Append(top.path, p) /\ f.rest = parents[p]
  BY <1>1 DEF Kept, Deeper
<1>13. Calls'
  <2>1. \A g \in Host : hpc[g] \in {"idle", "reset", "submit"} => frames'[g] = << >>
    BY <1>2 DEF Calls
  <2>2. \A g \in Host : hpc[g] = "unlink" => cur[g] # p
    BY <1>1 DEF Locked, Calls
  <2>3. ASSUME NEW g \in Host
        PROVE  /\ hpc'[g] \in {"destroy", "unlink"} => parents'[cur'[g]] = {}
               /\ hpc'[g] = "unlink" => state'[cur'[g]] = "CB_NEW" /\ linked'[cur'[g]] = {}
    <3>1. hpc'[g] = hpc[g] /\ cur'[g] = cur[g]
      OBVIOUS
    <3>2. /\ hpc[g] \in {"destroy", "unlink"} => parents[cur[g]] = {} /\ cur[g] \in Node
          /\ hpc[g] = "unlink" => state[cur[g]] = "CB_NEW" /\ linked[cur[g]] = {} /\ cur[g] \in CB
      BY DEF Calls, Node
    <3>3. hpc[g] \in {"destroy", "unlink"} => parents'[cur[g]] = {}
      BY <1>6, <3>2
    <3>4. hpc[g] = "unlink" => state'[cur[g]] = "CB_NEW" /\ linked'[cur[g]] = {}
      BY <1>8, <2>2, <3>2
    <3> QED BY <3>1, <3>3, <3>4
  <2> QED BY <2>1, <2>3 DEF Calls
<1>14. Lives'
  <2>1. \A d \in CB : life[d] = "none" => d # p
    BY <1>1
  <2>2. \A m \in Node : parents[m] = {} => parents'[m] = {}
    BY <1>6
  <2>3. \A d \in CB : life[d] = "none" => bindings'[d] = bindings[d] /\ state'[d] = state[d]
    BY <1>8, <2>1
  <2> QED BY <2>2, <2>3 DEF Lives
<1>15. Structure'
  <2>1. \A m \in Node : \A q : ParentOf(m, q)' <=> ParentOf(m, q)
    BY DEF ParentOf
  <2> QED BY <1>6, <2>1 DEF Structure
<1>16. ASSUME hpc[h] # "update", NEW m \in Range(top.path)
       PROVE  parents[m] = {} /\ (m = cur[h] \/ Spoiled(m)) /\ m \in Node
  BY <1>16, FrameType DEF Paths
<1>17. Bound'
  <2>1. ASSUME NEW d \in CB, NEW m \in Node, d \in parents'[m] PROVE m \in bindings'[d]
    <3>1. d \in parents[m] /\ m \in bindings[d]
      BY <1>6, <2>1 DEF Bound
    <3>2. CASE d = p /\ hpc[h] # "update"
      BY <1>8, <1>16, <3>1, <3>2
    <3>3. CASE ~(d = p /\ hpc[h] # "update")
      BY <1>8, <3>1, <3>3
    <3> QED BY <3>2, <3>3
  <2>2. \A d \in CB : state'[d] = "CB_NEW" /\ ~Locked(d)' => bindings'[d] = {}
    BY <1>7, <1>9, <1>10 DEF Bound
  <2>3. \A d \in CB : bindings'[d] \subseteq used'[d]
    BY <1>9 DEF Bound
  <2> QED BY <2>1, <2>2, <2>3 DEF Bound
<1>18. Unlinking'
  <2> SUFFICES ASSUME NEW d \in CB, NEW m \in Node, m \in bindings'[d] PROVE d \in parents'[m] \/ WillUnlink(d, m)'
    BY DEF Unlinking
  <2>1. m \in bindings[d]
    BY <1>9
  <2>2. CASE d \in parents[m]
    <3>1. CASE m = p /\ hpc[h] # "update"
      <4> DEFINE f == [path |-> Append(top.path, p), rest |-> parents[p]]
      <4>1. f \in Range(frames'[h])
        BY <1>1, <2>2, <3>1 DEF Deeper
      <4>2. d \in f.rest /\ m \in Range(f.path)
        BY <1>1, <2>2, <3>1
      <4> HIDE DEF f
      <4> QED BY <3>1, <4>1, <4>2 DEF WillUnlink
    <3>2. CASE ~(m = p /\ hpc[h] # "update")
      BY <1>5, <2>2, <3>2
    <3> QED BY <3>1, <3>2
  <2>3. CASE WillUnlink(d, m)
    <3>1. PICK g \in Host : hpc[g] # "update" /\ \E e \in Range(frames[g]) : d \in e.rest /\ m \in Range(e.path)
      BY <2>3 DEF WillUnlink
    <3>2. PICK e \in Range(frames[g]) : d \in e.rest /\ m \in Range(e.path)
      BY <3>1
    <3>3. CASE g # h
      BY <3>1, <3>2, <3>3 DEF WillUnlink
    <3>4. CASE g = h /\ d # p
      <4>1. PICK f \in Range(frames'[h]) : f.path = e.path /\ d \in f.rest
        BY <1>11, <3>2, <3>4
      <4> QED BY <3>1, <3>2, <3>4, <4>1 DEF WillUnlink
    <3>5. CASE g = h /\ d = p
      \* Break() has removed the binding, unless the frame is one below the top.
      <4>1. e # top
        BY <1>8, <3>1, <3>2, <3>5
      <4>2. e \in Range(frames'[h])
        BY <1>1, <3>2, <3>5, <4>1
      <4> QED BY <3>1, <3>2, <3>5, <4>2 DEF WillUnlink
    <3> QED BY <3>3, <3>4, <3>5
  <2> QED BY <2>1, <2>2, <2>3 DEF Unlinking
<1>19. LinkedAlive'
  <2> SUFFICES ASSUME NEW d \in CB, NEW s \in linked'[d] PROVE s \in bindings'[d] /\ life'[s] \in {"live", "dying"}
    BY DEF LinkedAlive
  <2>1. s \in linked[d] /\ s \in bindings[d] /\ life[s] \in {"live", "dying"}
    BY <1>9 DEF LinkedAlive
  <2>2. CASE d = p /\ hpc[h] # "update"
    BY <1>8, <2>1, <2>2
  <2>3. CASE ~(d = p /\ hpc[h] # "update")
    BY <1>8, <2>1, <2>3
  <2> QED BY <2>1, <2>2, <2>3
<1>20. InvalidHasReason'
  <2> SUFFICES ASSUME NEW d \in CB, life[d] = "live", state'[d] \in Invalid PROVE hurt[d]
    BY DEF InvalidHasReason
  <2>1. CASE d = p
    BY <1>4, <2>1 DEF Spoiled
  <2>2. CASE d # p
    BY <1>8, <2>2 DEF InvalidHasReason
  <2> QED BY <2>1, <2>2
<1>21. Resets'
  <2>1. \A g \in Host : hpc[g] = "reset" => parents'[cur[g]] \subseteq parents[cur[g]]
    BY <1>6 DEF Calls, Node
  <2> QED BY <2>1 DEF Resets
<1>22. \A m \in Node : Spoiled(m) => Spoiled(m)'
  BY <1>7, SpoiledKept DEF Gone
<1>23. Walks'
  <2>1. OnTheWay' \subseteq OnTheWay \cup parents[p]
    <3>1. \A g \in Host : hpc[g] = "reset" => parents'[cur[g]] \subseteq parents[cur[g]]
      BY <1>6 DEF Calls, Node
    <3> QED BY <1>12, <3>1 DEF OnTheWay
  <2>2. OnTheWay' \subseteq Y
    BY <1>3, <1>4, <2>1 DEF Reach
  <2>3. Reach(Y)'
    BY <1>3, <1>6, <1>22, <2>2 DEF Reach
  <2> QED BY <2>3, WalksIsNext
<1>24. Paths'
  <2>1. hpc'[h] # "update" => \A f \in Range(frames'[h]) : \A m \in Range(f.path) :
            parents'[m] = {} /\ (m = cur'[h] \/ Spoiled(m)')
    <3> SUFFICES ASSUME hpc[h] # "update", NEW f \in Range(frames'[h]), NEW m \in Range(f.path)
                 PROVE  parents'[m] = {} /\ (m = cur[h] \/ Spoiled(m)')
      OBVIOUS
    <3>1. ASSUME NEW e \in Range(frames[h]), m \in Range(e.path) PROVE parents'[m] = {} /\ (m = cur[h] \/ Spoiled(m)')
      <4>1. parents[m] = {} /\ (m = cur[h] \/ Spoiled(m)) /\ m \in Node
        BY <3>1, FrameType DEF Paths
      <4> QED BY <1>6, <1>22, <4>1
    <3>2. CASE f.path = Append(top.path, p) /\ m = p
      BY <1>1, <1>4, <1>5, <1>22, <3>2
    <3>3. CASE f.path = Append(top.path, p) /\ m # p
      BY <1>1, <3>1, <3>3
    <3> QED BY <1>12, <3>1, <3>2, <3>3
  <2> QED BY <1>6, <1>22, <2>1, PathsKept
<1> QED BY <1>13, <1>14, <1>15, <1>17, <1>18, <1>19, <1>20, <1>21, <1>23, <1>24

LEMMA SafeNotifyInvalidate ==
    ASSUME Safe, TypeOK', NEW h \in Host, NotifyInvalidate(h)
    PROVE  Safe'
<1>1. /\ \A g \in Host : g # h => frames'[g] = frames[g]
      /\ \E low : \E top \in Frame : \E p \in top.rest :
            Range(frames[h]) = low \cup {top} /\ (Skipped(h, low, top, p) \/ Visited(h, low, top, p))
      /\ frames[h] # << >>
      /\ UNCHANGED <<life, image_of, slot, hpc, cur, after, appVars, useVars>>
  BY NotifyIs DEF Safe
<1> QED BY <1>1, SafeSkipped, SafeVisited

\* The end of a reset: every entry of the command buffer is removed, and when it is
\* freed no pointer to it is left.
LEMMA SafeFinishReset ==
    ASSUME Safe, TypeOK', NEW h \in Host, FinishReset(h)
    PROVE  Safe'
<1> USE DEF Safe
<1>0. PICK c : c = cur[h]
  OBVIOUS
<1>1. /\ hpc[h] = "unlink" /\ frames[h] = << >>
      /\ parents' = RemoveParent(parents, bindings[c], c)
      /\ bindings' = [bindings EXCEPT ![c] = {}]
      /\ state' = IF after[h] = "begin" THEN [state EXCEPT ![c] = "CB_RECORDING"] ELSE state
      /\ life' = IF after[h] = "free" THEN [life EXCEPT ![c] = "none"] ELSE life
      /\ frames' = IF after[h] = "free" THEN Expire(frames, c) ELSE frames
      /\ used' = [used EXCEPT ![c] = {}] /\ hurt' = [hurt EXCEPT ![c] = FALSE]
      /\ hpc' = [hpc EXCEPT ![h] = "idle"] /\ cur' = [cur EXCEPT ![h] = None]
      /\ UNCHANGED <<image_of, slot, linked, broken, useVars>>
  BY <1>0 DEF FinishReset, Forget, Return
<1>2. /\ c \in CB /\ c \in Node /\ c # None /\ c \notin Object /\ parents[c] = {}
      /\ state[c] = "CB_NEW" /\ linked[c] = {} /\ Locked(c)
      /\ CB \subseteq Node /\ Object \subseteq Node
  BY <1>0, <1>1, Kinds DEF Calls, Node, Locked, Object
<1>3. /\ \A g \in Host : g # h => hpc'[g] = hpc[g] /\ cur'[g] = cur[g] /\ cur[g] # c
      /\ hpc'[h] = "idle" /\ cur'[h] = None
  BY <1>0, <1>1, <1>2 DEF Calls, TypeOK
<1>4. /\ \A m \in Node : c \notin parents'[m] /\ parents'[m] \subseteq parents[m]
      /\ \A m \in Node : parents[m] \subseteq parents'[m] \cup {c}
  <2>1. \A m \in Node : parents'[m] = IF m \in bindings[c] THEN parents[m] \ {c} ELSE parents[m]
    BY <1>1 DEF RemoveParent
  <2>2. \A m \in Node : c \in parents[m] => m \in bindings[c]
    BY <1>2 DEF Bound
  <2> QED BY <2>1, <2>2
<1>5. /\ bindings'[c] = {} /\ used'[c] = {} /\ ~hurt'[c]
      /\ \A d \in CB : d # c => bindings'[d] = bindings[d] /\ used'[d] = used[d] /\ hurt'[d] = hurt[d]
      /\ \A d \in CB : d # c => state'[d] = state[d]
      /\ state'[c] \in {"CB_NEW", "CB_RECORDING"} /\ (after[h] = "free" => state'[c] = "CB_NEW")
  BY <1>1, <1>2 DEF TypeOK
<1>6. /\ \A m \in Node : m # c => life'[m] = life[m]
      /\ after[h] # "free" => life' = life
      /\ after[h] = "free" => life'[c] = "none"
  BY <1>1, <1>2 DEF TypeOK
<1>7. \A d \in CB : Locked(d)' <=> Locked(d) /\ d # c
  BY <1>0, <1>2, <1>3, Kinds DEF Locked
<1>8. /\ \A g \in Host : \A f \in Range(frames'[g]) : \E e \in Range(frames[g]) :
            f.path = e.path /\ f.rest \cap Node \subseteq e.rest
      /\ \A g \in Host : \A e \in Range(frames[g]) : \E f \in Range(frames'[g]) :
            f.path = e.path /\ e.rest \ {c} \subseteq f.rest
      /\ \A g \in Host : frames[g] = << >> => frames'[g] = << >>
  <2>1. CASE after[h] = "free"
    <3>1. frames' = Expire(frames, c) /\ frames \in [Host -> Seq(Frame)]
      BY <1>1, <2>1 DEF TypeOK
    <3>2. \A g \in Host :
            /\ \A f \in Range(Expire(frames, c)[g]) : \E e \in Range(frames[g]) : f = Expired(e, c)
            /\ \A e \in Range(frames[g]) : Expired(e, c) \in Range(Expire(frames, c)[g])
            /\ frames[g] = << >> => Expire(frames, c)[g] = << >>
      BY ONLY <3>1, ExpireIs
    <3>3. \A e : Expired(e, c).path = e.path /\ e.rest \ {c} \subseteq Expired(e, c).rest
                 /\ Expired(e, c).rest \cap Node \subseteq e.rest
      BY Kinds DEF Expired
    <3>4. ASSUME NEW g \in Host, NEW f \in Range(Expire(frames, c)[g])
          PROVE  \E e \in Range(frames[g]) : f.path = e.path /\ f.rest \cap Node \subseteq e.rest
      <4>1. PICK e \in Range(frames[g]) : f = Expired(e, c)
        BY <3>2
      <4> QED BY <3>3, <4>1
    <3>5. ASSUME NEW g \in Host, NEW e \in Range(frames[g])
          PROVE  \E f \in Range(Expire(frames, c)[g]) : f.path = e.path /\ e.rest \ {c} \subseteq f.rest
      <4>1. Expired(e, c) \in Range(Expire(frames, c)[g])
        BY <3>2
      <4> QED BY <3>3, <4>1
    <3> QED BY ONLY <3>1, <3>2, <3>4, <3>5
  <2>2. CASE after[h] # "free"
    BY <1>1, <2>2
  <2> QED BY <2>1, <2>2
<1>9. \A d \in CB, m \in Node : d # c /\ WillUnlink(d, m) => WillUnlink(d, m)'
  <2> SUFFICES ASSUME NEW d \in CB, NEW m \in Node, d # c, WillUnlink(d, m) PROVE WillUnlink(d, m)'
    OBVIOUS
  <2>1. PICK g \in Host : hpc[g] # "update" /\ \E e \in Range(frames[g]) : d \in e.rest /\ m \in Range(e.path)
    BY DEF WillUnlink
  <2>2. PICK e \in Range(frames[g]) : d \in e.rest /\ m \in Range(e.path)
    BY <2>1
  <2>3. g # h
    BY <1>1, <2>2, NoFrames
  <2>4. PICK f \in Range(frames'[g]) : f.path = e.path /\ e.rest \ {c} \subseteq f.rest
    BY <1>8
  <2> QED BY <1>3, <2>1, <2>2, <2>3, <2>4 DEF WillUnlink
<1>10. \A m \in Node : Spoiled(m) => m # c
  BY <1>2 DEF Spoiled
<1>11. \A m \in Node : Spoiled(m) => Spoiled(m)'
  <2>1. \A m \in Object : Gone(m) => Gone(m)'
    BY <1>2, <1>6 DEF Gone
  <2>2. \A d \in CB : hurt[d] /\ ~Locked(d) => hurt'[d] /\ ~Locked(d)'
    BY <1>2, <1>5, <1>7
  <2> QED BY <1>1, <2>1, <2>2, SpoiledKept
\* No walk has c on its path any more, so none is about to take it out of a binding.
<1>12. \A d \in CB : ~WillUnlink(d, c)
  <2> SUFFICES ASSUME NEW d \in CB, WillUnlink(d, c) PROVE FALSE
    OBVIOUS
  <2>1. PICK g \in Host : hpc[g] # "update" /\ \E e \in Range(frames[g]) : c \in Range(e.path)
    BY DEF WillUnlink
  <2>2. g # h
    BY <1>1, <2>1, NoFrames
  <2>3. c = cur[g] \/ Spoiled(c)
    BY <2>1 DEF Paths
  <2> QED BY <1>2, <1>3, <1>10, <2>2, <2>3
<1>13. Calls'
  <2>1. ASSUME NEW g \in Host, g # h
        PROVE  /\ hpc'[g] = "idle" => cur'[g] = None
               /\ hpc'[g] \in {"idle", "reset", "submit"} => frames'[g] = << >>
               /\ hpc'[g] = "update" => cur'[g] \in Set
               /\ hpc'[g] = "destroy" => cur'[g] \in Object /\ life'[cur'[g]] = "dying"
               /\ hpc'[g] = "submit" => cur'[g] \in Primary
               /\ hpc'[g] \in {"reset", "unlink"} => cur'[g] \in CB /\ life'[cur'[g]] \in {"live", "dying"}
               /\ hpc'[g] \in {"destroy", "unlink"} => parents'[cur'[g]] = {}
               /\ hpc'[g] = "unlink" => state'[cur'[g]] = "CB_NEW" /\ linked'[cur'[g]] = {}
    <3>1. /\ hpc'[g] = hpc[g] /\ cur'[g] = cur[g] /\ cur[g] # c
          /\ frames[g] = << >> => frames'[g] = << >>
          /\ linked' = linked
      BY <1>1, <1>3, <1>8, <2>1
    <3>2. \A m \in Node : m # c => life'[m] = life[m] /\ (parents[m] = {} => parents'[m] = {})
      BY <1>4, <1>6
    <3>3. \A d \in CB : d # c => state'[d] = state[d]
      BY <1>5
    <3>4. /\ hpc[g] = "destroy" => cur[g] \in Node
          /\ hpc[g] \in {"reset", "unlink"} => cur[g] \in Node /\ cur[g] \in CB
      BY <1>2 DEF Calls
    <3> QED BY <3>1, <3>2, <3>3, <3>4 DEF Calls
  <2>2. \A f, g \in Host : cur'[f] = cur'[g] /\ cur'[g] # None => f = g
    BY <1>3 DEF Calls
  <2>3. frames'[h] = << >>
    BY <1>1, <1>8
  <2> QED BY <1>3, <2>1, <2>2, <2>3 DEF Calls
<1>14. Lives'
  <2>1. /\ \A w \in View : image_of[w] # None => image_of[w] \in Object
        /\ \A s \in Set, k \in Slot : slot[s][k] # None => slot[s][k] \in Object
        /\ View \subseteq Object /\ Set \subseteq Object
    BY DEF TypeOK, Object
  <2>2. \A m \in Object : life'[m] = life[m]
    BY <1>2, <1>6
  <2>3. ASSUME NEW m \in Node, life'[m] \in {"none", "dead"} \/ (m \in Object /\ life'[m] = "dying")
        PROVE  parents'[m] = {}
    <3>1. CASE m = c
      BY <1>2, <1>4, <3>1
    <3>2. CASE m # c
      BY <1>4, <1>6, <2>3, <3>2 DEF Lives
    <3> QED BY <3>1, <3>2
  <2>4. ASSUME NEW d \in CB
        PROVE  life'[d] # "dead" /\ (life'[d] = "none" => bindings'[d] = {} /\ state'[d] = "CB_NEW")
    <3>1. CASE d = c
      <4>1. life[c] \in {"live", "dying"}
        BY <1>0, <1>1 DEF Calls
      <4> QED BY <1>2, <1>5, <1>6, <3>1, <4>1
    <3>2. CASE d # c
      BY <1>2, <1>5, <1>6, <3>2 DEF Lives
    <3> QED BY <3>1, <3>2
  <2>5. image_of' = image_of /\ slot' = slot
    BY <1>1
  <2>6. ASSUME NEW w \in View
        PROVE  /\ life'[w] = "none" => image_of'[w] = None
               /\ image_of'[w] # None => life'[image_of'[w]] # "none"
    BY <2>1, <2>2, <2>5 DEF Lives
  <2>7. ASSUME NEW s \in Set, NEW k \in Slot, slot'[s][k] # None
        PROVE  life'[slot'[s][k]] # "none" /\ life'[s] # "none"
    BY <2>1, <2>2, <2>5, <2>7 DEF Lives
  <2> QED BY <2>3, <2>4, <2>6, <2>7 DEF Lives
<1>15. Structure'
  <2>1. \A m \in Node : \A q : ParentOf(m, q)' <=> ParentOf(m, q)
    BY <1>1 DEF ParentOf
  <2> QED BY <1>4, <2>1 DEF Structure
<1>16. Bound'
  <2> SUFFICES ASSUME NEW d \in CB
               PROVE  /\ \A m \in Node : d \in parents'[m] => m \in bindings'[d]
                      /\ bindings'[d] \subseteq used'[d]
                      /\ used'[d] \subseteq Image \cup Set \cup (IF d \in Primary THEN Secondary ELSE {})
                      /\ state'[d] = "CB_NEW" /\ ~Locked(d)' => bindings'[d] = {}
    BY DEF Bound
  <2>1. CASE d = c
    BY <1>4, <1>5, <2>1
  <2>2. CASE d # c
    <3>1. /\ bindings'[d] = bindings[d] /\ used'[d] = used[d] /\ state'[d] = state[d]
          /\ Locked(d)' <=> Locked(d)
      BY <1>5, <1>7, <2>2
    <3>2. \A m \in Node : d \in parents'[m] => d \in parents[m]
      BY <1>4
    <3> QED BY <3>1, <3>2 DEF Bound
  <2> QED BY <2>1, <2>2
<1>17. Unlinking'
  <2> SUFFICES ASSUME NEW d \in CB, NEW m \in Node, m \in bindings'[d] PROVE d \in parents'[m] \/ WillUnlink(d, m)'
    BY DEF Unlinking
  <2>1. d # c /\ m \in bindings[d]
    BY <1>5
  <2> QED BY <1>4, <1>9, <2>1 DEF Unlinking
<1>18. LinkedAlive'
  <2> SUFFICES ASSUME NEW d \in CB, NEW s \in linked[d] PROVE s \in bindings'[d] /\ life'[s] \in {"live", "dying"}
    BY <1>1 DEF LinkedAlive
  <2>1. d # c /\ s \in bindings[d] /\ life[s] \in {"live", "dying"} /\ s \in Node
    BY <1>2 DEF LinkedAlive, TypeOK, CB
  <2>2. s # c
    <3> SUFFICES ASSUME s = c PROVE FALSE
      OBVIOUS
    <3>1. d \in parents[c] \/ WillUnlink(d, c)
      BY <2>1 DEF Unlinking
    <3> QED BY <1>2, <1>12, <3>1
  <2> QED BY <1>5, <1>6, <2>1, <2>2
<1>19. InvalidHasReason'
  <2> SUFFICES ASSUME NEW d \in CB, life'[d] = "live", state'[d] \in Invalid PROVE hurt'[d]
    BY DEF InvalidHasReason
  <2>1. d # c
    BY <1>5 DEF Invalid
  <2>2. hurt[d]
    BY <1>2, <1>5, <1>6, <2>1 DEF InvalidHasReason
  <2> QED BY <1>5, <2>1, <2>2
<1>20. Resets'
  <2>1. \A g \in Host : hpc'[g] = "reset" => hpc[g] = "reset" /\ cur'[g] = cur[g] /\ parents'[cur'[g]] \subseteq parents[cur[g]]
    BY <1>2, <1>3, <1>4 DEF Calls
  <2>2. \A g \in Host : hpc'[g] = "submit" => hpc[g] = "submit" /\ cur'[g] = cur[g]
    BY <1>3
  <2> SUFFICES ASSUME NEW g \in Host, hpc'[g] = "reset", NEW p \in Primary, p = cur'[g] \/ p \in parents'[cur'[g]]
               PROVE  in_use'[p] = 0 /\ \A f \in Host : ~(hpc'[f] = "submit" /\ cur'[f] = p)
    BY DEF Resets
  <2>3. hpc[g] = "reset" /\ (p = cur[g] \/ p \in parents[cur[g]])
    BY <2>1
  <2>4. in_use[p] = 0 /\ \A f \in Host : ~(hpc[f] = "submit" /\ cur[f] = p)
    BY <2>3 DEF Resets
  <2> QED BY <1>1, <2>2, <2>4
<1>21. Walks'
  <2>1. PICK Y \in SUBSET Node : Reach(Y)
    BY WalksIs
  <2>2. OnTheWay' \subseteq OnTheWay
    <3>1. \A g \in Host : hpc'[g] = "reset" => hpc[g] = "reset" /\ parents'[cur'[g]] \subseteq parents[cur[g]]
      BY <1>2, <1>3, <1>4 DEF Calls
    <3> QED BY <1>8, <3>1 DEF OnTheWay
  <2>3. Reach(Y)'
    BY <1>4, <1>11, <2>1, <2>2 DEF Reach
  <2> QED BY <2>3, WalksIsNext
<1>22. Paths'
  <2>1. Range(frames'[h]) = {}
    BY <1>1, <1>8, NoFrames
  <2>2. \A g \in Host : g # h => \A f \in Range(frames'[g]) : \E e \in Range(frames[g]) : f.path = e.path
    BY <1>8
  <2> QED BY <1>3, <1>4, <1>11, <2>1, <2>2, PathsKept
<1> QED BY <1>13, <1>14, <1>15, <1>16, <1>17, <1>18, <1>19, <1>20, <1>21, <1>22

-----------------------------------------------------------------------------
(* Safe is inductive *)

LEMMA SafeInit == Init => Safe
<1> SUFFICES ASSUME Init PROVE Safe
  OBVIOUS
<1>1. TypeOK
  BY TypeInit DEF TypeInv
<1>2. CB \subseteq Node /\ Set \subseteq Node /\ View \subseteq Node
  BY DEF Node, Object
<1>3. \A h \in Host : Range(frames[h]) = {} /\ hpc[h] = "idle" /\ cur[h] = None /\ frames[h] = << >>
  BY NoFrames DEF Init
<1>4. Calls
  <2> SUFFICES ASSUME NEW g \in Host, NEW h \in Host PROVE cur[g] = cur[h] /\ cur[h] # None => g = h
    BY <1>3 DEF Calls
  <2> QED BY <1>3
<1>5. Lives /\ Structure /\ Bound /\ Unlinking /\ LinkedAlive
  BY <1>2 DEF Init, Lives, Structure, Bound, Unlinking, LinkedAlive
<1>6. OnTheWay = {}
  BY <1>3 DEF OnTheWay
<1>7. Walks
  <2>1. Reach({})
    BY <1>6 DEF Reach
  <2> QED BY <1>1, <2>1, WalksIs
<1>8. Paths /\ InvalidHasReason /\ Resets
  BY <1>3 DEF Init, Paths, InvalidHasReason, Invalid, Resets
<1> QED BY <1>1, <1>4, <1>5, <1>7, <1>8 DEF Safe

LEMMA SafeStutter == Safe /\ UNCHANGED vars => Safe'
<1> SUFFICES ASSUME Safe, UNCHANGED vars PROVE Safe'
  OBVIOUS
<1> USE DEF vars
<1>1. TypeOK' /\ Calls' /\ Lives' /\ LinkedAlive' /\ InvalidHasReason' /\ Resets'
  BY DEF Safe, TypeOK, Calls, Lives, LinkedAlive, InvalidHasReason, Resets
<1>2. Structure' /\ Bound' /\ Unlinking'
  BY DEF Safe, Structure, ParentOf, Bound, Locked, Unlinking, WillUnlink
<1>3. Walks' /\ Paths'
  <2>1. \A m \in Node : Spoiled(m) => Spoiled(m)'
    BY <1>1, SpoiledKept DEF Safe, Gone, Locked
  <2> QED BY <1>1, <2>1, WalksKept DEF Safe
<1> QED BY <1>1, <1>2, <1>3 DEF Safe

LEMMA SafeStep == Careful /\ Safe /\ [Next]_vars => Safe'
<1> SUFFICES ASSUME Careful, Safe, [Next]_vars PROVE Safe'
  OBVIOUS
<1>1. TypeOK'
  <2>1. TypeInv
    BY DEF Safe, TypeInv, Calls
  <2> QED BY <2>1, TypeStep DEF TypeInv
<1>2. Image \cup Set \subseteq Node /\ CB \subseteq Node
  BY DEF Node, Object
<1>3. CASE UNCHANGED vars
  BY <1>3, SafeStutter
<1>4. ASSUME NEW h \in Host, Call(h) PROVE Safe'
  BY <1>1, <1>2, <1>4, SafeCreate, SafeCreateView, SafeWriteUpdate, SafeDestroy, SafeRecord,
     SafeExecuteCommands, SafeEnd, SafeBegin, SafeCallReset, SafeSubmission DEF Call
<1>5. ASSUME NEW h \in Host, Step(h) PROVE Safe'
  BY <1>1, <1>5, SafeFinishObject, SafeNotifyInvalidate, SafeReset, SafeFinishReset, SafeSubmission DEF Step
<1> QED BY <1>1, <1>3, <1>4, <1>5, SafeSubmission DEF Next

-----------------------------------------------------------------------------
(* What follows from it *)

\* For an application that neither resets a command buffer or updates a set another
\* thread is spoiling nor begins a recording again that was invalidated before its end,
\* every state BASE_NODE and CMD_BUFFER_STATE reach is a Safe one.
THEOREM SafeAlways == ASSUME Careful PROVE Spec => []Safe
<1>1. Safe /\ [Next]_vars => Safe'
  BY SafeStep
<1> QED BY <1>1, SafeInit, PTL DEF Spec

\* object_bindings and parent_nodes_ stay two ends of the same links, whatever calls of
\* AddChild(), Reset(), Destroy() and NotifyInvalidate() interleave.
THEOREM TreeLinksMatch == ASSUME Careful PROVE Spec => []LinksMatch
<1>1. Safe => LinksMatch
  BY DEF Safe, Bound, Unlinking, LinksMatch
<1> QED BY <1>1, SafeAlways, PTL

\* The raw pointers in linkedCommandBuffers never dangle.
THEOREM TreeLinkedAlive == ASSUME Careful PROVE Spec => []LinkedAlive
<1>1. Safe => LinkedAlive
  BY DEF Safe
<1> QED BY <1>1, SafeAlways, PTL

\* NotifyInvalidate() makes no command buffer invalid without a reason.
THEOREM TreeInvalidHasReason == ASSUME Careful PROVE Spec => []InvalidHasReason
<1>1. Safe => InvalidHasReason
  BY DEF Safe
<1> QED BY <1>1, SafeAlways, PTL

\* The assertion at the head of CMD_BUFFER_STATE::Reset() never fails.
THEOREM TreeResetAssert == ASSUME Careful PROVE Spec => []ResetAssert
<1>1. ASSUME Safe PROVE ResetAssert
  <2> SUFFICES ASSUME NEW h \in Host, hpc[h] = "reset" PROVE ~InUse(cur[h])
    BY DEF ResetAssert
  <2> USE <1>1 DEF Safe
  <2>1. PICK c \in CB : c = cur[h]
    BY DEF Calls
  <2>2. PICK U : U = {c} \cup parents[c]
    OBVIOUS
  <2>3. \A n \in U \cap Node : parents[n] \subseteq U
    <3>1. \A p \in parents[c] : p \in Primary
      BY <2>1, Kinds DEF Structure, ParentOf, Node, Object, CB
    <3>2. \A p \in Primary : parents[p] = {}
      BY Kinds DEF Structure, ParentOf, Node, Object, CB
    <3> QED BY <2>1, <2>2, <3>1, <3>2
  <2>4. U \subseteq Node
    BY <2>1, <2>2 DEF TypeOK, Node
  <2>5. \A S : S \subseteq U => Up(S) \subseteq U
    BY <2>3, <2>4 DEF Up
  <2>6. Up(Up(Up(Up({c})))) \subseteq U
    BY <2>2, <2>5
  <2>7. \A p \in U \cap Primary : in_use[p] = 0
    BY <2>1, <2>2 DEF Resets
  <2> QED BY <2>1, <2>6, <2>7 DEF InUse
<1> QED BY <1>1, SafeAlways, PTL

-----------------------------------------------------------------------------
(* Complete: nothing that was harmed is missed by the walks, and what is      *)
(* pending is in use                                                          *)

-----------------------------------------------------------------------------
(* What is alive *)

LEMMA AliveIs == TypeOK => \A n \in Node : (\A m \in Below(n) : life[m] = "live") <=> Alive(n)
<1> SUFFICES ASSUME TypeOK, NEW n \in Node PROVE (\A m \in Below(n) : life[m] = "live") <=> Alive(n)
  OBVIOUS
<1>1. (\A m \in Below(n) : life[m] = "live") <=> \A m : InBelow(n, m) => life[m] = "live"
  BY BelowIs
<1>2. (\A m : InBelow(n, m) => life[m] = "live") <=> Alive(n)
  BY DEF InBelow, Alive
<1> QED BY <1>1, <1>2

LEMMA AliveIsNext == (TypeOK => \A n \in Node : (\A m \in Below(n) : life[m] = "live") <=> Alive(n))'
BY AliveIs, PTL

\* What is sound is alive, and what is spoiled is not.
LEMMA SoundAlive == ASSUME TypeOK, NEW n \in Object, Sound(n) PROVE Alive(n)
BY AliveIs DEF Sound, Node

LEMMA SpoiledNotAlive == ASSUME TypeOK, NEW n \in View \cup Set, Spoiled(n) PROVE ~Alive(n)
<1>1. n \in Node /\ n \notin CB
  BY Kinds DEF Node, Object
<1> QED BY <1>1, AliveIs DEF Spoiled, Gone

-----------------------------------------------------------------------------
(* What walks still reach after a step *)

\* The nodes of X are visited by the step, or leave with their parents on the way.
LEMMA AboveKept ==
    ASSUME NEW par \in [Node -> SUBSET Node], NEW new \in [Node -> SUBSET Node],
           NEW S \in SUBSET Node, NEW T \in SUBSET Node, NEW X \in SUBSET Node,
           S \subseteq T \cup X,
           \A m \in Node : m \notin X => par[m] \subseteq new[m] \cup X,
           \A m \in X : par[m] \subseteq T \cup X
    PROVE  Above(par, S) \subseteq Above(new, T) \cup X
<1> DEFINE B == Above(new, T)
           Y == B \cup X
<1>1. B \in SUBSET Node /\ T \subseteq B /\ \A m \in B : new[m] \subseteq B
  BY AboveIs
<1> HIDE DEF B
<1>2. Y \in SUBSET Node /\ S \subseteq Y /\ \A m \in Y : par[m] \subseteq Y
  BY <1>1
<1> HIDE DEF Y
<1>3. Above(par, S) \subseteq Y
  BY <1>2, AboveIs
<1> QED BY <1>3 DEF Y, B

LEMMA HearKept ==
    ASSUME TypeOK, TypeOK', WillHear, NEW X \in SUBSET Node,
           OnTheWay \subseteq OnTheWay' \cup X,
           \A m \in Node : m \notin X => parents[m] \subseteq parents'[m] \cup X,
           \A m \in X : parents[m] \subseteq OnTheWay' \cup X,
           \A c \in CB : hurt'[c] /\ state'[c] \in {"CB_RECORDING", "CB_RECORDED"} =>
              \/ hurt[c] /\ state[c] \in {"CB_RECORDING", "CB_RECORDED"} /\ c \notin X
              \/ c \in Above(parents', OnTheWay')
    PROVE  WillHear'
<1>1. /\ parents \in [Node -> SUBSET Node] /\ parents' \in [Node -> SUBSET Node]
      /\ OnTheWay \in SUBSET Node /\ OnTheWay' \in SUBSET Node
  BY DEF TypeOK, OnTheWay
<1>2. PICK P, Q, S, T : P = parents /\ Q = parents' /\ S = OnTheWay /\ T = OnTheWay'
  OBVIOUS
<1>3. Above(P, S) \subseteq Above(Q, T) \cup X
  BY <1>1, <1>2, AboveKept
<1> QED BY <1>2, <1>3 DEF WillHear

\* The same where nothing is visited.
LEMMA HearGrows ==
    ASSUME TypeOK, TypeOK', WillHear, OnTheWay \subseteq OnTheWay',
           \A m \in Node : parents[m] \subseteq parents'[m],
           \A c \in CB : hurt'[c] /\ state'[c] \in {"CB_RECORDING", "CB_RECORDED"} =>
              (hurt[c] /\ state[c] \in {"CB_RECORDING", "CB_RECORDED"}) \/ c \in Above(parents', OnTheWay')
    PROVE  WillHear'
<1>1. PICK X \in SUBSET Node : X = {}
  OBVIOUS
<1>2. /\ OnTheWay \subseteq OnTheWay' \cup X
      /\ \A m \in Node : m \notin X => parents[m] \subseteq parents'[m] \cup X
      /\ \A m \in X : parents[m] \subseteq OnTheWay' \cup X
      /\ \A c \in CB : hurt'[c] /\ state'[c] \in {"CB_RECORDING", "CB_RECORDED"} =>
              \/ hurt[c] /\ state[c] \in {"CB_RECORDING", "CB_RECORDED"} /\ c \notin X
              \/ c \in Above(parents', OnTheWay')
  BY <1>1
<1> HIDE <1>1
<1> QED BY <1>2, HearKept

\* Steps without a submission.
LEMMA PendingKept ==
    ASSUME PendingSafe, UNCHANGED useVars,
           \A g \in Host, p \in Primary : hpc'[g] = "submit" /\ cur'[g] = p <=> hpc[g] = "submit" /\ cur[g] = p,
           \A p \in Primary : Pending(p) => ~hurt'[p] /\ ~Locked(p)' /\ life'[p] = "live"
    PROVE  PendingSafe'
<1>1. \A p \in Primary : Pending(p)' <=> Pending(p)
  BY DEF Pending
<1> QED BY <1>1 DEF PendingSafe

-----------------------------------------------------------------------------
(* From what was recorded up to the command buffer *)

LEMMA SubUses ==
    ASSUME TypeOK, Bound, NEW c \in CB, NEW s \in used[c], s \in Secondary
    PROVE  Uses(s) \subseteq Uses(c)
<1>1. s \in CB /\ used[s] \subseteq Object /\ used[s] \cap Secondary = {}
  BY Kinds DEF Bound, CB, Object
<1> SUFFICES ASSUME NEW x \in Uses(s) PROVE x \in Uses(c)
  OBVIOUS
<1>2. PICK n \in used[s] : x \in Below(n)
  BY <1>1, UsesAre
<1> QED BY <1>2, UsesAre

\* An object below something that was recorded and not harmed.
LEMMA ObjectChain ==
    ASSUME Safe, Linked, Intact, NEW c \in CB, ~hurt[c], NEW m \in used[c], m \in Object, NEW n \in Below(m)
    PROVE  /\ n \in Object /\ c \in parents[m] /\ life[m] = "live"
           /\ \E v \in Object : /\ v = n \/ v \in parents[n]
                                /\ m = v \/ m \in parents[v]
                                /\ life[v] = "live"
<1>1. TypeOK /\ Bound
  BY DEF Safe
<1>2. c \in parents[m] /\ Alive(m) /\ life[m] = "live"
  BY DEF Intact, Holds, Alive
<1>3. m \in Node /\ m \notin View /\ View \subseteq Object /\ Image \subseteq Object
  BY <1>1, Kinds DEF Bound, Node, Object, CB
<1>4. InBelow(m, n)
  BY <1>1, <1>3, BelowIs
<1>5. CASE n = m
  BY <1>2, <1>5
<1>6. CASE m \in Set /\ \E k \in Slot : n = slot[m][k] /\ n # None
  <2>1. PICK k \in Slot : n = slot[m][k] /\ n # None
    BY <1>6
  <2>2. n \in View
    BY <1>1, <1>6, <2>1 DEF TypeOK
  <2>3. Alive(n)
    BY <1>2, <1>6, <2>1, <2>2, Kinds DEF Alive
  <2>4. m \in parents[n]
    BY <1>2, <1>6, <2>1, <2>2, <2>3 DEF Linked
  <2> QED BY <1>2, <1>3, <2>2, <2>3, <2>4 DEF Alive
<1>7. CASE m \in Set /\ \E k \in Slot : slot[m][k] # None /\ n = image_of[slot[m][k]] /\ n # None
  <2>1. PICK k \in Slot : slot[m][k] # None /\ n = image_of[slot[m][k]] /\ n # None
    BY <1>7
  <2>2. PICK v \in View : v = slot[m][k]
    BY <1>1, <1>7, <2>1 DEF TypeOK
  <2>3. n \in Image
    BY <1>1, <2>1, <2>2 DEF TypeOK
  <2>4. life[v] = "live" /\ life[n] = "live"
    BY <1>2, <1>7, <2>1, <2>2 DEF Alive
  <2>5. Alive(v)
    BY <2>1, <2>2, <2>4, Kinds DEF Alive
  <2>6. v \in parents[n] /\ m \in parents[v]
    BY <1>2, <1>7, <2>1, <2>2, <2>3, <2>4, <2>5 DEF Linked
  <2> QED BY <1>2, <1>3, <2>3, <2>4, <2>6
<1> QED BY <1>3, <1>4, <1>5, <1>6, <1>7 DEF InBelow

\* Four links lead from anything a command buffer uses up to it.
LEMMA Chain ==
    ASSUME Safe, Linked, Intact, NEW c \in CB, ~hurt[c], NEW n \in Uses(c)
    PROVE  /\ n \in Node /\ n # c
           /\ \E v, m, d \in Node :
                 /\ v = n \/ v \in parents[n]
                 /\ m = v \/ m \in parents[v]
                 /\ d = m \/ d \in parents[m]
                 /\ c = d \/ c \in parents[d]
                 /\ \A y \in {v, m, d} : y = c \/ life[y] = "live"
<1>1. TypeOK /\ Bound
  BY DEF Safe
<1>2. Object \subseteq Node /\ CB \subseteq Node /\ Secondary \subseteq CB /\ Object \cap CB = {}
  BY Kinds DEF Node, CB, Object
<1>3. CASE \E m \in used[c] : m \in Object /\ n \in Below(m)
  <2>1. PICK m \in used[c] : m \in Object /\ n \in Below(m)
    BY <1>3
  <2>2. /\ n \in Object /\ c \in parents[m] /\ life[m] = "live"
        /\ \E v \in Object : (v = n \/ v \in parents[n]) /\ (m = v \/ m \in parents[v]) /\ life[v] = "live"
    BY <2>1, ObjectChain
  <2>3. PICK v \in Object : (v = n \/ v \in parents[n]) /\ (m = v \/ m \in parents[v]) /\ life[v] = "live"
    BY <2>2
  <2>4. n \in Node /\ n # c /\ v \in Node /\ m \in Node /\ c \in Node
    BY <1>2, <2>1, <2>2
  <2> QED BY <2>2, <2>3, <2>4
<1>4. CASE n \in used[c] /\ n \in Secondary
  <2>1. c \in parents[n] /\ life[n] = "live" /\ n \in Node
    BY <1>2, <1>4 DEF Intact, Holds
  <2>2. n # c
    BY <1>1, <1>4, Kinds DEF Bound, CB
  <2> QED BY <2>1, <2>2
<1>5. CASE \E s \in used[c] : s \in Secondary /\ \E m \in used[s] : n \in Below(m)
  <2>1. PICK s \in used[c] : s \in Secondary /\ \E m \in used[s] : n \in Below(m)
    BY <1>5
  <2>2. PICK m \in used[s] : n \in Below(m)
    BY <2>1
  <2>3. s \in CB /\ m \in Object /\ s \in Node
    BY <1>1, <1>2, <2>1, Kinds DEF Bound, CB, Object
  <2>4. c \in parents[s] /\ ~hurt[s] /\ life[s] = "live"
    BY <2>1 DEF Intact, Holds
  <2>5. /\ n \in Object /\ s \in parents[m] /\ life[m] = "live"
        /\ \E v \in Object : (v = n \/ v \in parents[n]) /\ (m = v \/ m \in parents[v]) /\ life[v] = "live"
    BY <2>2, <2>3, <2>4, ObjectChain
  <2>6. PICK v \in Object : (v = n \/ v \in parents[n]) /\ (m = v \/ m \in parents[v]) /\ life[v] = "live"
    BY <2>5
  <2>7. n \in Node /\ n # c /\ v \in Node /\ m \in Node
    BY <1>2, <2>3, <2>5
  <2> QED BY <2>3, <2>4, <2>5, <2>6, <2>7
<1> QED BY <1>3, <1>4, <1>5, UsesAre

\* So a set of nodes that walks starting at the parents of n do not leave holds c.
LEMMA ChainReaches ==
    ASSUME Safe, Linked, Intact, NEW c \in CB, ~hurt[c], NEW n \in Uses(c),
           NEW Y \in SUBSET Node, parents[n] \subseteq Y, \A m \in Y : parents[m] \subseteq Y \cup {n}
    PROVE  c \in Y
<1>1. n # c /\ \E v, m, d \in Node : /\ v = n \/ v \in parents[n]
                                     /\ m = v \/ m \in parents[v]
                                     /\ d = m \/ d \in parents[m]
                                     /\ c = d \/ c \in parents[d]
  BY Chain
<1>2. \A x, y : x \in Y \cup {n} /\ (y = x \/ y \in parents[x]) => y \in Y \cup {n}
  OBVIOUS
<1> QED BY <1>1, <1>2

-----------------------------------------------------------------------------
(* Steps that change few links *)

\* Objects keep what they hold and no object comes to life.
LEMMA LinkedKept ==
    ASSUME TypeOK, TypeOK', Linked, UNCHANGED slot,
           \A n \in Object : life'[n] = "live" => life[n] = "live",
           \A v \in View : life'[v] = "live" => image_of'[v] = image_of[v],
           \A i \in Image, v \in View : v \in parents[i] /\ life'[v] = "live" /\ life'[i] = "live" => v \in parents'[i],
           \A v \in View, s \in Set : s \in parents[v] /\ life'[s] = "live" /\ Alive(v)' => s \in parents'[v]
    PROVE  Linked'
<1>1. /\ View \subseteq Object /\ Image \subseteq Object /\ Set \subseteq Object
      /\ \A v \in View : image_of[v] # None => image_of[v] \in Object
  BY DEF TypeOK, Object
<1>2. \A v \in View, i \in Image : image_of'[v] = i /\ life'[v] = "live" /\ life'[i] = "live" => v \in parents'[i]
  BY <1>1 DEF Linked
<1>3. ASSUME NEW s \in Set, NEW k \in Slot, NEW v \in View, slot'[s][k] = v, life'[s] = "live", Alive(v)'
      PROVE  s \in parents'[v]
  <2>1. Alive(v)
    BY <1>1, <1>3, Kinds DEF Alive
  <2> QED BY <1>1, <1>3, <2>1 DEF Linked
<1>4. \A s \in Set, j, k \in Slot : slot'[s][j] = slot'[s][k] /\ slot'[s][k] # None => j = k
  BY DEF Linked
<1> QED BY <1>2, <1>3, <1>4 DEF Linked

LEMMA CompleteCreate ==
    ASSUME Safe, Complete, Safe', NEW h \in Host, NEW n \in Node, Create(h, n) \/ (n \in CB /\ Allocate(h, n))
    PROVE  Complete'
<1> USE DEF Complete
<1>1. /\ life[n] = "none" /\ life' = [life EXCEPT ![n] = "live"]
      /\ UNCHANGED <<parents, image_of, slot, cbVars, hostVars, appVars, useVars>>
  BY DEF Create, Allocate
<1>2. TypeOK /\ TypeOK' /\ Lives /\ \A m \in Node : life'[m] = IF m = n THEN "live" ELSE life[m]
  BY <1>1 DEF Safe, TypeOK
<1>3. /\ \A v \in View : image_of[v] # None => image_of[v] \in Node /\ image_of[v] # n /\ v # n
      /\ \A s \in Set, k \in Slot : slot[s][k] # None => slot[s][k] \in View /\ slot[s][k] # n /\ s # n
      /\ View \subseteq Node /\ Set \subseteq Node /\ Image \subseteq Node /\ None \notin Image /\ None \notin View
  BY <1>1, <1>2, Kinds DEF TypeOK, Lives, Node, Object
<1>4. Linked'
  <2>1. \A v \in View, i \in Image : image_of'[v] = i /\ life'[v] = "live" /\ life'[i] = "live" => v \in parents'[i]
    BY <1>1, <1>2, <1>3 DEF Linked
  <2>2. ASSUME NEW s \in Set, NEW k \in Slot, NEW v \in View, slot'[s][k] = v, life'[s] = "live", Alive(v)'
        PROVE  s \in parents'[v]
    <3>1. v # n /\ s # n /\ (image_of[v] # None => image_of[v] # n /\ image_of[v] \in Node) /\ v \notin Set
      BY <1>1, <1>3, <2>2, Kinds
    <3>2. Alive(v)
      BY <1>1, <1>2, <1>3, <2>2, <3>1 DEF Alive
    <3>3. life[s] = "live"
      BY <1>2, <1>3, <2>2, <3>1
    <3> QED BY <1>1, <2>2, <3>2, <3>3 DEF Linked
  <2> QED BY <1>1, <2>1, <2>2 DEF Linked
<1>5. \A m \in Node : Alive(m) => Alive(m)'
  BY <1>1, <1>2, <1>3 DEF Alive
<1>6. Intact'
  <2> SUFFICES ASSUME NEW c \in CB, ~hurt'[c], NEW m \in used'[c] PROVE Holds(c, m)'
    BY DEF Intact
  <2>1. Holds(c, m) /\ m \in Node
    BY <1>1, <1>2 DEF Intact, TypeOK
  <2> QED BY <1>1, <1>2, <1>5, <2>1 DEF Holds, Locked
<1>7. WillHear'
  BY <1>1 DEF WillHear, OnTheWay
<1>8. PendingSafe'
  <2>1. \A p \in Primary : p \in Node
    BY DEF Node, CB
  <2> QED BY <1>1, <1>2, <2>1 DEF PendingSafe, Pending, Locked
<1> QED BY <1>4, <1>6, <1>7, <1>8

LEMMA CompleteCreateView ==
    ASSUME Safe, Complete, Safe', NEW h \in Host, NEW v \in View, NEW i \in Image, CreateView(h, v, i)
    PROVE  Complete'
<1> USE DEF Complete
<1>1. /\ life[v] = "none" /\ life' = [life EXCEPT ![v] = "live"]
      /\ image_of' = [image_of EXCEPT ![v] = i] /\ parents' = AddParent(parents, {i}, v)
      /\ UNCHANGED <<slot, cbVars, hostVars, appVars, useVars>>
  BY DEF CreateView
<1>2. TypeOK /\ TypeOK' /\ Lives
  BY DEF Safe
<1>3. v \in Node /\ i \in Node /\ v # i /\ v \notin CB /\ i \notin View /\ i # None /\ v # None /\ v \notin Set
  BY Kinds DEF Node, Object
<1>4. /\ \A m \in Node : life'[m] = IF m = v THEN "live" ELSE life[m]
      /\ \A m \in Node : parents'[m] = IF m = i THEN parents[m] \cup {v} ELSE parents[m]
      /\ \A w \in View : image_of'[w] = IF w = v THEN i ELSE image_of[w]
  BY <1>1, <1>2, <1>3 DEF TypeOK, AddParent
<1>5. /\ \A w \in View : image_of[w] # None => image_of[w] \in Node /\ image_of[w] # v
      /\ \A s \in Set, k \in Slot : slot[s][k] # None => slot[s][k] \in View /\ slot[s][k] # v
      /\ View \subseteq Node /\ Set \subseteq Node /\ Image \subseteq Node /\ None \notin Image /\ None \notin View
      /\ View \cap Image = {} /\ View \cap Set = {}
  BY <1>1, <1>2, Kinds DEF TypeOK, Lives, Node, Object
<1>6. Linked'
  <2>1. ASSUME NEW w \in View, NEW j \in Image, image_of'[w] = j, life'[w] = "live", life'[j] = "live"
        PROVE  w \in parents'[j]
    <3>1. CASE w = v
      BY <1>4, <1>5, <2>1, <3>1
    <3>2. CASE w # v
      <4>1. image_of[w] = j /\ life[w] = "live" /\ life[j] = "live"
        BY <1>4, <1>5, <2>1, <3>2
      <4>2. w \in parents[j]
        BY <4>1 DEF Linked
      <4> QED BY <1>4, <1>5, <4>2
    <3> QED BY <3>1, <3>2
  <2>2. ASSUME NEW s \in Set, NEW k \in Slot, NEW w \in View, slot'[s][k] = w, life'[s] = "live", Alive(w)'
        PROVE  s \in parents'[w]
    <3>1. w # v /\ s # v /\ w # i /\ image_of'[w] = image_of[w] /\ slot[s][k] = w
      BY <1>1, <1>3, <1>4, <1>5, <2>2
    <3>2. Alive(w) /\ life[s] = "live"
      BY <1>4, <1>5, <2>2, <3>1 DEF Alive
    <3>3. s \in parents[w]
      BY <3>1, <3>2 DEF Linked
    <3> QED BY <1>4, <1>5, <3>1, <3>3
  <2> QED BY <1>1, <2>1, <2>2 DEF Linked
<1>7. ASSUME NEW m \in Image \cup Set, Alive(m) PROVE Alive(m)'
  <2>1. m # v /\ m \in Node /\ m \notin View
    BY <1>3, <1>5
  <2>2. life'[m] = "live"
    BY <1>4, <1>7, <2>1 DEF Alive
  <2>3. ASSUME m \in Set, NEW k \in Slot, slot[m][k] # None
        PROVE  /\ life'[slot[m][k]] = "live"
               /\ image_of'[slot[m][k]] # None => life'[image_of'[slot[m][k]]] = "live"
    BY <1>4, <1>5, <1>7, <2>3 DEF Alive
  <2> QED BY <1>1, <2>1, <2>2, <2>3 DEF Alive
<1>8. Intact'
  <2> SUFFICES ASSUME NEW c \in CB, ~hurt'[c], NEW m \in used'[c] PROVE Holds(c, m)'
    BY DEF Intact
  <2>1. Holds(c, m) /\ m \in Node /\ (m \in Object => m \in Image \cup Set)
    BY <1>1, <1>2, Kinds DEF Safe, Bound, Intact, TypeOK, Object, CB
  <2>2. c \in parents'[m] /\ (m \in Secondary => life'[m] = life[m])
    BY <1>3, <1>4, <2>1 DEF Holds, CB
  <2> QED BY <1>1, <1>7, <2>1, <2>2 DEF Holds, Locked
<1>9. WillHear'
  <2>1. \A m \in Node : parents[m] \subseteq parents'[m]
    BY <1>4
  <2>2. \A g \in Host : hpc[g] = "reset" => cur[g] \in Node
    BY DEF Safe, Calls, Node
  <2>3. OnTheWay \subseteq OnTheWay'
    BY <1>1, <2>1, <2>2 DEF OnTheWay
  <2> QED BY <1>1, <1>2, <2>1, <2>3, HearGrows
<1>10. PendingSafe'
  <2>1. \A p \in Primary : p \in Node /\ p # v
    BY <1>3 DEF Node, CB
  <2> QED BY <1>1, <1>4, <2>1 DEF PendingSafe, Pending, Locked
<1> QED BY <1>6, <1>8, <1>9, <1>10

LEMMA CompleteFinishObject ==
    ASSUME Safe, Complete, Safe', NEW h \in Host, FinishObject(h)
    PROVE  Complete'
<1> USE DEF Complete
<1>1. PICK n : n = cur[h]
  OBVIOUS
<1>2. /\ hpc[h] \in {"destroy", "update"} /\ frames[h] = << >>
      /\ life' = IF hpc[h] = "destroy" THEN [life EXCEPT ![n] = "dead"] ELSE life
      /\ hpc' = [hpc EXCEPT ![h] = "idle"] /\ cur' = [cur EXCEPT ![h] = None]
      /\ UNCHANGED <<parents, image_of, slot, cbVars, after, frames, appVars, useVars>>
  BY <1>1 DEF FinishObject, Return
<1>3. /\ TypeOK /\ TypeOK' /\ n \in Object /\ n \notin CB /\ Object \subseteq Node /\ CB \subseteq Node
      /\ hpc[h] = "destroy" => life[n] = "dying"
  BY <1>1, <1>2, Kinds DEF Safe, Calls, Node, Object
<1>4. /\ \A g \in Host : g # h => hpc'[g] = hpc[g] /\ cur'[g] = cur[g]
      /\ hpc'[h] = "idle" /\ cur'[h] = None
  BY <1>2, <1>3 DEF TypeOK
<1>5. \A m \in Node : (life'[m] = "live" <=> life[m] = "live") /\ (m # n => life'[m] = life[m])
  BY <1>2, <1>3 DEF TypeOK
<1>6. Linked'
  BY <1>2, <1>3, <1>5, LinkedKept
<1>7. \A c \in CB : Locked(c)' <=> Locked(c)
  BY <1>2, <1>3, <1>4, Kinds DEF Locked
<1>8. \A m \in Object : Alive(m) => Alive(m)'
  <2>1. /\ \A w \in View : image_of[w] # None => image_of[w] \in Node
        /\ \A s \in Set, k \in Slot : slot[s][k] # None => slot[s][k] \in Node
    BY <1>3 DEF TypeOK, Node, Object
  <2> QED BY <1>2, <1>3, <1>5, <2>1 DEF Alive
<1>9. Intact'
  <2> SUFFICES ASSUME NEW c \in CB, ~hurt'[c], NEW m \in used'[c] PROVE Holds(c, m)'
    BY DEF Intact
  <2>1. Holds(c, m)
    BY <1>2 DEF Intact
  <2>2. m \in Secondary => (Locked(m)' <=> Locked(m)) /\ life'[m] = life[m]
    BY <1>3, <1>5, <1>7 DEF CB
  <2> QED BY <1>2, <1>8, <2>1, <2>2 DEF Holds
<1>10. WillHear'
  <2>1. OnTheWay \subseteq OnTheWay'
    BY <1>2, <1>4 DEF OnTheWay
  <2> QED BY <1>2, <1>3, <2>1, HearGrows
<1>11. PendingSafe'
  <2>1. \A p \in Primary : Pending(p) => ~hurt'[p] /\ ~Locked(p)' /\ life'[p] = "live"
    BY <1>2, <1>3, <1>5, <1>7 DEF PendingSafe, CB
  <2>2. \A g \in Host, p \in Primary : hpc'[g] = "submit" /\ cur'[g] = p <=> hpc[g] = "submit" /\ cur[g] = p
    BY <1>2, <1>4
  <2> QED BY <1>2, <2>1, <2>2, PendingKept
<1> QED BY <1>6, <1>9, <1>10, <1>11

\* Recording keeps every link and adds one.
LEMMA CompleteRecord ==
    ASSUME Safe, Complete, Safe', NEW h \in Host, NEW c \in CB, NEW n \in Image \cup Set \cup Secondary,
           \/ n \in Image \cup Set /\ Record(h, c, n)
           \/ c \in Primary /\ n \in Secondary /\ ExecuteCommands(h, c, n)
    PROVE  Complete'
<1> USE DEF Complete
<1>1. /\ parents' = AddParent(parents, {n}, c) /\ used' = [used EXCEPT ![c] = @ \cup {n}]
      /\ UNCHANGED <<life, image_of, slot, state, hostVars, hurt, useVars>>
  BY DEF Record, ExecuteCommands, AddChild
<1>2. TypeOK /\ TypeOK' /\ n \in Node /\ CB \subseteq Node /\ n \notin View
  BY Kinds DEF Safe, Node, Object, CB
<1>3. /\ \A m \in Node : parents[m] \subseteq parents'[m]
      /\ c \in parents'[n]
  BY <1>1, <1>2 DEF AddParent
<1>4. Linked'
  <2>1. View \subseteq Node /\ Image \subseteq Node
    BY DEF Node, Object
  <2> QED BY <1>1, <1>2, <1>3, <2>1, LinkedKept
<1>5. Holds(c, n)'
  <2>1. CASE n \in Image \cup Set /\ Record(h, c, n)
    <3>1. Alive(n) /\ n \notin Secondary
      BY <1>2, <2>1, SoundAlive, Kinds DEF Record, Object, CB
    <3> QED BY <1>1, <1>3, <3>1 DEF Holds, Alive
  <2>2. CASE c \in Primary /\ n \in Secondary /\ ExecuteCommands(h, c, n)
    <3>1. ~hurt[n] /\ ~InCall(n) /\ state[n] = "CB_RECORDED" /\ life[n] = "live" /\ n \notin Object
      BY <2>2, Kinds DEF ExecuteCommands, CB, Object
    <3> QED BY <1>1, <1>3, <3>1 DEF Holds, Locked, InCall
  <2> QED BY <2>1, <2>2
<1>6. Intact'
  <2> SUFFICES ASSUME NEW d \in CB, ~hurt'[d], NEW m \in used'[d] PROVE Holds(d, m)'
    BY DEF Intact
  <2>1. CASE d = c /\ m = n
    BY <1>5, <2>1
  <2>2. CASE ~(d = c /\ m = n)
    <3>1. m \in used[d] /\ m \in Node
      BY <1>1, <1>2, <2>2 DEF TypeOK
    <3>2. Holds(d, m)
      BY <1>1, <3>1 DEF Intact
    <3> QED BY <1>1, <1>3, <3>1, <3>2 DEF Holds, Alive, Locked
  <2> QED BY <2>1, <2>2
<1>7. WillHear'
  <2>1. \A g \in Host : hpc[g] = "reset" => cur[g] \in Node
    BY DEF Safe, Calls, Node
  <2>2. OnTheWay \subseteq OnTheWay'
    BY <1>1, <1>3, <2>1 DEF OnTheWay
  <2> QED BY <1>1, <1>2, <1>3, <2>2, HearGrows
<1>8. PendingSafe'
  BY <1>1 DEF PendingSafe, Pending, Locked
<1> QED BY <1>4, <1>6, <1>7, <1>8

LEMMA CompleteEnd ==
    ASSUME Safe, Complete, Safe', NEW h \in Host, NEW c \in CB, End(h, c)
    PROVE  Complete'
<1> USE DEF Complete
<1>1. /\ ~hurt[c] /\ state' = [state EXCEPT ![c] = "CB_RECORDED"]
      /\ UNCHANGED <<nodeVars, hostVars, appVars, useVars>>
  BY DEF End, Recording
<1>2. TypeOK /\ TypeOK' /\ \A d \in CB : state'[d] = IF d = c THEN "CB_RECORDED" ELSE state[d]
  BY <1>1 DEF Safe, TypeOK
<1>3. Linked'
  BY <1>1 DEF Linked, Alive
<1>4. Intact'
  <2> SUFFICES ASSUME NEW d \in CB, ~hurt'[d], NEW m \in used'[d] PROVE Holds(d, m)'
    BY DEF Intact
  <2>1. Holds(d, m)
    BY <1>1 DEF Intact
  <2> QED BY <1>1, <1>2, <2>1 DEF Holds, Alive, Locked, CB
<1>5. WillHear'
  BY <1>1, <1>2 DEF WillHear, OnTheWay
<1>6. PendingSafe'
  BY <1>1 DEF PendingSafe, Pending, Locked
<1> QED BY <1>3, <1>4, <1>5, <1>6

\* A command buffer that is begun without a reset has nothing recorded, and is in no
\* primary that is still good.
LEMMA CompleteBegin ==
    ASSUME Safe, Complete, Safe', Careful, NEW h \in Host, NEW c \in CB, Begin(h, c)
    PROVE  Complete'
<1> USE DEF Complete
<1>1. /\ ~Busy(c) /\ state[c] \notin ImplicitReset \cup {"CB_RECORDING", "CB_INVALID_INCOMPLETE"}
      /\ state' = [state EXCEPT ![c] = "CB_RECORDING"]
      /\ used' = [used EXCEPT ![c] = {}] /\ hurt' = [hurt EXCEPT ![c] = FALSE]
      /\ UNCHANGED <<nodeVars, hostVars, useVars>>
  BY DEF Begin, MayReset, Forget, Careful
<1>2. /\ TypeOK /\ TypeOK'
      /\ state'[c] = "CB_RECORDING" /\ used'[c] = {} /\ ~hurt'[c]
      /\ \A d \in CB : d # c => state'[d] = state[d] /\ used'[d] = used[d] /\ hurt'[d] = hurt[d]
  BY <1>1 DEF Safe, TypeOK
<1>3. Linked'
  BY <1>1 DEF Linked, Alive
<1>4. Intact'
  <2> SUFFICES ASSUME NEW d \in CB, ~hurt'[d], NEW m \in used'[d] PROVE Holds(d, m)'
    BY DEF Intact
  <2>1. d # c
    BY <1>2
  <2>2. Holds(d, m)
    BY <1>2, <2>1 DEF Intact
  <2>3. m \in Secondary => m # c /\ state'[m] = state[m] /\ hurt'[m] = hurt[m]
    BY <1>1, <1>2, <2>2 DEF Holds, ImplicitReset, CB
  <2> QED BY <1>1, <2>2, <2>3 DEF Holds, Alive, Locked
<1>5. WillHear'
  BY <1>1, <1>2 DEF WillHear, OnTheWay
<1>6. PendingSafe'
  <2>1. \A p \in Primary : Pending(p) => p # c
    BY <1>1 DEF Busy
  <2>2. \A p \in Primary : Pending(p) => ~hurt'[p] /\ ~Locked(p)' /\ life'[p] = "live"
    BY <1>1, <1>2, <2>1 DEF PendingSafe, CB, Locked
  <2> QED BY <1>1, <2>2, PendingKept
<1> QED BY <1>3, <1>4, <1>5, <1>6

\* The counters of submissions.
LEMMA CompleteCounted ==
    ASSUME Safe, Complete, Safe',
           \/ \E h \in Host, p \in Primary : QueueSubmit(h, p)
           \/ \E h \in Host : BeginUse(h)
           \/ \E p \in Primary : DeviceFinish(p) \/ EndUse(p)
    PROVE  Complete'
<1> USE DEF Complete
<1>1. TypeOK /\ TypeOK' /\ Calls /\ UNCHANGED <<nodeVars, cbVars, after, frames, appVars>>
  BY DEF Safe, QueueSubmit, BeginUse, DeviceFinish, EndUse
<1>2. \A g \in Host : /\ hpc[g] \in {"reset", "unlink"} \/ hpc'[g] \in {"reset", "unlink"}
                            => hpc'[g] = hpc[g] /\ cur'[g] = cur[g]
  BY <1>1 DEF QueueSubmit, BeginUse, DeviceFinish, EndUse, Enter, Return, Idle, TypeOK
<1>3. \A d : Locked(d)' <=> Locked(d)
  BY <1>2 DEF Locked
<1>4. Linked' /\ Intact'
  BY <1>1, <1>3 DEF Linked, Intact, Holds, Alive
<1>5. OnTheWay' = OnTheWay
  BY <1>1, <1>2 DEF OnTheWay
<1>6. WillHear'
  BY <1>1, <1>5 DEF WillHear
<1>7. \A q \in Primary : in_use[q] \in Nat /\ running[q] \in Nat /\ in_use'[q] \in Nat /\ running'[q] \in Nat
  BY <1>1 DEF TypeOK
<1>8. ASSUME NEW h \in Host, NEW p \in Primary, QueueSubmit(h, p) PROVE PendingSafe'
  <2>1. /\ life[p] = "live" /\ ~InCall(p) /\ ~hurt[p] /\ in_use' = in_use /\ running'[p] = running[p] + 1
        /\ \A q \in Primary : q # p => running'[q] = running[q]
        /\ hpc[h] = "idle" /\ hpc'[h] = "submit" /\ cur'[h] = p
        /\ \A g \in Host : g # h => hpc'[g] = hpc[g] /\ cur'[g] = cur[g]
    BY <1>1, <1>8 DEF QueueSubmit, Enter, Idle, TypeOK
  <2>2. ~Locked(p) /\ ~(running[p] > in_use[p])
    BY <2>1 DEF Locked, InCall, PendingSafe
  <2>3. \A q \in Primary : q # p => (Pending(q)' <=> Pending(q))
    BY <2>1 DEF Pending
  <2>4. \A q \in Primary : q # p /\ (\E g \in Host : hpc[g] = "submit" /\ cur[g] = q)
                              => \E g \in Host : hpc'[g] = "submit" /\ cur'[g] = q
    BY <2>1
  <2> SUFFICES ASSUME NEW q \in Primary
               PROVE  /\ Pending(q)' => ~hurt'[q] /\ ~Locked(q)' /\ life'[q] = "live"
                      /\ running'[q] > in_use'[q] => /\ running'[q] = in_use'[q] + 1
                                                     /\ \E g \in Host : hpc'[g] = "submit" /\ cur'[g] = q
    BY DEF PendingSafe
  <2>5. CASE q = p
    BY <1>1, <1>3, <1>7, <2>1, <2>2, <2>5
  <2>6. CASE q # p
    BY <1>1, <1>3, <2>1, <2>3, <2>4, <2>6 DEF PendingSafe
  <2> QED BY <2>5, <2>6
<1>9. ASSUME NEW h \in Host, BeginUse(h) PROVE PendingSafe'
  <2>0. PICK p \in Primary : p = cur[h]
    BY <1>1, <1>9 DEF Calls, BeginUse
  <2>1. /\ hpc[h] = "submit" /\ running' = running /\ in_use'[p] = in_use[p] + 1
        /\ \A q \in Primary : q # p => in_use'[q] = in_use[q]
        /\ hpc'[h] = "idle"
        /\ \A g \in Host : g # h => hpc'[g] = hpc[g] /\ cur'[g] = cur[g]
    BY <1>1, <1>9, <2>0 DEF BeginUse, Return, TypeOK
  <2>2. Pending(p) /\ ~(running[p] > in_use[p] + 1)
    BY <1>7, <2>0, <2>1 DEF Pending, PendingSafe
  <2>3. \A q \in Primary : q # p => (Pending(q)' <=> Pending(q))
    BY <2>0, <2>1 DEF Pending
  <2>4. \A q \in Primary : q # p /\ (\E g \in Host : hpc[g] = "submit" /\ cur[g] = q)
                              => \E g \in Host : hpc'[g] = "submit" /\ cur'[g] = q
    BY <2>0, <2>1
  <2> SUFFICES ASSUME NEW q \in Primary
               PROVE  /\ Pending(q)' => ~hurt'[q] /\ ~Locked(q)' /\ life'[q] = "live"
                      /\ running'[q] > in_use'[q] => /\ running'[q] = in_use'[q] + 1
                                                     /\ \E g \in Host : hpc'[g] = "submit" /\ cur'[g] = q
    BY DEF PendingSafe
  <2>5. CASE q = p
    BY <1>1, <1>3, <1>7, <2>1, <2>2, <2>5 DEF PendingSafe
  <2>6. CASE q # p
    BY <1>1, <1>3, <2>1, <2>3, <2>4, <2>6 DEF PendingSafe
  <2> QED BY <2>5, <2>6
<1>10. ASSUME NEW p \in Primary, DeviceFinish(p) \/ EndUse(p) PROVE PendingSafe'
  <2>1. /\ \A q \in Primary : q # p => in_use'[q] = in_use[q] /\ running'[q] = running[q]
        /\ \/ running[p] > 0 /\ running'[p] = running[p] - 1 /\ in_use'[p] = in_use[p]
           \/ in_use[p] > running[p] /\ running'[p] = running[p] /\ in_use'[p] = in_use[p] - 1
        /\ UNCHANGED <<hpc, cur>>
    BY <1>1, <1>10 DEF DeviceFinish, EndUse, TypeOK
  <2> SUFFICES ASSUME NEW q \in Primary
               PROVE  /\ Pending(q)' => ~hurt'[q] /\ ~Locked(q)' /\ life'[q] = "live"
                      /\ running'[q] > in_use'[q] => /\ running'[q] = in_use'[q] + 1
                                                     /\ \E g \in Host : hpc'[g] = "submit" /\ cur'[g] = q
    BY DEF PendingSafe
  <2>2. Pending(q)' => Pending(q)
    BY <1>7, <2>1 DEF Pending
  <2>3. running'[q] > in_use'[q] => running[q] > in_use[q] /\ running'[q] = in_use'[q] + 1
    BY <1>7, <2>1 DEF PendingSafe
  <2> QED BY <1>1, <1>3, <2>1, <2>2, <2>3 DEF PendingSafe
<1> QED BY <1>4, <1>6, <1>8, <1>9, <1>10

-----------------------------------------------------------------------------
(* Steps of a walk *)

\* Where a node on the way may be found.
LEMMA OnTheWayIs ==
    /\ \A x : x \in OnTheWay <=>
         /\ x \in Node
         /\ \E g \in Host : (\E f \in Range(frames[g]) : x \in f.rest) \/ (hpc[g] = "reset" /\ x \in parents[cur[g]])
BY DEF OnTheWay

LEMMA OnTheWayIsNext ==
    (\A x : x \in OnTheWay <=>
         /\ x \in Node
         /\ \E g \in Host : (\E f \in Range(frames[g]) : x \in f.rest) \/ (hpc[g] = "reset" /\ x \in parents[cur[g]]))'
BY OnTheWayIs, PTL

\* A parent that was freed or destroyed has no parents and no recording.
LEMMA CompleteSkipped ==
    ASSUME Safe, Complete, Safe', NEW h \in Host, NEW low, NEW top \in Frame, NEW p \in top.rest,
           Range(frames[h]) = low \cup {top},
           \A g \in Host : g # h => frames'[g] = frames[g],
           UNCHANGED <<life, image_of, slot, hpc, cur, after, appVars, useVars>>,
           Skipped(h, low, top, p)
    PROVE  Complete'
<1> USE DEF Complete
<1>1. /\ ~Found(p) /\ Range(frames'[h]) = low \cup Kept(top, p) /\ UNCHANGED <<cbVars, parents>>
  BY DEF Skipped
<1>2. TypeOK /\ TypeOK' /\ Lives
  BY DEF Safe
<1>3. Linked' /\ Intact' /\ PendingSafe'
  BY <1>1 DEF Linked, Intact, Holds, Alive, Locked, PendingSafe, Pending
<1>4. PICK X \in SUBSET Node : X = {p} \cap Node
  OBVIOUS
<1>5. /\ \A m \in X : parents[m] = {}
      /\ \A c \in CB : c \in X => state[c] = "CB_NEW"
  <2> SUFFICES ASSUME p \in Node
               PROVE  parents[p] = {} /\ (p \in CB => state[p] = "CB_NEW")
    BY <1>4
  <2>1. life[p] \in {"none", "dead"}
    BY <1>1, <1>2, Kinds DEF Found, TypeOK
  <2> QED BY <1>2, <2>1 DEF Lives
<1>6. OnTheWay \subseteq OnTheWay' \cup X
  <2> SUFFICES ASSUME NEW x \in OnTheWay, x # p PROVE x \in OnTheWay'
    BY <1>4, OnTheWayIs
  <2>1. x \in Node /\ \E g \in Host : (\E f \in Range(frames[g]) : x \in f.rest) \/ (hpc[g] = "reset" /\ x \in parents[cur[g]])
    BY OnTheWayIs
  <2>2. ASSUME x \in top.rest PROVE \E f \in Range(frames'[h]) : x \in f.rest
    <3>1. [path |-> top.path, rest |-> top.rest \ {p}] \in Range(frames'[h])
      BY <1>1, <2>2 DEF Kept
    <3> QED BY <2>2, <3>1
  <2>3. ASSUME NEW g \in Host, NEW f \in Range(frames[g]), x \in f.rest
        PROVE  \E e \in Range(frames'[g]) : x \in e.rest
    BY <1>1, <2>2, <2>3
  <2> QED BY <1>1, <2>1, <2>3, OnTheWayIsNext
<1>7. WillHear'
  BY <1>1, <1>2, <1>5, <1>6, HearKept
<1> QED BY <1>3, <1>7

\* A parent that is visited: it is not executable any more, and its parents are next.
LEMMA CompleteVisited ==
    ASSUME Safe, Complete, Safe', NEW h \in Host, NEW low, NEW top \in Frame, NEW p \in top.rest,
           Range(frames[h]) = low \cup {top},
           \A g \in Host : g # h => frames'[g] = frames[g],
           UNCHANGED <<life, image_of, slot, hpc, cur, after, appVars, useVars>>,
           Visited(h, low, top, p)
    PROVE  Complete'
<1> USE DEF Complete
<1>1. /\ p \in Node /\ (p \in CB => ~Locked(p))
      /\ Range(frames'[h]) = low \cup Kept(top, p) \cup Deeper(top, p)
      /\ parents' = IF hpc[h] # "update" THEN [parents EXCEPT ![p] = {}] ELSE parents
  BY DEF Visited
<1>2. TypeOK /\ TypeOK' /\ Calls
  BY DEF Safe
<1>3. Spoiled(p) /\ \A q \in parents[p] : Spoiled(q)
  <2>1. PICK Y \in SUBSET Node : Reach(Y)
    BY <1>2, WalksIs DEF Safe
  <2>2. p \in OnTheWay
    BY <1>1, OnTheWayIs
  <2> QED BY <2>1, <2>2 DEF Reach
<1>4. \A m \in Node : m # p => parents'[m] = parents[m]
  BY <1>1, <1>2 DEF TypeOK
<1>5. /\ \A d \in CB : d # p => state'[d] = state[d]
      /\ p \in CB => state'[p] \notin {"CB_RECORDING", "CB_RECORDED"}
  <2>1. CASE p \in CB
    <3>1. Break(p, top.path, hpc[h] # "update")
      BY <2>1 DEF Visited
    <3>2. state'[p] = Invalidated(state[p]) /\ \A d \in CB : d # p => state'[d] = state[d]
      BY <1>2, <2>1, <3>1 DEF Break, TypeOK
    <3> QED BY <3>2 DEF Invalidated
  <2>2. CASE p \notin CB
    BY <2>2 DEF Visited
  <2> QED BY <2>1, <2>2
<1>6. Linked'
  <2>1. p \notin Image
    BY <1>3, Kinds DEF Spoiled
  <2>2. p \in View => ~Alive(p)
    BY <1>2, <1>3, SpoiledNotAlive
  <2>3. \A v \in View : Alive(v)' <=> Alive(v)
    BY DEF Alive
  <2>4. \A i \in Image, v \in View : v \in parents[i] => v \in parents'[i]
    BY <1>4, <2>1 DEF Node, Object
  <2>5. \A v \in View, s \in Set : s \in parents[v] /\ Alive(v)' => s \in parents'[v]
    BY <1>4, <2>2, <2>3 DEF Node, Object
  <2> QED BY <1>2, <2>4, <2>5, LinkedKept
<1>7. Intact'
  <2> SUFFICES ASSUME NEW c \in CB, ~hurt'[c], NEW n \in used'[c] PROVE Holds(c, n)'
    BY DEF Intact
  <2>1. Holds(c, n) /\ ~hurt[c] /\ n \in Node
    BY <1>2 DEF Intact, TypeOK
  <2>2. n # p
    <3> SUFFICES ASSUME n = p PROVE FALSE
      OBVIOUS
    <3>1. Spoiled(c)
      BY <1>3, <2>1 DEF Holds
    <3> QED BY <2>1, <3>1 DEF Spoiled
  <2>3. parents'[n] = parents[n] /\ (n \in Secondary => state'[n] = state[n])
    BY <1>4, <1>5, <2>1, <2>2 DEF CB
  <2> QED BY <2>1, <2>3 DEF Holds, Alive, Locked
<1>8. PICK X \in SUBSET Node : X = {p}
  BY <1>1
<1>9. parents[p] \subseteq OnTheWay'
  <2>1. parents[p] # {} => [path |-> Append(top.path, p), rest |-> parents[p]] \in Range(frames'[h])
    BY <1>1 DEF Deeper
  <2>2. parents[p] # {} => \E f \in Range(frames'[h]) : f.rest = parents[p]
    BY <2>1
  <2>3. parents[p] \subseteq Node
    BY <1>1, <1>2 DEF TypeOK
  <2> QED BY <2>2, <2>3, OnTheWayIsNext
<1>10. OnTheWay \subseteq OnTheWay' \cup X
  <2> SUFFICES ASSUME NEW x \in OnTheWay, x # p PROVE x \in OnTheWay'
    BY <1>8
  <2>1. x \in Node /\ \E g \in Host : (\E f \in Range(frames[g]) : x \in f.rest) \/ (hpc[g] = "reset" /\ x \in parents[cur[g]])
    BY OnTheWayIs
  <2>2. ASSUME x \in top.rest PROVE \E f \in Range(frames'[h]) : x \in f.rest
    <3>1. [path |-> top.path, rest |-> top.rest \ {p}] \in Range(frames'[h])
      BY <1>1, <2>2 DEF Kept
    <3> QED BY <2>2, <3>1
  <2>3. ASSUME NEW g \in Host, NEW f \in Range(frames[g]), x \in f.rest
        PROVE  \E e \in Range(frames'[g]) : x \in e.rest
    BY <1>1, <2>2, <2>3
  <2>4. ASSUME NEW g \in Host, hpc[g] = "reset" PROVE parents'[cur'[g]] = parents[cur[g]]
    <3>1. cur[g] \in CB /\ Locked(cur[g])
      BY <1>2, <2>4 DEF Calls, Locked
    <3> QED BY <1>1, <1>4, <3>1 DEF Node
  <2> QED BY <2>1, <2>3, <2>4, OnTheWayIsNext
<1>11. WillHear'
  <2>1. \A m \in Node : m \notin X => parents[m] \subseteq parents'[m] \cup X
    BY <1>4, <1>8
  <2>2. \A m \in X : parents[m] \subseteq OnTheWay' \cup X
    BY <1>8, <1>9
  <2>3. \A c \in CB : hurt'[c] /\ state'[c] \in {"CB_RECORDING", "CB_RECORDED"} =>
              hurt[c] /\ state[c] \in {"CB_RECORDING", "CB_RECORDED"} /\ c \notin X
    BY <1>5, <1>8
  <2> QED BY <1>2, <1>10, <2>1, <2>2, <2>3, HearKept
<1>12. PendingSafe'
  BY DEF PendingSafe, Pending, Locked
<1> QED BY <1>6, <1>7, <1>11, <1>12

LEMMA CompleteNotifyInvalidate ==
    ASSUME Safe, Complete, Safe', NEW h \in Host, NotifyInvalidate(h)
    PROVE  Complete'
<1>1. TypeOK
  BY DEF Safe
<1>2. /\ \A g \in Host : g # h => frames'[g] = frames[g]
      /\ \E low : \E top \in Frame : \E p \in top.rest :
            /\ Range(frames[h]) = low \cup {top}
            /\ Skipped(h, low, top, p) \/ Visited(h, low, top, p)
      /\ UNCHANGED <<life, image_of, slot, hpc, cur, after, appVars, useVars>>
  BY <1>1, NotifyIs
<1> QED BY <1>2, CompleteSkipped, CompleteVisited

-----------------------------------------------------------------------------
(* Reset() *)

\* A command buffer under reset is in no good primary, and its parents are next.
LEMMA CompleteReset ==
    ASSUME Safe, Complete, Safe', NEW h \in Host, Reset(h)
    PROVE  Complete'
<1> USE DEF Complete
<1>0. PICK c : c = cur[h]
  OBVIOUS
<1>1. /\ hpc[h] = "reset"
      /\ state' = [state EXCEPT ![c] = "CB_NEW"] /\ hpc' = [hpc EXCEPT ![h] = "unlink"]
      /\ frames' = [frames EXCEPT ![h] = Activate(<<c>>, parents[c])] /\ parents' = [parents EXCEPT ![c] = {}]
      /\ UNCHANGED <<life, image_of, slot, cur, appVars, useVars>>
  BY <1>0 DEF Reset, Invalidate, GetParentsForInvalidate
<1>2. /\ TypeOK /\ TypeOK' /\ c \in CB /\ c \in Node /\ Range(frames[h]) = {} /\ Locked(c)
      /\ c \notin View /\ c \notin Image
  BY <1>0, <1>1, NoFrames, Kinds DEF Safe, Calls, Node, Locked
<1>3. /\ \A g \in Host : g # h => frames'[g] = frames[g]
      /\ Range(frames'[h]) = IF parents[c] = {} THEN {} ELSE {[path |-> <<c>>, rest |-> parents[c]]}
  <2>1. frames \in [Host -> Seq(Frame)] /\ parents \in [Node -> SUBSET Node]
    BY <1>2 DEF TypeOK
  <2> QED BY <1>1, <1>2, <2>1, ActivationIs
<1>4. /\ \A m \in Node : m # c => parents'[m] = parents[m]
      /\ state'[c] = "CB_NEW" /\ \A d \in CB : d # c => state'[d] = state[d]
      /\ hpc'[h] = "unlink" /\ \A g \in Host : g # h => hpc'[g] = hpc[g]
  BY <1>1, <1>2 DEF TypeOK
<1>5. \A g \in Host : g # h => cur[g] # c
  BY <1>0, <1>2, Kinds DEF Safe, Calls
<1>6. \A d \in CB : Locked(d)' <=> Locked(d)
  BY <1>0, <1>1, <1>4 DEF Locked
<1>7. Linked'
  <2>1. \A m \in View \cup Image : parents'[m] = parents[m]
    BY <1>2, <1>4 DEF Node, Object
  <2> QED BY <1>1, <1>2, <2>1, LinkedKept
<1>8. Intact'
  <2> SUFFICES ASSUME NEW d \in CB, ~hurt'[d], NEW n \in used'[d] PROVE Holds(d, n)'
    BY DEF Intact
  <2>1. Holds(d, n) /\ n \in Node
    BY <1>1, <1>2 DEF Intact, TypeOK
  <2>2. n # c
    <3> SUFFICES ASSUME n = c PROVE FALSE
      OBVIOUS
    <3>1. c \in Secondary
      BY <1>1, <1>2, Kinds DEF Safe, Bound
    <3> QED BY <1>2, <2>1, <3>1 DEF Holds
  <2>3. parents'[n] = parents[n] /\ (n \in Secondary => state'[n] = state[n] /\ (Locked(n)' <=> Locked(n)))
    BY <1>4, <1>6, <2>1, <2>2 DEF CB
  <2> QED BY <1>1, <2>1, <2>3 DEF Holds, Alive
<1>9. PICK X \in SUBSET Node : X = {c}
  BY <1>2
<1>10. parents[c] \subseteq OnTheWay'
  <2>1. parents[c] # {} => \E f \in Range(frames'[h]) : f.rest = parents[c]
    <3>1. parents[c] # {} => [path |-> <<c>>, rest |-> parents[c]] \in Range(frames'[h])
      BY <1>3
    <3> QED BY <3>1
  <2>2. parents[c] \subseteq Node
    BY <1>2 DEF TypeOK
  <2> QED BY <2>1, <2>2, OnTheWayIsNext
<1>11. OnTheWay \subseteq OnTheWay'
  <2> SUFFICES ASSUME NEW x \in OnTheWay PROVE x \in OnTheWay'
    OBVIOUS
  <2>1. PICK g \in Host : (\E f \in Range(frames[g]) : x \in f.rest) \/ (hpc[g] = "reset" /\ x \in parents[cur[g]])
    BY OnTheWayIs
  <2>2. CASE g = h
    BY <1>0, <1>2, <1>10, <2>1, <2>2
  <2>3. CASE g # h
    <3>1. x \in Node
      BY OnTheWayIs
    <3>2. hpc[g] = "reset" => parents'[cur[g]] = parents[cur[g]]
      BY <1>4, <1>5, <2>3 DEF Safe, Calls, Node
    <3> QED BY <1>1, <1>3, <1>4, <2>1, <2>3, <3>1, <3>2, OnTheWayIsNext
  <2> QED BY <2>2, <2>3
<1>12. WillHear'
  <2>1. \A m \in Node : m \notin X => parents[m] \subseteq parents'[m] \cup X
    BY <1>4, <1>9
  <2>2. \A m \in X : parents[m] \subseteq OnTheWay' \cup X
    BY <1>9, <1>10
  <2>3. \A d \in CB : hurt'[d] /\ state'[d] \in {"CB_RECORDING", "CB_RECORDED"} =>
              hurt[d] /\ state[d] \in {"CB_RECORDING", "CB_RECORDED"} /\ d \notin X
    BY <1>1, <1>4, <1>9
  <2>4. OnTheWay \subseteq OnTheWay' \cup X
    BY <1>11
  <2> QED BY <1>2, <2>1, <2>2, <2>3, <2>4, HearKept
<1>13. PendingSafe'
  <2>1. \A g \in Host, p \in Primary : hpc'[g] = "submit" /\ cur'[g] = p <=> hpc[g] = "submit" /\ cur[g] = p
    BY <1>1, <1>4
  <2>2. \A p \in Primary : Pending(p) => ~hurt'[p] /\ ~Locked(p)' /\ life'[p] = "live"
    BY <1>1, <1>6 DEF PendingSafe, CB
  <2> QED BY <1>1, <2>1, <2>2, PendingKept
<1> QED BY <1>7, <1>8, <1>12, <1>13

LEMMA CompleteFinishReset ==
    ASSUME Safe, Complete, Safe', NEW h \in Host, FinishReset(h)
    PROVE  Complete'
<1> USE DEF Complete
<1>0. PICK c : c = cur[h]
  OBVIOUS
<1>1. /\ hpc[h] = "unlink" /\ frames[h] = << >>
      /\ parents' = RemoveParent(parents, bindings[c], c)
      /\ state' = IF after[h] = "begin" THEN [state EXCEPT ![c] = "CB_RECORDING"] ELSE state
      /\ life' = IF after[h] = "free" THEN [life EXCEPT ![c] = "none"] ELSE life
      /\ frames' = IF after[h] = "free" THEN Expire(frames, c) ELSE frames
      /\ used' = [used EXCEPT ![c] = {}] /\ hurt' = [hurt EXCEPT ![c] = FALSE]
      /\ hpc' = [hpc EXCEPT ![h] = "idle"] /\ cur' = [cur EXCEPT ![h] = None]
      /\ UNCHANGED <<image_of, slot, useVars>>
  BY <1>0 DEF FinishReset, Forget, Return
<1>2. /\ TypeOK /\ TypeOK' /\ c \in CB /\ c \in Node /\ c # None /\ parents[c] = {} /\ Locked(c)
      /\ CB \subseteq Node /\ Object \subseteq Node /\ c \notin Object
  BY <1>0, <1>1, Kinds DEF Safe, Calls, Node, Locked, Object
<1>3. /\ \A g \in Host : g # h => hpc'[g] = hpc[g] /\ cur'[g] = cur[g] /\ cur[g] # c
      /\ hpc'[h] = "idle" /\ cur'[h] = None
  BY <1>0, <1>1, <1>2 DEF Safe, Calls, TypeOK
<1>4. \A m \in Node : parents[m] \subseteq parents'[m] \cup {c}
  BY <1>1 DEF RemoveParent
<1>5. /\ used'[c] = {} /\ ~hurt'[c]
      /\ \A d \in CB : d # c => used'[d] = used[d] /\ hurt'[d] = hurt[d] /\ state'[d] = state[d]
      /\ \A m \in Node : m # c => life'[m] = life[m]
  BY <1>1, <1>2 DEF TypeOK
<1>6. \A d \in CB : d # c => (Locked(d)' <=> Locked(d))
  BY <1>0, <1>2, <1>3, Kinds DEF Locked
<1>7. \A g \in Host : \A e \in Range(frames[g]) : \E f \in Range(frames'[g]) : e.rest \ {c} \subseteq f.rest
  <2>1. CASE after[h] = "free"
    <3>1. frames' = Expire(frames, c) /\ frames \in [Host -> Seq(Frame)]
      BY <1>1, <1>2, <2>1 DEF TypeOK
    <3>2. \A g \in Host : \A e \in Range(frames[g]) : Expired(e, c) \in Range(Expire(frames, c)[g])
      BY ONLY <3>1, ExpireIs
    <3>3. \A e : e.rest \ {c} \subseteq Expired(e, c).rest
      BY DEF Expired
    <3>4. ASSUME NEW g \in Host, NEW e \in Range(frames[g])
          PROVE  \E f \in Range(Expire(frames, c)[g]) : e.rest \ {c} \subseteq f.rest
      BY <3>2, <3>3
    <3> QED BY ONLY <3>1, <3>4
  <2>2. CASE after[h] # "free"
    BY <1>1, <2>2
  <2> QED BY <2>1, <2>2
<1>8. \A m \in Object : Alive(m)' <=> Alive(m)
  <2>1. /\ \A w \in View : image_of[w] # None => image_of[w] \in Object
        /\ \A s \in Set, k \in Slot : slot[s][k] # None => slot[s][k] \in View
        /\ View \subseteq Object
    BY <1>2 DEF TypeOK, Object
  <2>2. \A m \in Object : life'[m] = life[m]
    BY <1>2, <1>5
  <2>3. UNCHANGED <<image_of, slot>>
    BY <1>1
  <2> QED BY <2>1, <2>2, <2>3, Kinds DEF Alive
<1>9. Linked'
  <2>1. \A m \in Object : life'[m] = life[m] /\ parents[m] \subseteq parents'[m] \cup {c}
    BY <1>2, <1>4, <1>5
  <2>2. View \subseteq Object /\ Image \subseteq Object /\ Set \subseteq Object
    BY DEF Object
  <2>3. \A i \in Image, v \in View : v \in parents[i] => v \in parents'[i]
    BY <1>2, <2>1, <2>2
  <2>4. \A v \in View, s \in Set : s \in parents[v] => s \in parents'[v]
    BY <1>2, <2>1, <2>2
  <2>5. TypeOK /\ TypeOK' /\ Linked /\ UNCHANGED <<slot, image_of>>
    BY <1>1, <1>2
  <2> QED BY ONLY <2>1, <2>3, <2>4, <2>5, LinkedKept
<1>10. Intact'
  <2> SUFFICES ASSUME NEW d \in CB, ~hurt'[d], NEW n \in used'[d] PROVE Holds(d, n)'
    BY DEF Intact
  <2>1. d # c
    BY <1>5
  <2>2. n \in used[d] /\ Holds(d, n) /\ n \in Node
    BY <1>2, <1>5, <2>1 DEF Intact, TypeOK
  <2>3. n \in Secondary => n # c
    BY <1>2, <2>2 DEF Holds
  <2>4. d \in parents'[n]
    BY <1>4, <2>1, <2>2 DEF Holds
  <2>5. n \in Secondary => /\ hurt'[n] = hurt[n] /\ state'[n] = state[n] /\ life'[n] = life[n]
                           /\ Locked(n)' <=> Locked(n)
    BY <1>2, <1>5, <1>6, <2>3 DEF CB
  <2> QED BY <1>8, <2>2, <2>4, <2>5 DEF Holds
<1>11. PICK X \in SUBSET Node : X = {c}
  BY <1>2
<1>12. OnTheWay \subseteq OnTheWay' \cup X
  <2> SUFFICES ASSUME NEW x \in OnTheWay, x # c PROVE x \in OnTheWay'
    BY <1>11
  <2>1. PICK g \in Host : (\E f \in Range(frames[g]) : x \in f.rest) \/ (hpc[g] = "reset" /\ x \in parents[cur[g]])
    BY OnTheWayIs
  <2>2. x \in Node
    BY OnTheWayIs
  <2>3. CASE \E f \in Range(frames[g]) : x \in f.rest
    BY <1>7, <2>2, <2>3, OnTheWayIsNext
  <2>4. CASE hpc[g] = "reset" /\ x \in parents[cur[g]]
    <3>1. g # h /\ cur[g] \in Node
      BY <1>1, <2>4 DEF Safe, Calls, Node
    <3>2. hpc'[g] = "reset" /\ x \in parents'[cur'[g]]
      BY <1>3, <1>4, <2>4, <3>1
    <3> QED BY <2>2, <3>2, OnTheWayIsNext
  <2> QED BY <2>1, <2>3, <2>4
<1>13. WillHear'
  <2>1. \A m \in Node : m \notin X => parents[m] \subseteq parents'[m] \cup X
    BY <1>4, <1>11
  <2>2. \A m \in X : parents[m] \subseteq OnTheWay' \cup X
    BY <1>2, <1>11
  <2>3. \A d \in CB : hurt'[d] /\ state'[d] \in {"CB_RECORDING", "CB_RECORDED"} =>
              hurt[d] /\ state[d] \in {"CB_RECORDING", "CB_RECORDED"} /\ d \notin X
    BY <1>5, <1>11
  <2> QED BY <1>2, <1>12, <2>1, <2>2, <2>3, HearKept
<1>14. PendingSafe'
  <2>1. \A g \in Host, p \in Primary : hpc'[g] = "submit" /\ cur'[g] = p <=> hpc[g] = "submit" /\ cur[g] = p
    BY <1>1, <1>3
  <2>2. ASSUME NEW p \in Primary, Pending(p) PROVE ~hurt'[p] /\ ~Locked(p)' /\ life'[p] = "live"
    <3>1. p \in CB /\ p \in Node /\ ~hurt[p] /\ ~Locked(p) /\ life[p] = "live"
      BY <1>2, <2>2 DEF PendingSafe, CB
    <3> QED BY <1>2, <1>5, <1>6, <3>1
  <2> QED BY <1>1, <2>1, <2>2, PendingKept
<1> QED BY <1>9, <1>10, <1>13, <1>14

-----------------------------------------------------------------------------
(* Steps that harm what was recorded *)

LEMMA Unharmed ==
    ASSUME Safe, Intact, NEW n, Harm(n), NEW c \in CB, ~hurt'[c], NEW m \in used[c]
    PROVE  /\ ~hurt[c] /\ Holds(c, m) /\ m \in Node /\ m # n
           /\ m \in Object => n \notin Below(m) /\ m \notin View
           /\ m \in Secondary => ~hurt'[m]
<1>1. ~hurt[c] /\ n \notin Uses(c)
  BY DEF Harm
<1>2. TypeOK /\ Bound
  BY DEF Safe
<1>3. Holds(c, m) /\ m \in Node
  BY <1>1, <1>2 DEF Intact, TypeOK
<1>4. /\ m \in Object => n \notin Below(m)
      /\ m \in Secondary => m # n
  BY <1>1, UsesAre
<1>5. m \in Object \cup Secondary /\ m \notin View
  BY <1>2, Kinds DEF Bound, Object, CB
<1>6. m \in Object => m # n
  BY <1>2, <1>3, <1>4, BelowIs DEF InBelow
<1>7. ASSUME m \in Secondary PROVE ~hurt'[m]
  <2>1. n \notin Uses(m)
    BY <1>1, <1>2, <1>7, SubUses
  <2>2. m \in CB /\ ~hurt[m]
    BY <1>3, <1>7 DEF Holds, CB
  <2> QED BY <2>1, <2>2 DEF Harm
<1> QED BY <1>1, <1>3, <1>4, <1>5, <1>6, <1>7

\* The walk starts at the parents of what is harmed, and so reaches all it harmed.
LEMMA HarmHeard ==
    ASSUME Safe, Complete, TypeOK', NEW n \in Node, Harm(n), UNCHANGED state,
           OnTheWay \subseteq OnTheWay', parents[n] \subseteq OnTheWay',
           \A m \in Node : m # n => parents[m] \subseteq parents'[m] \cup {n},
           n \notin CB \/ parents' = parents
    PROVE  WillHear'
<1> USE DEF Complete
<1>1. /\ TypeOK /\ parents' \in [Node -> SUBSET Node] /\ OnTheWay' \in SUBSET Node
      /\ Linked /\ Intact /\ WillHear
  BY DEF Safe, TypeOK, OnTheWay
<1>2. PICK Y : Y = Above(parents', OnTheWay')
  OBVIOUS
<1>3. /\ Y \in SUBSET Node /\ OnTheWay' \subseteq Y
      /\ \A m \in Y : parents'[m] \subseteq Y
  <2>1. PICK P, T : P = parents' /\ T = OnTheWay'
    OBVIOUS
  <2>2. P \in [Node -> SUBSET Node] /\ T \in SUBSET Node /\ Y = Above(P, T)
    BY <1>1, <1>2, <2>1
  <2>3. Y \in SUBSET Node /\ T \subseteq Y /\ \A m \in Y : P[m] \subseteq Y
    BY <2>2, AboveIs
  <2> QED BY <2>1, <2>3
<1>4. parents[n] \subseteq Y /\ \A m \in Y : parents[m] \subseteq Y \cup {n}
  BY <1>3
<1>5. \A c \in CB : hurt'[c] /\ ~hurt[c] => c \in Above(parents', OnTheWay')
  <2> SUFFICES ASSUME NEW c \in CB, hurt'[c], ~hurt[c] PROVE c \in Y
    BY <1>2
  <2>1. n \in Uses(c)
    BY DEF Harm
  <2> QED BY <1>1, <1>3, <1>4, <2>1, ChainReaches
<1>6. CASE parents' = parents
  BY <1>1, <1>5, <1>6, HearGrows
<1>7. CASE n \notin CB
  <2>1. PICK X \in SUBSET Node : X = {n}
    OBVIOUS
  <2>2. /\ OnTheWay \subseteq OnTheWay' \cup X
        /\ \A m \in Node : m \notin X => parents[m] \subseteq parents'[m] \cup X
        /\ \A m \in X : parents[m] \subseteq OnTheWay' \cup X
        /\ \A c \in CB : c \notin X
    BY <1>7, <2>1
  <2> QED BY <1>1, <1>5, <2>2, HearKept
<1> QED BY <1>6, <1>7

LEMMA CompleteDestroy ==
    ASSUME Safe, Complete, Safe', NEW h \in Host, NEW n \in Object, Destroy(h, n)
    PROVE  Complete'
<1> USE DEF Complete
<1>1. /\ life[n] = "live" /\ ~InCall(n) /\ ~Busy(n)
      /\ life' = [life EXCEPT ![n] = "dying"]
      /\ image_of' = [v \in View |-> IF v = n THEN None ELSE image_of[v]]
      /\ Enter(h, "destroy", n) /\ Harm(n)
      /\ UNCHANGED <<slot, cbVars, after, used, useVars>>
  BY DEF Destroy, MayHarm
<1>2. /\ TypeOK /\ TypeOK' /\ Calls /\ Linked /\ Intact
      /\ n \in Node /\ n \notin CB /\ CB \subseteq Node /\ Object \subseteq Node
      /\ View \subseteq Object /\ Set \subseteq Object /\ Image \subseteq Object
  BY Kinds DEF Safe, Node, Object
<1>3. /\ hpc[h] = "idle" /\ Range(frames[h]) = {}
      /\ hpc'[h] = "destroy" /\ cur'[h] = n
      /\ \A g \in Host : g # h => hpc'[g] = hpc[g] /\ cur'[g] = cur[g]
  BY <1>1, <1>2, EnterIs
<1>4. /\ \A g \in Host : g # h => frames'[g] = frames[g]
      /\ Range(frames'[h]) = IF parents[n] = {} THEN {} ELSE {[path |-> <<n>>, rest |-> parents[n]]}
      /\ \A m \in Node : m # n => parents[m] \subseteq parents'[m] \cup {n}
  BY <1>2, DestroyIs
<1>5. \A m \in Node : life'[m] = IF m = n THEN "dying" ELSE life[m]
  BY <1>1, <1>2 DEF TypeOK
<1>6. \A c \in CB : Locked(c)' <=> Locked(c)
  BY <1>2, <1>3 DEF Locked
<1>7. Linked'
  <2>1. \A m \in Object : life'[m] = "live" => life[m] = "live" /\ m # n
    BY <1>2, <1>5
  <2>2. \A v \in View : life'[v] = "live" => image_of'[v] = image_of[v]
    BY <1>1, <1>2, <2>1
  <2>3. \A i \in Image, v \in View : v \in parents[i] /\ life'[v] = "live" /\ life'[i] = "live" => v \in parents'[i]
    BY <1>2, <1>4, <2>1
  <2>4. \A v \in View, s \in Set : s \in parents[v] /\ life'[s] = "live" /\ Alive(v)' => s \in parents'[v]
    BY <1>2, <1>4, <2>1 DEF Alive
  <2>5. slot' = slot
    BY <1>1
  <2> QED BY <1>2, <2>1, <2>2, <2>3, <2>4, <2>5, LinkedKept
<1>8. ASSUME NEW m \in Object, m \notin View, n \notin Below(m), Alive(m) PROVE Alive(m)'
  <2>1. m \in Node /\ ~InBelow(m, n)
    BY <1>2, <1>8, BelowIs
  <2>2. m # n /\ life'[m] = "live"
    BY <1>5, <1>8, <2>1 DEF Alive, InBelow
  <2>3. ASSUME m \in Set, NEW k \in Slot, slot[m][k] # None
        PROVE  /\ life'[slot[m][k]] = "live"
               /\ image_of'[slot[m][k]] # None => life'[image_of'[slot[m][k]]] = "live"
    <3>1. PICK v \in View : v = slot[m][k]
      BY <1>2, <2>3 DEF TypeOK
    <3>2. v # n /\ v \in Node /\ image_of'[v] = image_of[v] /\ (image_of[v] # None => image_of[v] # n /\ image_of[v] \in Node)
      BY <1>1, <1>2, <2>1, <2>3, <3>1, Kinds DEF InBelow, TypeOK, Node, Object
    <3>3. life[v] = "live" /\ (image_of[v] # None => life[image_of[v]] = "live")
      BY <1>8, <2>3, <3>1 DEF Alive
    <3> QED BY <1>5, <3>1, <3>2, <3>3
  <2>4. slot' = slot
    BY <1>1
  <2> QED BY <1>8, <2>2, <2>3, <2>4 DEF Alive
<1>9. Intact'
  <2> SUFFICES ASSUME NEW c \in CB, ~hurt'[c], NEW m \in used[c] PROVE Holds(c, m)'
    BY <1>1 DEF Intact
  <2>1. /\ ~hurt[c] /\ Holds(c, m) /\ m \in Node /\ m # n
        /\ m \in Object => n \notin Below(m) /\ m \notin View
        /\ m \in Secondary => ~hurt'[m]
    BY <1>1, <1>2, Unharmed
  <2>2. c \in parents'[m]
    BY <1>2, <1>4, <2>1 DEF Holds
  <2>3. m \in Object => Alive(m)'
    BY <1>8, <2>1 DEF Holds
  <2>4. m \in Secondary => (Locked(m)' <=> Locked(m)) /\ life'[m] = life[m] /\ state'[m] = state[m]
    BY <1>1, <1>5, <1>6, <2>1 DEF CB
  <2> QED BY <2>1, <2>2, <2>3, <2>4 DEF Holds
<1>10. parents[n] \subseteq OnTheWay'
  <2>1. parents[n] # {} => \E f \in Range(frames'[h]) : f.rest = parents[n]
    <3>1. parents[n] # {} => [path |-> <<n>>, rest |-> parents[n]] \in Range(frames'[h])
      BY <1>4
    <3> QED BY <3>1
  <2>2. parents[n] \subseteq Node
    BY <1>2 DEF TypeOK
  <2> QED BY <2>1, <2>2, OnTheWayIsNext
<1>11. OnTheWay \subseteq OnTheWay'
  <2> SUFFICES ASSUME NEW x \in OnTheWay PROVE x \in OnTheWay'
    OBVIOUS
  <2>1. PICK g \in Host : (\E f \in Range(frames[g]) : x \in f.rest) \/ (hpc[g] = "reset" /\ x \in parents[cur[g]])
    BY OnTheWayIs
  <2>2. x \in Node /\ g # h
    BY <1>3, <2>1, OnTheWayIs
  <2>3. hpc[g] = "reset" => cur[g] \in Node /\ cur[g] # n /\ n \notin parents[cur[g]]
    BY <1>2, Kinds DEF Safe, Structure, ParentOf, Calls, CB
  <2> QED BY <1>3, <1>4, <2>1, <2>2, <2>3, OnTheWayIsNext
<1>12. WillHear'
  BY <1>1, <1>2, <1>4, <1>10, <1>11, HarmHeard
<1>13. PendingSafe'
  <2>1. \A g \in Host, p \in Primary : hpc'[g] = "submit" /\ cur'[g] = p <=> hpc[g] = "submit" /\ cur[g] = p
    BY <1>3
  <2>2. ASSUME NEW p \in Primary, Pending(p) PROVE ~hurt'[p] /\ ~Locked(p)' /\ life'[p] = "live"
    <3>1. p \in CB /\ p \in Node /\ p # n /\ ~hurt[p] /\ ~Locked(p) /\ life[p] = "live"
      BY <1>2, <2>2 DEF PendingSafe, CB
    <3>2. ~hurt'[p]
      BY <1>1, <2>2, <3>1 DEF Busy, Harm
    <3> QED BY <1>5, <1>6, <3>1, <3>2
  <2> QED BY <1>1, <2>1, <2>2, PendingKept
<1> QED BY <1>7, <1>9, <1>12, <1>13

\* A descriptor is written; no other descriptor of the set holds the old view or the new
\* one, so the old view may forget the set.
LEMMA CompleteWriteUpdate ==
    ASSUME Safe, Complete, Safe', "alias" \notin Habits,
           NEW h \in Host, NEW s \in Set, NEW k \in Slot, NEW v \in View, WriteUpdate(h, s, k, v)
    PROVE  Complete'
<1> USE DEF Complete
<1>1. /\ life[s] = "live" /\ ~InCall(s) /\ ~Busy(s)
      /\ \A j \in Slot \ {k} : slot[s][j] # v
      /\ Enter(h, "update", s) /\ Harm(s) /\ slot' = [slot EXCEPT ![s][k] = v]
      /\ UNCHANGED <<life, image_of, cbVars, after, used, useVars>>
  BY DEF WriteUpdate, MayUpdate, MayHarm
<1>2. /\ TypeOK /\ TypeOK' /\ Calls /\ Linked /\ Intact
      /\ s \in Node /\ s \notin CB /\ s \notin View /\ s \notin Image /\ v \in Node /\ v # None /\ CB \cap View = {}
      /\ CB \subseteq Node /\ View \subseteq Node /\ Image \subseteq Node /\ Image \cap View = {}
  BY Kinds DEF Safe, Node, Object
<1>3. /\ hpc[h] = "idle" /\ Range(frames[h]) = {}
      /\ hpc'[h] = "update" /\ cur'[h] = s
      /\ \A g \in Host : g # h => hpc'[g] = hpc[g] /\ cur'[g] = cur[g]
  BY <1>1, <1>2, EnterIs
<1>4. /\ \A g \in Host : g # h => frames'[g] = frames[g]
      /\ Range(frames'[h]) = IF parents[s] = {} THEN {} ELSE {[path |-> <<s>>, rest |-> parents[s]]}
      /\ \A m \in Node : parents[m] \subseteq parents'[m] \cup {s}
      /\ \A m \in Node : m \notin View => parents'[m] = parents[m]
      /\ s \in parents'[v]
  <2>1. TypeOK /\ WriteUpdate(h, s, k, v)
    BY <1>2
  <2> QED BY ONLY <2>1, WriteUpdateIs, h \in Host, s \in Set, k \in Slot, v \in View
<1>5. \A m \in Node : m # slot[s][k] => parents[m] \subseteq parents'[m]
  <2>1. parents' = ReplaceStatePtr(parents, s, slot[s][k], v)
    BY DEF WriteUpdate, Invalidate, GetParentsForInvalidate
  <2> QED BY <2>1 DEF ReplaceStatePtr, AddParent, RemoveParent
<1>6. \A t \in Set, j \in Slot : slot'[t][j] = IF t = s /\ j = k THEN v ELSE slot[t][j]
  BY <1>1, <1>2 DEF TypeOK
<1>7. \A c \in CB : Locked(c)' <=> Locked(c)
  BY <1>2, <1>3 DEF Locked
<1>8. Linked'
  <2>1. \A w \in View, i \in Image : image_of'[w] = i /\ life'[w] = "live" /\ life'[i] = "live" => w \in parents'[i]
    BY <1>1, <1>2, <1>4 DEF Linked
  <2>2. ASSUME NEW t \in Set, NEW j \in Slot, NEW w \in View, slot'[t][j] = w, life'[t] = "live", Alive(w)'
        PROVE  t \in parents'[w]
    <3>1. CASE t = s /\ j = k
      BY <1>4, <1>6, <2>2, <3>1
    <3>2. CASE ~(t = s /\ j = k)
      <4>1. slot[t][j] = w /\ w # None /\ w \notin Set
        BY <1>6, <2>2, <3>2, Kinds DEF Node, Object
      <4>2. Alive(w) /\ life[t] = "live"
        BY <1>1, <2>2, <4>1 DEF Alive
      <4>3. t \in parents[w]
        BY <4>1, <4>2 DEF Linked
      <4>4. CASE t = s
        <5>1. w # slot[s][k]
          BY <3>2, <4>1, <4>4 DEF Linked
        <5> QED BY <1>2, <1>5, <4>3, <5>1
      <4>5. CASE t # s
        BY <1>2, <1>4, <4>3, <4>5
      <4> QED BY <4>4, <4>5
    <3> QED BY <3>1, <3>2
  <2>3. ASSUME NEW t \in Set, NEW i \in Slot, NEW j \in Slot, slot'[t][i] = slot'[t][j], slot'[t][j] # None
        PROVE  i = j
    <3>1. CASE t # s \/ (i # k /\ j # k)
      BY <1>6, <2>3, <3>1 DEF Linked
    <3>2. CASE t = s /\ (i = k \/ j = k)
      BY <1>1, <1>6, <2>3, <3>2
    <3> QED BY <3>1, <3>2
  <2> QED BY <2>1, <2>2, <2>3 DEF Linked
<1>9. Intact'
  <2> SUFFICES ASSUME NEW c \in CB, ~hurt'[c], NEW m \in used[c] PROVE Holds(c, m)'
    BY <1>1 DEF Intact
  <2>1. /\ ~hurt[c] /\ Holds(c, m) /\ m \in Node /\ m # s
        /\ m \in Object => s \notin Below(m) /\ m \notin View
        /\ m \in Secondary => ~hurt'[m]
    BY <1>1, <1>2, Unharmed
  <2>2. c \in parents'[m]
    BY <1>2, <1>4, <2>1 DEF Holds
  <2>3. m \in Object => Alive(m)'
    <3>1. m \in Set => \A j \in Slot : slot'[m][j] = slot[m][j]
      BY <1>6, <2>1
    <3> QED BY <1>1, <2>1, <3>1 DEF Holds, Alive
  <2>4. m \in Secondary => (Locked(m)' <=> Locked(m)) /\ life'[m] = life[m] /\ state'[m] = state[m]
    BY <1>1, <1>7, <2>1 DEF CB
  <2> QED BY <2>1, <2>2, <2>3, <2>4 DEF Holds
<1>10. parents[s] \subseteq OnTheWay'
  <2>1. parents[s] # {} => \E f \in Range(frames'[h]) : f.rest = parents[s]
    <3>1. parents[s] # {} => [path |-> <<s>>, rest |-> parents[s]] \in Range(frames'[h])
      BY <1>4
    <3> QED BY <3>1
  <2>2. parents[s] \subseteq Node
    BY <1>2 DEF TypeOK
  <2> QED BY <2>1, <2>2, OnTheWayIsNext
<1>11. OnTheWay \subseteq OnTheWay'
  <2> SUFFICES ASSUME NEW x \in OnTheWay PROVE x \in OnTheWay'
    OBVIOUS
  <2>1. PICK g \in Host : (\E f \in Range(frames[g]) : x \in f.rest) \/ (hpc[g] = "reset" /\ x \in parents[cur[g]])
    BY OnTheWayIs
  <2>2. x \in Node /\ g # h
    BY <1>3, <2>1, OnTheWayIs
  <2>3. hpc[g] = "reset" => cur[g] \in Node /\ cur[g] \notin View
    BY <1>2 DEF Calls
  <2> QED BY <1>3, <1>4, <2>1, <2>2, <2>3, OnTheWayIsNext
<1>12. WillHear'
  BY <1>1, <1>2, <1>4, <1>10, <1>11, HarmHeard
<1>13. PendingSafe'
  <2>1. \A g \in Host, p \in Primary : hpc'[g] = "submit" /\ cur'[g] = p <=> hpc[g] = "submit" /\ cur[g] = p
    BY <1>3
  <2>2. ASSUME NEW p \in Primary, Pending(p) PROVE ~hurt'[p] /\ ~Locked(p)' /\ life'[p] = "live"
    <3>1. p \in CB /\ ~hurt[p] /\ ~Locked(p) /\ life[p] = "live"
      BY <2>2 DEF PendingSafe, CB
    <3>2. ~hurt'[p]
      BY <1>1, <2>2, <3>1 DEF Busy, Harm
    <3> QED BY <1>1, <1>7, <3>1, <3>2
  <2> QED BY <1>1, <2>1, <2>2, PendingKept
<1> QED BY <1>8, <1>9, <1>12, <1>13

LEMMA CompleteCallReset ==
    ASSUME Safe, Complete, Safe', NEW h \in Host, NEW c \in CB, NEW why \in {"reset", "begin", "free"}, CallReset(h, c, why)
    PROVE  Complete'
<1> USE DEF Complete
<1>1. /\ ~InCall(c) /\ ~Busy(c) /\ Enter(h, "reset", c) /\ Harm(c)
      /\ life' = IF why = "free" THEN [life EXCEPT ![c] = "dying"] ELSE life
      /\ UNCHANGED <<parents, image_of, slot, cbVars, frames, used, useVars>>
  BY DEF CallReset, MayReset, MayHarm
<1>2. /\ TypeOK /\ TypeOK' /\ Calls /\ Linked /\ Intact
      /\ c \in Node /\ c \notin Object /\ CB \subseteq Node /\ Object \subseteq Node
  BY Kinds DEF Safe, Node, Object
<1>3. /\ hpc[h] = "idle" /\ Range(frames[h]) = {}
      /\ hpc'[h] = "reset" /\ cur'[h] = c
      /\ \A g \in Host : g # h => hpc'[g] = hpc[g] /\ cur'[g] = cur[g]
  BY <1>1, <1>2, EnterIs
<1>4. \A m \in Node : m # c => life'[m] = life[m]
  BY <1>1, <1>2 DEF TypeOK
<1>5. \A d \in CB : d # c => (Locked(d)' <=> Locked(d))
  BY <1>2, <1>3 DEF Locked
<1>6. \A m \in Object : Alive(m)' <=> Alive(m)
  <2>1. /\ \A w \in View : image_of[w] # None => image_of[w] \in Object
        /\ \A s \in Set, j \in Slot : slot[s][j] # None => slot[s][j] \in View
        /\ View \subseteq Object
    BY <1>2 DEF TypeOK, Object
  <2>2. \A m \in Object : life'[m] = life[m]
    BY <1>2, <1>4
  <2>3. UNCHANGED <<image_of, slot>>
    BY <1>1
  <2> QED BY <2>1, <2>2, <2>3, Kinds DEF Alive
<1>7. Linked'
  <2>1. \A m \in Object : life'[m] = life[m]
    BY <1>2, <1>4
  <2>2. UNCHANGED <<parents, image_of, slot>>
    BY <1>1
  <2> QED BY <1>2, <2>1, <2>2, LinkedKept
<1>8. Intact'
  <2> SUFFICES ASSUME NEW d \in CB, ~hurt'[d], NEW m \in used[d] PROVE Holds(d, m)'
    BY <1>1 DEF Intact
  <2>1. /\ ~hurt[d] /\ Holds(d, m) /\ m \in Node /\ m # c
        /\ m \in Secondary => ~hurt'[m]
    BY <1>1, <1>2, Unharmed
  <2>2. m \in Object => Alive(m)'
    BY <1>6, <2>1 DEF Holds
  <2>3. m \in Secondary => (Locked(m)' <=> Locked(m)) /\ life'[m] = life[m] /\ state'[m] = state[m]
    BY <1>1, <1>4, <1>5, <2>1 DEF CB
  <2> QED BY <1>1, <2>1, <2>2, <2>3 DEF Holds
<1>9. parents[c] \subseteq OnTheWay'
  <2>1. parents[c] \subseteq Node
    BY <1>2 DEF TypeOK
  <2> QED BY <1>1, <1>3, <2>1, OnTheWayIsNext
<1>10. OnTheWay \subseteq OnTheWay'
  <2> SUFFICES ASSUME NEW x \in OnTheWay PROVE x \in OnTheWay'
    OBVIOUS
  <2>1. PICK g \in Host : (\E f \in Range(frames[g]) : x \in f.rest) \/ (hpc[g] = "reset" /\ x \in parents[cur[g]])
    BY OnTheWayIs
  <2>2. x \in Node /\ g # h
    BY <1>3, <2>1, OnTheWayIs
  <2> QED BY <1>1, <1>3, <2>1, <2>2, OnTheWayIsNext
<1>11. WillHear'
  BY <1>1, <1>2, <1>9, <1>10, HarmHeard
<1>12. PendingSafe'
  <2>1. \A g \in Host, p \in Primary : hpc'[g] = "submit" /\ cur'[g] = p <=> hpc[g] = "submit" /\ cur[g] = p
    BY <1>3
  <2>2. ASSUME NEW p \in Primary, Pending(p) PROVE ~hurt'[p] /\ ~Locked(p)' /\ life'[p] = "live"
    <3>1. p \in CB /\ p \in Node /\ ~hurt[p] /\ ~Locked(p) /\ life[p] = "live"
      BY <1>2, <2>2 DEF PendingSafe, CB
    <3>2. p # c /\ ~hurt'[p]
      BY <1>1, <2>2, <3>1 DEF Busy, Harm
    <3> QED BY <1>4, <1>5, <3>1, <3>2
  <2> QED BY <1>1, <2>1, <2>2, PendingKept
<1> QED BY <1>7, <1>8, <1>11, <1>12

-----------------------------------------------------------------------------
(* Complete is inductive *)

LEMMA CompleteInit == Init => Complete
<1> SUFFICES ASSUME Init PROVE Complete
  OBVIOUS
<1>1. Linked
  BY Kinds DEF Init, Linked, Node, Object
<1>2. Intact /\ WillHear
  BY DEF Init, Intact, WillHear
<1>3. PendingSafe
  BY DEF Init, PendingSafe, Pending
<1> QED BY <1>1, <1>2, <1>3 DEF Complete

LEMMA CompleteStep == Habits = {} /\ Safe /\ Complete /\ [Next]_vars => Complete'
<1> SUFFICES ASSUME Habits = {}, Safe, Complete, [Next]_vars PROVE Complete'
  OBVIOUS
<1>1. Careful /\ "alias" \notin Habits
  BY DEF Careful
<1>2. Safe'
  BY <1>1, SafeStep
<1>3. CASE UNCHANGED vars
  <2> USE <1>3 DEF vars
  <2>1. Linked' /\ Intact'
    BY DEF Complete, Linked, Intact, Holds, Alive, Locked
  <2>2. WillHear' /\ PendingSafe'
    BY DEF Complete, WillHear, OnTheWay, PendingSafe, Pending, Locked
  <2> QED BY <2>1, <2>2 DEF Complete
<1>4. Image \cup Set \subseteq Node /\ CB \subseteq Node /\ Primary \subseteq CB
  BY DEF Node, Object, CB
<1>5. ASSUME NEW h \in Host, Call(h) PROVE Complete'
  BY <1>1, <1>2, <1>4, <1>5, CompleteCreate, CompleteCreateView, CompleteWriteUpdate, CompleteDestroy, CompleteRecord,
     CompleteEnd, CompleteBegin, CompleteCallReset, CompleteCounted DEF Call
<1>6. ASSUME NEW h \in Host, Step(h) PROVE Complete'
  BY <1>2, <1>6, CompleteFinishObject, CompleteNotifyInvalidate, CompleteReset, CompleteFinishReset, CompleteCounted
     DEF Step
<1> QED BY <1>2, <1>3, <1>5, <1>6, CompleteCounted DEF Next

-----------------------------------------------------------------------------
(* What follows from it *)

\* For an application without the habits of AllHabits, every link between live objects
\* that the layer needs is there, and every command buffer that was harmed and may still
\* be executed is on the way of a walk.
THEOREM CompleteAlways == ASSUME Habits = {} PROVE Spec => [](Safe /\ Complete)
<1>1. Init => Safe /\ Complete
  BY SafeInit, CompleteInit
<1>2. (Safe /\ Complete) /\ [Next]_vars => (Safe /\ Complete)'
  BY SafeStep, CompleteStep DEF Careful
<1> QED BY <1>1, <1>2, PTL DEF Spec

\* Once all calls have returned, no command buffer is executable that recorded something
\* which was since destroyed, updated or reset: the walk of BASE_NODE::Invalidate() and
\* NotifyInvalidate() misses none, whatever calls it interleaves with.
THEOREM TreeNeverSilentlyValid == ASSUME Habits = {} PROVE Spec => []NeverSilentlyValid
<1>1. ASSUME Safe, Complete PROVE NeverSilentlyValid
  <2> SUFFICES ASSUME Quiet, NEW c \in CB, hurt[c], state[c] \in {"CB_RECORDING", "CB_RECORDED"} PROVE FALSE
    BY DEF NeverSilentlyValid
  <2>1. OnTheWay = {} /\ parents \in [Node -> SUBSET Node]
    BY <1>1, QuietIs DEF Safe, TypeOK
  <2>2. Above(parents, {}) \subseteq {}
    BY <2>1, AboveIs
  <2> QED BY <1>1, <2>1, <2>2 DEF Complete, WillHear
<1>2. Safe /\ Complete => NeverSilentlyValid
  BY <1>1
<1> QED BY <1>2, CompleteAlways, PTL

\* While the device runs a command buffer, BASE_NODE::InUse() answers true for everything
\* it uses, at whatever level below it.
THEOREM TreeRunningIsInUse == ASSUME Habits = {} PROVE Spec => []RunningIsInUse
<1>1. ASSUME Safe, Complete PROVE RunningIsInUse
  <2> SUFFICES ASSUME NEW p \in Primary, running[p] > 0, \A h \in Host : cur[h] # p, NEW n \in Uses(p) PROVE InUse(n)
    BY DEF RunningIsInUse
  <2> USE <1>1 DEF Complete
  <2>1. p \in CB /\ running[p] \in Nat /\ in_use[p] \in Nat
    BY DEF Safe, TypeOK, CB
  <2>2. ~hurt[p] /\ life[p] = "live" /\ ~(running[p] > in_use[p])
    BY DEF PendingSafe, Pending
  <2>3. in_use[p] > 0
    BY <2>1, <2>2
  <2>4. PICK v, m, d \in Node : /\ v = n \/ v \in parents[n]
                                /\ m = v \/ m \in parents[v]
                                /\ d = m \/ d \in parents[m]
                                /\ p = d \/ p \in parents[d]
                                /\ \A y \in {v, m, d} : y = p \/ life[y] = "live"
    BY <2>1, <2>2, Chain
  <2>5. \A S, x, y : x \in S /\ (y = x \/ (y \in parents[x] /\ life[y] = "live")) => y \in Up(S)
    BY DEF Up
  <2>6. life[v] = "live" /\ life[m] = "live" /\ life[d] = "live"
    BY <2>2, <2>4
  <2>7. v \in Up({n})
    BY <2>4, <2>5, <2>6
  <2>8. m \in Up(Up({n}))
    BY <2>4, <2>5, <2>6, <2>7
  <2>9. d \in Up(Up(Up({n})))
    BY <2>4, <2>5, <2>6, <2>8
  <2>10. p \in Up(Up(Up(Up({n}))))
    BY <2>2, <2>4, <2>5, <2>9
  <2> QED BY <2>3, <2>10 DEF InUse
<1>2. Safe /\ Complete => RunningIsInUse
  BY <1>1
<1> QED BY <1>2, CompleteAlways, PTL
=============================================================================
