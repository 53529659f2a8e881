---------------------------- MODULE HappensBefore ----------------------------
(***************************************************************************)
(* The reference that synchronization validation is measured against: the  *)
(* whole history of the accesses to a range, where nothing is forgotten.   *)
(* Each access keeps the stages and the usages that the barriers since     *)
(* have put after it, and the later accesses that happen after it.         *)
(*                                                                         *)
(* The rules are those the design document of the layer states             *)
(* (docs/synchronization.md, "Most Recent Access"): a write is ordered     *)
(* before what it is made visible to, a read before what has an execution  *)
(* dependency on it, barriers chain through their second scope, and        *)
(* happens-before is transitive.                                           *)
(***************************************************************************)
EXTENDS ResourceAccess

\* The accesses of h that a new one of usage u directly happens after.
DirectlyBefore(h, u) ==
    {i \in DOMAIN h : IF IsRead(h[i].usage) THEN u.stage \in h[i].after
                                            ELSE u \in h[i].visible}

\* h with one more access, which happens after those in D and, by
\* transitivity, after whatever comes before them.
Extend(h, u, D, after, visible) ==
    LET n == Len(h) + 1
        Ordered(i) == i \in D \/ h[i].before \cap D # {}
    IN  Append([i \in DOMAIN h |-> IF Ordered(i) THEN [h[i] EXCEPT !.before = @ \cup {n}]
                                                 ELSE h[i]],
               [usage |-> u, after |-> after, visible |-> visible, before |-> {}])

Accessed(h, u) == Extend(h, u, DirectlyBefore(h, u), {}, {})

InFirstScope(a, b) ==
    \/ a.after \cap b.srcExec # {}
    \/ IF IsRead(a.usage) THEN a.usage.stage \in b.srcExec ELSE a.usage \in b.srcAccess

\* A transition needs the accesses before it in the first scope of its
\* barrier, a write available to it as well; transitions are ordered.
BeforeTransition(a, b) ==
    \/ IsRead(a.usage) /\ InFirstScope(a, b)
    \/ a.usage = Transition
    \/ a.usage \in b.srcAccess
    \/ /\ ~IsRead(a.usage)
       /\ a.after \cap b.srcExec # {}
       /\ a.visible \cap b.srcAccess # {}

Barriered(h, B) ==
    LET hit(a) == {b \in B : InFirstScope(a, b)}
        later == [i \in DOMAIN h |->
                    [h[i] EXCEPT !.after = @ \cup UNION {b.dstExec : b \in hit(h[i])},
                                 !.visible = @ \cup UNION {b.dstAccess : b \in hit(h[i])}]]
        trans == {b \in B : b.transition}
    IN  IF trans = {} THEN later
        ELSE LET b == CHOOSE b \in trans : TRUE
             IN  Extend(later, Transition, {i \in DOMAIN h : BeforeTransition(h[i], b)},
                        b.dstExec, b.dstAccess)

Conflict(u, v) == ~(IsRead(u) /\ IsRead(v))

\* The pairs of h that no rule orders: the hazards.
Hazards(h) == {p \in (1 .. Len(h)) \X (1 .. Len(h)) :
                   p[1] < p[2] /\ Conflict(h[p[1]].usage, h[p[2]].usage) /\ p[2] \notin h[p[1]].before}
=============================================================================
