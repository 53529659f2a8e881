------------------------------- MODULE TreeInv ------------------------------
(***************************************************************************)
(* The inductive invariant behind the properties of ObjectTree, for an     *)
(* application without the habits that break them.                         *)
(*                                                                         *)
(* Safe says that the two ends of every link agree and that whatever a     *)
(* walk can still reach is spoiled: nobody can record it, or into it,      *)
(* until the walk is over.  Complete says that links are there as long as  *)
(* nothing below them changed, and that whatever was harmed and is still   *)
(* executable will be reached.                                             *)
(***************************************************************************)
EXTENDS ObjectTree

\* Destroyed, or about to be.
Gone(n) == life[n] \in {"dying", "dead"}

\* The nodes that walks have still to visit, and those above them along par.
OnTheWay ==
    {n \in Node : \E h \in Host :
        \/ \E f \in Range(frames[h]) : n \in f.rest
        \/ hpc[h] = "reset" /\ n \in parents[cur[h]]}

Above(par, S) ==
    {n \in Node : \A X \in SUBSET Node : S \subseteq X /\ (\A m \in X : par[m] \subseteq X) => n \in X}

\* No new link starts at a spoiled node while a call is under way.
Spoiled(n) == IF n \in CB THEN hurt[n] /\ ~Locked(n)
                          ELSE n \in View \cup Set /\ \E m \in Below(n) : Gone(m)

-----------------------------------------------------------------------------
(* Calls *)

\* One call at a time on an object; which calls have activations, and what about.
Calls ==
    /\ \A g, h \in Host : cur[g] = cur[h] /\ cur[h] # None => g = h
    /\ \A h \in Host :
          /\ hpc[h] = "idle" => cur[h] = None
          /\ hpc[h] \in {"idle", "reset", "submit"} => frames[h] = << >>
          /\ hpc[h] = "update" => cur[h] \in Set
          /\ hpc[h] = "destroy" => cur[h] \in Object /\ life[cur[h]] = "dying"
          /\ hpc[h] = "submit" => cur[h] \in Primary
          /\ hpc[h] \in {"reset", "unlink"} => cur[h] \in CB /\ life[cur[h]] \in {"live", "dying"}
          /\ hpc[h] \in {"destroy", "unlink"} => parents[cur[h]] = {}
          /\ hpc[h] = "unlink" => state[cur[h]] = "CB_NEW" /\ linked[cur[h]] = {}

\* What a handle that does not exist yet, or not any more, is free of.
Lives ==
    /\ \A n \in Node : life[n] \in {"none", "dead"} \/ (n \in Object /\ life[n] = "dying") => parents[n] = {}
    /\ \A c \in CB : /\ life[c] # "dead"
                     /\ life[c] = "none" => bindings[c] = {} /\ state[c] = "CB_NEW"
    /\ \A v \in View : /\ life[v] = "none" => image_of[v] = None
                       /\ image_of[v] # None => life[image_of[v]] # "none"
    /\ \A s \in Set, k \in Slot : slot[s][k] # None => life[slot[s][k]] # "none" /\ life[s] # "none"

-----------------------------------------------------------------------------
(* Links *)

\* A parent really stands on its child.
ParentOf(n, p) ==
    \/ n \in Image /\ p \in View /\ image_of[p] = n
    \/ n \in View /\ p \in Set /\ \E k \in Slot : slot[p][k] = n
    \/ n \in Image \cup Set /\ p \in CB
    \/ n \in Secondary /\ p \in Primary
Structure == \A n \in Node : \A p \in parents[n] : ParentOf(n, p)

\* Parent entries, bindings and what was recorded.
Bound ==
    /\ \A c \in CB, n \in Node : c \in parents[n] => n \in bindings[c]
    /\ \A c \in CB : bindings[c] \subseteq used[c]
    /\ \A c \in CB : used[c] \subseteq Image \cup Set \cup (IF c \in Primary THEN Secondary ELSE {})
    /\ \A c \in CB : state[c] = "CB_NEW" /\ ~Locked(c) => bindings[c] = {}

\* A binding without its entry is about to be removed.
Unlinking == \A c \in CB, n \in Node : n \in bindings[c] => c \in parents[n] \/ WillUnlink(c, n)

-----------------------------------------------------------------------------
(* Walks *)

\* What a walk can reach is spoiled.
Walks == \A n \in Above(parents, OnTheWay) : Spoiled(n)

\* The nodes on the path of an unlinking walk have no parents and get none.
Paths ==
    \A h \in Host : hpc[h] # "update" => \A f \in Range(frames[h]) : \A n \in Range(f.path) :
        parents[n] = {} /\ (n = cur[h] \/ Spoiled(n))

\* Nothing that is reset is pending.
Resets ==
    \A h \in Host : hpc[h] = "reset" => \A p \in Primary :
        p = cur[h] \/ p \in parents[cur[h]] =>
            in_use[p] = 0 /\ \A g \in Host : ~(hpc[g] = "submit" /\ cur[g] = p)

Safe == TypeOK /\ Calls /\ Lives /\ Structure /\ Bound /\ Unlinking /\ LinkedAlive /\ Walks /\ Paths
        /\ InvalidHasReason /\ Resets

-----------------------------------------------------------------------------
(* Completeness *)

\* An object and everything it stands on is alive.
Alive(n) ==
    /\ life[n] = "live"
    /\ n \in View /\ image_of[n] # None => life[image_of[n]] = "live"
    /\ n \in Set => \A k \in Slot : slot[n][k] # None =>
          /\ life[slot[n][k]] = "live"
          /\ image_of[slot[n][k]] # None => life[image_of[slot[n][k]]] = "live"

\* Links between objects that are alive; no view is twice in a set.
Linked ==
    /\ \A v \in View, i \in Image : image_of[v] = i /\ life[v] = "live" /\ life[i] = "live" => v \in parents[i]
    /\ \A s \in Set, k \in Slot, v \in View : slot[s][k] = v /\ life[s] = "live" /\ Alive(v) => s \in parents[v]
    /\ \A s \in Set, j, k \in Slot : slot[s][j] = slot[s][k] /\ slot[s][k] # None => j = k

\* As long as nothing that was recorded was harmed, all of it is alive and linked.
Holds(c, n) ==
    /\ c \in parents[n]
    /\ n \in Object => Alive(n)
    /\ n \in Secondary => ~hurt[n] /\ ~Locked(n) /\ state[n] = "CB_RECORDED" /\ life[n] = "live"
Intact == \A c \in CB : ~hurt[c] => \A n \in used[c] : Holds(c, n)

\* What was harmed and is not yet invalid will be reached.
WillHear ==
    \A c \in CB : hurt[c] /\ state[c] \in {"CB_RECORDING", "CB_RECORDED"} => c \in Above(parents, OnTheWay)

\* What is pending is unharmed, and counted.
PendingSafe ==
    \A p \in Primary :
        /\ Pending(p) => ~hurt[p] /\ ~Locked(p) /\ life[p] = "live"
        /\ running[p] > in_use[p] => running[p] = in_use[p] + 1 /\ \E h \in Host : hpc[h] = "submit" /\ cur[h] = p

Complete == Linked /\ Intact /\ WillHear /\ PendingSafe
=============================================================================
