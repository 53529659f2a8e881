----------------------------- MODULE ObjectTree -----------------------------
(***************************************************************************)
(* The tree of state objects (BASE_NODE, layers/base_node.cpp) and the      *)
(* command buffers at its root (CMD_BUFFER_STATE, layers/                   *)
(* cmd_buffer_state.cpp).                                                   *)
(*                                                                          *)
(* A child knows its parents: an image its views, a view the descriptor     *)
(* sets that hold it, a set and an image the command buffers that use them, *)
(* a secondary the primaries that execute it.  Destroying or updating an    *)
(* object walks up these links, one lock at a time, and makes every command *)
(* buffer it reaches invalid; that walk is what the layer's "invalid        *)
(* because bound ... was destroyed" messages and its in-use checks rest on. *)
(*                                                                          *)
(* Actors are host threads.  One action is one critical section; the lock   *)
(* of a command buffer that Reset() holds over its upward walk is explicit  *)
(* in Locked.  The walk itself is the stack frames[h], depth first as in    *)
(* the code.  running, used and hurt are external: what the device runs,    *)
(* what the application recorded since vkBeginCommandBuffer, and whether    *)
(* something of that was since destroyed, updated or reset.  The            *)
(* application is a valid one, except that the driver's handles of command  *)
(* buffers are reused and those of other objects are not (they are unique   *)
(* identifiers of the layer).                                               *)
(***************************************************************************)
EXTENDS Naturals, Sequences, FiniteSets, SequencesExt

CONSTANTS Host,        \* application threads
          Image,
          View,
          Set,         \* descriptor sets
          Slot,        \* descriptors of a set
          Primary,     \* command buffers
          Secondary,
          None,
          Habits,      \* what this application does: a subset of AllHabits
          MaxUses,     \* bound: objects recorded in a command buffer
          MaxRunning   \* bound: pending submissions of one command buffer

CB     == Primary \cup Secondary
Object == Image \cup View \cup Set
Node   == Object \cup CB

\* "alias": one view in two descriptors of a set; "rebegin": vkBeginCommandBuffer, with
\* its implicit reset, on a recording that was invalidated before its end; "racing": a
\* command buffer is reset, or a set updated, while another thread destroys an object it
\* uses.
AllHabits == {"alias", "rebegin", "racing"}

ASSUME ObjectTreeAssumption ==
    /\ LET kind == <<Image, View, Set, Primary, Secondary>>
       IN  \A i, j \in DOMAIN kind : None \notin kind[i] /\ (i # j => kind[i] \cap kind[j] = {})
    /\ Habits \subseteq AllHabits
    /\ MaxUses \in Nat /\ MaxRunning \in Nat

VARIABLES
    life,       \* handle unknown, in its map, being destroyed, destroyed_
    parents,    \* BASE_NODE::parent_nodes_
    image_of,   \* IMAGE_VIEW_STATE::image_state
    slot,       \* the views in the descriptors of a set
    state,      \* CMD_BUFFER_STATE::state
    bindings,   \* CMD_BUFFER_STATE::object_bindings
    linked,     \* CMD_BUFFER_STATE::linkedCommandBuffers
    broken,     \* keys of CMD_BUFFER_STATE::broken_bindings
    in_use,     \* REFCOUNTED_NODE::in_use_
    hpc,        \* where a host thread is
    cur,        \* the object its call is about
    after,      \* what a call of Reset() was made for
    frames,     \* its activations of NotifyInvalidate(): path so far, parents left
    running,    \* external: submissions the device has not finished
    used,       \* external: what was recorded since vkBeginCommandBuffer
    hurt        \* external: something of it is no longer what was recorded

nodeVars == <<life, parents, image_of, slot>>
cbVars   == <<state, bindings, linked, broken>>
hostVars == <<hpc, cur, after, frames>>
appVars  == <<used, hurt>>
useVars  == <<in_use, running>>
vars     == <<nodeVars, cbVars, hostVars, appVars, useVars>>

CB_STATE == {"CB_NEW", "CB_RECORDING", "CB_RECORDED", "CB_INVALID_COMPLETE", "CB_INVALID_INCOMPLETE"}
Invalid  == {"CB_INVALID_COMPLETE", "CB_INVALID_INCOMPLETE"}
Frame    == [path : Seq(Node) \ {<< >>}, rest : SUBSET (Node \cup {None})]

\* The type invariant.
TypeOK ==
    /\ life     \in [Node -> {"none", "live", "dying", "dead"}]
    /\ parents  \in [Node -> SUBSET Node]
    /\ image_of \in [View -> Image \cup {None}]
    /\ slot     \in [Set -> [Slot -> View \cup {None}]]
    /\ state    \in [CB -> CB_STATE]
    /\ bindings \in [CB -> SUBSET Node]
    /\ linked   \in [CB -> SUBSET Secondary]
    /\ broken   \in [CB -> SUBSET Node]
    /\ in_use   \in [Primary -> Nat]
    /\ hpc      \in [Host -> {"idle", "update", "destroy", "reset", "unlink", "submit"}]
    /\ cur      \in [Host -> Node \cup {None}]
    /\ after    \in [Host -> {"none", "reset", "begin", "free"}]
    /\ frames   \in [Host -> Seq(Frame)]
    /\ running  \in [Primary -> Nat]
    /\ used     \in [CB -> SUBSET Node]
    /\ hurt     \in [CB -> BOOLEAN]

Init ==
    /\ life     = [n \in Node |-> "none"]
    /\ parents  = [n \in Node |-> {}]
    /\ image_of = [v \in View |-> None]
    /\ slot     = [s \in Set |-> [k \in Slot |-> None]]
    /\ state    = [c \in CB |-> "CB_NEW"]
    /\ bindings = [c \in CB |-> {}]
    /\ linked   = [c \in CB |-> {}]
    /\ broken   = [c \in CB |-> {}]
    /\ in_use   = [p \in Primary |-> 0]
    /\ hpc      = [h \in Host |-> "idle"]
    /\ cur      = [h \in Host |-> None]
    /\ after    = [h \in Host |-> "none"]
    /\ frames   = [h \in Host |-> << >>]
    /\ running  = [p \in Primary |-> 0]
    /\ used     = [c \in CB |-> {}]
    /\ hurt     = [c \in CB |-> FALSE]

-----------------------------------------------------------------------------
(* What the application may do *)

Idle(h)   == hpc[h] = "idle"
Quiet     == \A h \in Host : Idle(h)
InCall(n) == \E h \in Host : cur[h] = n
Locked(c) == \E h \in Host : cur[h] = c /\ hpc[h] \in {"reset", "unlink"}

\* The objects an object or a command buffer stands on, itself included.
Below(n) ==
    LET views  == IF n \in Set THEN Range(slot[n]) \ {None} ELSE {n} \cap View
        images == {image_of[v] : v \in views} \ {None}
    IN  {n} \cup views \cup images

Uses(c) ==
    LET own  == used[c] \cap Object
        subs == used[c] \cap Secondary
        deep == UNION {used[s] : s \in subs}
    IN  subs \cup UNION {Below(n) : n \in own \cup deep}

\* In a pending command buffer, as far as the application may assume.
Pending(p) == running[p] > 0 \/ in_use[p] > 0 \/ \E h \in Host : hpc[h] = "submit" /\ cur[h] = p
Busy(n)    == \E p \in Primary : Pending(p) /\ n \in Uses(p) \cup {p}

Sound(n) == /\ life[n] = "live"
            /\ ~InCall(n)
            /\ \A m \in Below(n) : life[m] = "live"

\* External synchronisation of a command buffer.  A careful application does not
\* reset one while another thread destroys or updates something it uses.
MayReset(c) ==
    /\ life[c] = "live" /\ ~InCall(c) /\ ~Busy(c)
    /\ "racing" \in Habits \/ ~hurt[c] \/ Quiet

MayHarm(n) ==
    /\ life[n] = "live" /\ ~InCall(n) /\ ~Busy(n)
    /\ "racing" \in Habits \/ \A c \in CB : Locked(c) => n \notin Uses(c)

\* Nor does it write into a set that holds something another thread may still be
\* destroying.
MayUpdate(s) ==
    /\ MayHarm(s)
    /\ "racing" \in Habits \/ (\A m \in Below(s) : life[m] = "live") \/ Quiet

Harm(n) == hurt' = [c \in CB |-> hurt[c] \/ n \in Uses(c)]

-----------------------------------------------------------------------------
(* BASE_NODE *)

\* Mutant: the entry is not erased.
KeepParent(par, S, p) == par

\* AddParent() of every child in S, RemoveParent() of every child in S.
AddParent(par, S, p)    == [n \in Node |-> IF n \in S THEN par[n] \cup {p} ELSE par[n]]
RemoveParent(par, S, p) == [n \in Node |-> IF n \in S THEN par[n] \ {p} ELSE par[n]]

\* Mutant: the map is copied where it should be moved.
CopyParents(par, n, unlink) == par

\* GetParentsForInvalidate(): unlink empties the map it returns.
GetParentsForInvalidate(par, n, unlink) == IF unlink THEN [par EXCEPT ![n] = {}] ELSE par

\* A new activation of NotifyInvalidate() for the parents S; none if there are none.
Activate(path, S) == IF S = {} THEN << >> ELSE <<[path |-> path, rest |-> S]>>

\* Invalidate(unlink): notifies the parents of n, not n itself.
Invalidate(h, par, n, unlink) ==
    /\ frames'  = [frames EXCEPT ![h] = Activate(<<n>>, par[n])]
    /\ parents' = GetParentsForInvalidate(par, n, unlink)

\* REFCOUNTED_NODE::InUse() of a command buffer, BASE_NODE::InUse() of its children.
\* The longest chain is image, view, set, secondary, primary.
Up(S)    == S \cup {p \in UNION {parents[n] : n \in S} : life[p] \in {"live", "dying"}}
InUse(n) == \E p \in Up(Up(Up(Up({n})))) \cap Primary : in_use[p] > 0

Return(h) == /\ hpc' = [hpc EXCEPT ![h] = "idle"]
             /\ cur' = [cur EXCEPT ![h] = None]

Enter(h, pc, n) == /\ Idle(h)
                   /\ hpc' = [hpc EXCEPT ![h] = pc]
                   /\ cur' = [cur EXCEPT ![h] = n]

-----------------------------------------------------------------------------
(* Objects *)

\* ValidationStateTracker::Add() of an image or an allocated set.
Create(h, n) ==
    /\ Idle(h) /\ life[n] = "none"
    /\ life' = [life EXCEPT ![n] = "live"]
    /\ UNCHANGED <<parents, image_of, slot, cbVars, hostVars, appVars, useVars>>

\* IMAGE_VIEW_STATE::LinkChildNodes()
CreateView(h, v, i) ==
    /\ Idle(h) /\ life[v] = "none" /\ Sound(i)
    /\ life'     = [life EXCEPT ![v] = "live"]
    /\ image_of' = [image_of EXCEPT ![v] = i]
    /\ parents'  = AddParent(parents, {i}, v)
    /\ UNCHANGED <<slot, cbVars, hostVars, appVars, useVars>>

\* ReplaceStatePtr(): the old view forgets the set, the new one learns it.
ReplaceStatePtr(par, s, old, new) == AddParent(RemoveParent(par, {old}, s), {new}, s)

\* PerformWriteUpdate() of one descriptor without UPDATE_AFTER_BIND.
WriteUpdate(h, s, k, v) ==
    /\ MayUpdate(s) /\ Sound(v)
    /\ "alias" \in Habits \/ \A j \in Slot \ {k} : slot[s][j] # v
    /\ Enter(h, "update", s)
    /\ slot' = [slot EXCEPT ![s][k] = v]
    /\ Invalidate(h, ReplaceStatePtr(parents, s, slot[s][k], v), s, FALSE)
    /\ Harm(s)
    /\ UNCHANGED <<life, image_of, cbVars, after, used, useVars>>

\* The children an object's Destroy() leaves before BASE_NODE::Destroy().
Children(n) == IF n \in Set THEN Range(slot[n]) \ {None}
               ELSE IF n \in View THEN {image_of[n]} \ {None}
               ELSE {}

\* ValidationStateTracker::Destroy(): out of the map, then Destroy() of the object.
Destroy(h, n) ==
    /\ MayHarm(n)
    /\ Enter(h, "destroy", n)
    /\ life' = [life EXCEPT ![n] = "dying"]
    /\ image_of' = [v \in View |-> IF v = n THEN None ELSE image_of[v]]
    /\ Invalidate(h, RemoveParent(parents, Children(n), n), n, TRUE)
    /\ Harm(n)
    /\ UNCHANGED <<slot, cbVars, after, used, useVars>>

\* The rest of BASE_NODE::Destroy(), or the return of an update.
FinishObject(h) ==
    /\ hpc[h] \in {"destroy", "update"} /\ frames[h] = << >>
    /\ life' = IF hpc[h] = "destroy" THEN [life EXCEPT ![cur[h]] = "dead"] ELSE life
    /\ Return(h)
    /\ UNCHANGED <<parents, image_of, slot, cbVars, after, frames, appVars, useVars>>

-----------------------------------------------------------------------------
(* NotifyInvalidate() *)

\* Mutant: only a recording in progress becomes invalid.
InvalidatedRecording(st) == IF st = "CB_RECORDING" THEN "CB_INVALID_INCOMPLETE" ELSE st

\* CMD_BUFFER_STATE::NotifyInvalidate() up to its call of the base class.
Invalidated(st) == CASE st = "CB_RECORDING" -> "CB_INVALID_INCOMPLETE"
                     [] st = "CB_RECORDED"  -> "CB_INVALID_COMPLETE"
                     [] OTHER               -> st

\* Mutant: the pointers to secondaries are kept.
BreakBindings(c, path, unlink) ==
    /\ state'    = [state EXCEPT ![c] = Invalidated(@)]
    /\ broken'   = [broken EXCEPT ![c] = @ \cup {path[1]}]
    /\ bindings' = IF unlink THEN [bindings EXCEPT ![c] = @ \ Range(path)] ELSE bindings
    /\ UNCHANGED linked

Break(c, path, unlink) ==
    /\ state'    = [state EXCEPT ![c] = Invalidated(@)]
    /\ broken'   = [broken EXCEPT ![c] = @ \cup {path[1]}]
    /\ bindings' = IF unlink THEN [bindings EXCEPT ![c] = @ \ Range(path)] ELSE bindings
    /\ linked'   = IF unlink THEN [linked EXCEPT ![c] = @ \ Range(path)] ELSE linked

\* Mutant: a walk that finds a parent already destroyed does not go on to the next.
NotifyInvalidateStuck(h) ==
    /\ frames[h] # << >>
    /\ LET top    == Last(frames[h])
           unlink == hpc[h] # "update"
       IN \E p \in top.rest :
            /\ p # None /\ life[p] \in {"live", "dying"}
            /\ p \in CB => ~Locked(p)
            /\ IF p \in CB THEN Break(p, top.path, unlink) ELSE UNCHANGED cbVars
            /\ frames' = [frames EXCEPT ![h] =
                    Front(frames[h]) \o Activate(top.path, top.rest \ {p}) \o Activate(Append(top.path, p), parents[p])]
            /\ parents' = GetParentsForInvalidate(parents, p, unlink)
    /\ UNCHANGED <<life, image_of, slot, hpc, cur, after, appVars, useVars>>

\* One parent of the topmost activation; None is one that was freed in the meantime.  An
\* activation is left with its last parent.
NotifyInvalidate(h) ==
    /\ frames[h] # << >>
    /\ LET top    == Last(frames[h])
           unlink == hpc[h] # "update"
       IN \E p \in top.rest :
            LET left  == Front(frames[h]) \o Activate(top.path, top.rest \ {p})
                found == p # None /\ life[p] \in {"live", "dying"}     \* node && !node->Destroyed()
            IN  /\ p \in CB /\ found => ~Locked(p)
                /\ IF p \in CB /\ found THEN Break(p, top.path, unlink) ELSE UNCHANGED cbVars
                /\ frames' = [frames EXCEPT ![h] =
                        IF found THEN left \o Activate(Append(top.path, p), parents[p]) ELSE left]
                /\ parents' = IF found THEN GetParentsForInvalidate(parents, p, unlink) ELSE parents
    /\ UNCHANGED <<life, image_of, slot, hpc, cur, after, appVars, useVars>>

-----------------------------------------------------------------------------
(* Command buffers *)

\* COMMAND_POOL_STATE::Allocate(); the constructor's Reset() finds nothing to undo.
Allocate(h, c) ==
    /\ Idle(h) /\ life[c] = "none"
    /\ life' = [life EXCEPT ![c] = "live"]
    /\ UNCHANGED <<parents, image_of, slot, cbVars, hostVars, appVars, useVars>>

\* CMD_BUFFER_STATE::AddChild()
AddChild(c, n) ==
    /\ parents'  = AddParent(parents, {n}, c)
    /\ bindings' = IF c \in parents[n] THEN bindings ELSE [bindings EXCEPT ![c] = @ \cup {n}]

\* The application records only into a command buffer that is in the recording state.
Recording(c) == life[c] = "live" /\ ~InCall(c) /\ state[c] = "CB_RECORDING" /\ ~hurt[c]

\* A command that uses an image or a bound set.
Record(h, c, n) ==
    /\ Idle(h) /\ Recording(c) /\ Sound(n)
    /\ Cardinality(used[c]) < MaxUses
    /\ AddChild(c, n)
    /\ used' = [used EXCEPT ![c] = @ \cup {n}]
    /\ UNCHANGED <<life, image_of, slot, state, linked, broken, hostVars, hurt, useVars>>

\* Mutant: the secondary is linked but is not a child.
ExecuteCommandsUnbound(h, p, s) ==
    /\ Idle(h) /\ Recording(p)
    /\ life[s] = "live" /\ ~InCall(s) /\ state[s] = "CB_RECORDED" /\ ~hurt[s]
    /\ Cardinality(used[p]) < MaxUses
    /\ linked' = [linked EXCEPT ![p] = @ \cup {s}]
    /\ used' = [used EXCEPT ![p] = @ \cup {s}]
    /\ UNCHANGED <<nodeVars, bindings, state, broken, hostVars, hurt, useVars>>

\* CMD_BUFFER_STATE::ExecuteCommands(); secondaries have the simultaneous-use flag.
ExecuteCommands(h, p, s) ==
    /\ Idle(h) /\ Recording(p)
    /\ life[s] = "live" /\ ~InCall(s) /\ state[s] = "CB_RECORDED" /\ ~hurt[s]
    /\ Cardinality(used[p]) < MaxUses
    /\ linked' = [linked EXCEPT ![p] = @ \cup {s}]
    /\ AddChild(p, s)
    /\ used' = [used EXCEPT ![p] = @ \cup {s}]
    /\ UNCHANGED <<life, image_of, slot, state, broken, hostVars, hurt, useVars>>

\* CMD_BUFFER_STATE::End()
End(h, c) ==
    /\ Idle(h) /\ Recording(c)
    /\ state' = [state EXCEPT ![c] = "CB_RECORDED"]
    /\ UNCHANGED <<nodeVars, bindings, linked, broken, hostVars, appVars, useVars>>

\* The application's view of a new recording.
Forget(c) == /\ used' = [used EXCEPT ![c] = {}]
             /\ hurt' = [hurt EXCEPT ![c] = FALSE]

ImplicitReset == {"CB_RECORDED", "CB_INVALID_COMPLETE"}

\* CMD_BUFFER_STATE::Begin() without its Reset().
Begin(h, c) ==
    /\ Idle(h) /\ MayReset(c)
    /\ state[c] \notin ImplicitReset \cup {"CB_RECORDING"}
    /\ state[c] = "CB_INVALID_INCOMPLETE" => "rebegin" \in Habits
    /\ state' = [state EXCEPT ![c] = "CB_RECORDING"]
    /\ Forget(c)
    /\ UNCHANGED <<nodeVars, bindings, linked, broken, hostVars, useVars>>

\* Reset() is called for vkResetCommandBuffer (or its pool), by Begin(), and by
\* CMD_BUFFER_STATE::Destroy() when the command buffer is freed.
CallReset(h, c, why) ==
    /\ MayReset(c) /\ MayHarm(c)
    /\ why = "begin" => state[c] \in ImplicitReset
    /\ Enter(h, "reset", c)
    /\ after' = [after EXCEPT ![h] = why]
    /\ life'  = IF why = "free" THEN [life EXCEPT ![c] = "dying"] ELSE life
    /\ Harm(c)
    /\ UNCHANGED <<parents, image_of, slot, cbVars, frames, used, useVars>>

\* CMD_BUFFER_STATE::Reset() up to "Remove reverse command buffer links".
Reset(h) ==
    /\ hpc[h] = "reset"
    /\ state'  = [state EXCEPT ![cur[h]] = "CB_NEW"]
    /\ broken' = [broken EXCEPT ![cur[h]] = {}]
    /\ linked' = [linked EXCEPT ![cur[h]] = {}]
    /\ Invalidate(h, parents, cur[h], TRUE)
    /\ hpc' = [hpc EXCEPT ![h] = "unlink"]
    /\ UNCHANGED <<life, image_of, slot, bindings, cur, after, appVars, useVars>>

\* A freed state object is gone: weak pointers to it, also those that a walk has
\* copied, no longer lock.
Expire(fr, c) ==
    [h \in Host |-> [i \in DOMAIN fr[h] |->
        IF c \in fr[h][i].rest THEN [fr[h][i] EXCEPT !.rest = (@ \ {c}) \cup {None}] ELSE fr[h][i]]]

\* Mutant: the bindings are dropped, the parent entries stay.
FinishResetClears(h) ==
    /\ hpc[h] = "unlink" /\ frames[h] = << >>
    /\ LET c == cur[h] IN
         /\ bindings' = [bindings EXCEPT ![c] = {}]
         /\ state'    = IF after[h] = "begin" THEN [state EXCEPT ![c] = "CB_RECORDING"] ELSE state
         /\ life'     = IF after[h] = "free" THEN [life EXCEPT ![c] = "none"] ELSE life
         /\ frames'   = IF after[h] = "free" THEN Expire(frames, c) ELSE frames
         /\ Forget(c)
    /\ after' = [after EXCEPT ![h] = "none"]
    /\ Return(h)
    /\ UNCHANGED <<parents, image_of, slot, linked, broken, useVars>>

\* The rest of Reset(), "Remove object bindings", and of its caller.
FinishReset(h) ==
    /\ hpc[h] = "unlink" /\ frames[h] = << >>
    /\ LET c == cur[h] IN
         /\ parents'  = RemoveParent(parents, bindings[c], c)
         /\ bindings' = [bindings EXCEPT ![c] = {}]
         /\ state'    = IF after[h] = "begin" THEN [state EXCEPT ![c] = "CB_RECORDING"] ELSE state
         /\ life'     = IF after[h] = "free" THEN [life EXCEPT ![c] = "none"] ELSE life
         /\ frames'   = IF after[h] = "free" THEN Expire(frames, c) ELSE frames
         /\ Forget(c)
    /\ after' = [after EXCEPT ![h] = "none"]
    /\ Return(h)
    /\ UNCHANGED <<image_of, slot, linked, broken, useVars>>

-----------------------------------------------------------------------------
(* Submission: the counters of the command buffers *)

\* The driver accepts a submission of p.
QueueSubmit(h, p) ==
    /\ life[p] = "live" /\ ~InCall(p) /\ state[p] = "CB_RECORDED" /\ ~hurt[p]
    /\ running[p] < MaxRunning /\ in_use[p] < MaxRunning
    /\ \A n \in Uses(p) : ~InCall(n)
    /\ Enter(h, "submit", p)
    /\ running' = [running EXCEPT ![p] = @ + 1]
    /\ UNCHANGED <<nodeVars, cbVars, after, frames, appVars, in_use>>

\* CB_SUBMISSION::BeginUse() in the record of the call.
BeginUse(h) ==
    /\ hpc[h] = "submit"
    /\ in_use' = [in_use EXCEPT ![cur[h]] = @ + 1]
    /\ Return(h)
    /\ UNCHANGED <<nodeVars, cbVars, after, frames, appVars, running>>

\* External: the device finishes a submission of p.
DeviceFinish(p) ==
    /\ running[p] > 0
    /\ running' = [running EXCEPT ![p] = @ - 1]
    /\ UNCHANGED <<nodeVars, cbVars, hostVars, appVars, in_use>>

\* Mutant: a count is given back that was not taken.
EndUseTwice(p) ==
    /\ in_use[p] >= running[p]
    /\ in_use' = [in_use EXCEPT ![p] = @ - 1]
    /\ UNCHANGED <<nodeVars, cbVars, hostVars, appVars, running>>

\* CB_SUBMISSION::EndUse() by the queue thread, for a submission that is finished.
EndUse(p) ==
    /\ in_use[p] > running[p]
    /\ in_use' = [in_use EXCEPT ![p] = @ - 1]
    /\ UNCHANGED <<nodeVars, cbVars, hostVars, appVars, running>>

-----------------------------------------------------------------------------

Call(h) ==
    \/ \E n \in Image \cup Set : Create(h, n)
    \/ \E v \in View, i \in Image : CreateView(h, v, i)
    \/ \E s \in Set, k \in Slot, v \in View : WriteUpdate(h, s, k, v)
    \/ \E n \in Object : Destroy(h, n)
    \/ \E c \in CB : Allocate(h, c)
    \/ \E c \in CB, n \in Image \cup Set : Record(h, c, n)
    \/ \E p \in Primary, s \in Secondary : ExecuteCommands(h, p, s)
    \/ \E c \in CB : End(h, c)
    \/ \E c \in CB : Begin(h, c)
    \/ \E c \in CB, why \in {"reset", "begin", "free"} : CallReset(h, c, why)
    \/ \E p \in Primary : QueueSubmit(h, p)

\* A host thread inside a call.
Step(h) ==
    \/ FinishObject(h)
    \/ NotifyInvalidate(h)
    \/ Reset(h)
    \/ FinishReset(h)
    \/ BeginUse(h)

Next ==
    \/ \E h \in Host : Call(h)
    \/ \E h \in Host : Step(h)
    \/ \E p \in Primary : DeviceFinish(p)
    \/ \E p \in Primary : EndUse(p)

Spec     == Init /\ [][Next]_vars
FairSpec == Spec /\ \A h \in Host : WF_vars(Step(h))

-----------------------------------------------------------------------------
(* Properties *)

\* A walk that will still reach command buffer c and take n out of its bindings.
WillUnlink(c, n) ==
    \E h \in Host : hpc[h] # "update" /\ \E f \in Range(frames[h]) : c \in f.rest /\ n \in Range(f.path)

\* object_bindings and parent_nodes_ are two ends of the same links.  A parent entry
\* without a binding would survive Reset() and invalidate a later recording; a binding
\* without a parent entry is only left while a walk is on its way to remove it.
LinksMatch ==
    \A c \in CB, n \in Node :
        /\ c \in parents[n] => n \in bindings[c]
        /\ n \in bindings[c] => c \in parents[n] \/ WillUnlink(c, n)

\* linkedCommandBuffers holds raw pointers: each one is also a binding, whose
\* shared_ptr keeps the secondary alive, and the secondary's handle is not reused.
LinkedAlive ==
    \A p \in CB : \A s \in linked[p] : s \in bindings[p] /\ life[s] \in {"live", "dying"}

\* No command buffer stays executable after something it recorded was destroyed,
\* updated or reset, whatever the number of levels between them.
NeverSilentlyValid ==
    Quiet => \A c \in CB : hurt[c] => state[c] \notin {"CB_RECORDING", "CB_RECORDED"}

\* "invalid because bound ... was destroyed": an invalid command buffer did record
\* something that was destroyed, updated or reset.
InvalidHasReason == \A c \in CB : life[c] = "live" /\ state[c] \in Invalid => hurt[c]

\* While the device runs a command buffer, everything below it is InUse(), so that
\* the checks of vkDestroy*, vkFree* and vkReset* see it.
RunningIsInUse ==
    \A p \in Primary :
        running[p] > 0 /\ (\A h \in Host : cur[h] # p) => \A n \in Uses(p) : InUse(n)

\* The assertion at the head of CMD_BUFFER_STATE::Reset().
ResetAssert == \A h \in Host : hpc[h] = "reset" => ~InUse(cur[h])

\* Every call returns: walks are finite and no two of them wait for each other's
\* command buffer locks.
CallsEnd == \A h \in Host : hpc[h] # "idle" ~> hpc[h] = "idle"
=============================================================================
