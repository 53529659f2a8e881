--------------------------- MODULE SyncValidation ---------------------------
(***************************************************************************)
(* Synchronization validation while command buffers are recorded           *)
(* (SyncValidator and CommandBufferAccessContext): accesses and pipeline   *)
(* barriers of primary and secondary command buffers, and                  *)
(* vkCmdExecuteCommands.  One range of memory; the layer's state for it is *)
(* a ResourceAccessState per command buffer (ResourceAccess), the truth is *)
(* the history of the accesses a primary will make (HappensBefore).        *)
(***************************************************************************)
EXTENDS HappensBefore

CONSTANTS
    Primary,        \* primary command buffers
    Secondary,      \* secondary command buffers
    UsedUsages,     \* the accesses that the application makes
    BarrierSets,    \* the pipeline barriers that it records, each a set of AppBarrier
    ExecuteLists,   \* the lists of secondaries that it passes to vkCmdExecuteCommands
    MaxCommands,    \* bound: commands in all the command buffers
    MaxSecondary,   \* bound: commands in a secondary
    GoOn            \* whether a primary records more after vkCmdExecuteCommands

CmdBuf == Primary \cup Secondary

ASSUME SyncAssumption ==
    /\ Primary \cap Secondary = {}
    /\ UsedUsages \subseteq Usages
    /\ \A B \in BarrierSets : B \subseteq AppBarrier
    /\ \A list \in ExecuteLists : list \in Seq(Secondary) /\ list # <<>>
    /\ MaxCommands \in Nat /\ MaxSecondary \in Nat /\ GoOn \in BOOLEAN

VARIABLES
    access,     \* access[c]: the access context of c
    log_size,   \* log_size[c]: the length of its access log, the next tag
    cmds,       \* cmds[c]: its own commands and their tags; the barriers among them are sync_ops_
    ended,      \* the command buffers whose recording has ended
    history,    \* history[c]: every access of c, those of executed secondaries included
    executed,   \* executed[c]: what its first vkCmdExecuteCommands added to history[c]
    reported    \* the command buffers with a reported hazard

vars == <<access, log_size, cmds, ended, history, executed, reported>>

AccessCmd(tag, u) == [tag |-> tag, usage |-> u, barriers |-> {}]

BarrierCmd(tag, B) == [tag |-> tag, usage |-> NoUsage, barriers |-> B]

IsBarrier(cmd) == cmd.usage = NoUsage

SyncOps(c) == SelectSeq(cmds[c], IsBarrier)

NothingExecuted == [done |-> FALSE, from |-> 0, to |-> 0, firsts |-> 0]

Init ==
    /\ access = [c \in CmdBuf |-> Untouched]
    /\ log_size = [c \in CmdBuf |-> 0]
    /\ cmds = [c \in CmdBuf |-> <<>>]
    /\ ended = {}
    /\ history = [c \in CmdBuf |-> <<>>]
    /\ executed = [c \in CmdBuf |-> NothingExecuted]
    /\ reported = {}

\* Recording stops at the first hazard: LogError() asks to skip the call, and
\* what follows an unfixed hazard is not judged.  Secondaries are recorded
\* before primaries; the order makes no difference to either.
Recording(c) ==
    /\ c \notin ended \cup reported
    /\ c \in Primary => Secondary \subseteq ended \cup reported
    /\ MapThenSumSet(LAMBDA d : Len(cmds[d]), CmdBuf) < MaxCommands
    /\ c \in Secondary => Len(cmds[c]) < MaxSecondary
    /\ executed[c].done => GoOn

Report(c) ==
    /\ reported' = reported \cup {c}
    /\ UNCHANGED <<access, log_size, cmds, ended, executed>>

(***************************************************************************)
(* A command that accesses the range: PreCallValidateCmd... detects,       *)
(* PreCallRecordCmd... updates.                                            *)
(***************************************************************************)
CmdAccess(c, u) ==
    /\ Recording(c)
    /\ history' = [history EXCEPT ![c] = Accessed(@, u)]
    /\ IF DetectHazard(access[c], u, NonAttachment)
       THEN Report(c)
       ELSE /\ access' = [access EXCEPT ![c] = Update(@, u, log_size[c])]
            /\ cmds' = [cmds EXCEPT ![c] = Append(@, AccessCmd(log_size[c], u))]
            /\ log_size' = [log_size EXCEPT ![c] = @ + 1]
            /\ UNCHANGED <<ended, executed, reported>>

(***************************************************************************)
(* vkCmdPipelineBarrier: a layout transition is an access that may be a    *)
(* hazard; then SyncOpPipelineBarrier::Record().                           *)
(***************************************************************************)
Scopes(B) == {SyncBarrier(b) : b \in B}

TransitionHazard(A, B) ==
    \E b \in B : b.transition /\ DetectBarrierHazard(A, b.srcExec, b.srcAccess)

CmdPipelineBarrier(c, B) ==
    /\ Recording(c)
    /\ history' = [history EXCEPT ![c] = Barriered(@, Scopes(B))]
    /\ IF TransitionHazard(access[c], Scopes(B))
       THEN Report(c)
       ELSE /\ access' = [access EXCEPT ![c] = ApplyBarriers(@, Scopes(B), log_size[c])]
            /\ cmds' = [cmds EXCEPT ![c] = Append(@, BarrierCmd(log_size[c], B))]
            /\ log_size' = [log_size EXCEPT ![c] = @ + 1]
            /\ UNCHANGED <<ended, executed, reported>>

(***************************************************************************)
(* vkCmdExecuteCommands.                                                   *)
(***************************************************************************)
\* ReplayRecord() of each sync_op of c, in a context where its tags start at base.
ReplayBarriers(A, c, base) ==
    FoldLeft(LAMBDA acc, op : ApplyBarriers(acc, Scopes(op.barriers), base + op.tag),
             A, SyncOps(c))

\* ValidateFirstUse(): the first accesses of s, up to each of its barriers and
\* after the last, against A with the barriers before them applied.
ValidateFirstUse(A, s, base) ==
    LET Step(acc, op) ==
            [A |-> ApplyBarriers(acc.A, Scopes(op.barriers), base + op.tag),
             begin |-> op.tag + 1,
             hazard |-> acc.hazard \/ DetectFirstUseHazard(acc.A, access[s], acc.begin, op.tag + 1)]
        replayed == FoldLeft(Step, [A |-> A, begin |-> 0, hazard |-> FALSE], SyncOps(s))
    IN  \/ replayed.hazard
        \/ DetectFirstUseHazard(replayed.A, access[s], replayed.begin, log_size[s])

\* PreCallValidate: each secondary of the list in turn against a proxy of the
\* primary's context, into which it is then resolved.
ExecuteProxy(p, list) ==
    LET Step(proxy, s) ==
            LET base == proxy.size + 1
                A == ReplayBarriers(proxy.A, s, base)
            IN  [A |-> ResolveFrom(A, OffsetTag(access[s], base)),
                 size |-> base + log_size[s],
                 hazard |-> proxy.hazard \/ ValidateFirstUse(proxy.A, s, base)]
    IN  FoldLeft(Step, [A |-> access[p], size |-> log_size[p], hazard |-> FALSE], list)

\* PreCallRecord: RecordExecutedCommandBuffer() once for each entry of the
\* list, but the context that is looked up is the primary's own: the
\* primary's barriers are replayed and its own accesses resolved into it.
RecordExecuted(p, n) ==
    LET Step(own, i) ==
            LET base == own.size + 1
                A == ReplayBarriers(own.A, p, base)
            IN  [A |-> ResolveFrom(A, OffsetTag(A, base)), size |-> 2 * base]
    IN  FoldLeft(Step, [A |-> access[p], size |-> log_size[p]], [i \in 1 .. n |-> i])

\* What the secondaries really do.
HistoryOf(h, list) ==
    LET Command(acc, cmd) == IF IsBarrier(cmd) THEN Barriered(acc, Scopes(cmd.barriers))
                                               ELSE Accessed(acc, cmd.usage)
    IN  FoldLeft(Command, h, FlattenSeq([i \in DOMAIN list |-> cmds[list[i]]]))

CmdExecuteCommands(p, list) ==
    /\ Recording(p)
    /\ \A i \in DOMAIN list : list[i] \in ended \ reported
    /\ ~executed[p].done
    /\ history' = [history EXCEPT ![p] = HistoryOf(@, list)]
    /\ executed' = [executed EXCEPT ![p] =
           [done |-> TRUE, from |-> Len(history[p]), to |-> Len(history'[p]),
            firsts |-> Len(access[list[1]].firsts) + Len(list) - 1]]
    /\ IF ExecuteProxy(p, list).hazard
       THEN /\ reported' = reported \cup {p}
            /\ UNCHANGED <<access, log_size, cmds, ended>>
       ELSE /\ access' = [access EXCEPT ![p] = RecordExecuted(p, Len(list)).A]
            /\ log_size' = [log_size EXCEPT ![p] = RecordExecuted(p, Len(list)).size]
            /\ UNCHANGED <<cmds, ended, reported>>

EndCommandBuffer(c) ==
    /\ c \notin ended \cup reported
    /\ ended' = ended \cup {c}
    /\ UNCHANGED <<access, log_size, cmds, history, executed, reported>>

\* vkResetCommandPool: every command buffer of the pool starts over.
ResetCommandPool ==
    /\ access' = [c \in CmdBuf |-> Untouched]
    /\ log_size' = [c \in CmdBuf |-> 0]
    /\ cmds' = [c \in CmdBuf |-> <<>>]
    /\ ended' = {}
    /\ history' = [c \in CmdBuf |-> <<>>]
    /\ executed' = [c \in CmdBuf |-> NothingExecuted]
    /\ reported' = {}

Next ==
    \/ \E c \in CmdBuf, u \in UsedUsages : CmdAccess(c, u)
    \/ \E c \in CmdBuf, B \in BarrierSets : CmdPipelineBarrier(c, B)
    \/ \E p \in Primary, list \in ExecuteLists : CmdExecuteCommands(p, list)
    \/ \E c \in Secondary : EndCommandBuffer(c)
    \/ ResetCommandPool

Spec == Init /\ [][Next]_vars

-----------------------------------------------------------------------------
\* Every field of the access contexts holds a value of its type: tags never
\* wrap below zero, and masks name only stages and usages of the range.
TypeOK ==
    /\ DOMAIN access = CmdBuf
    /\ \A c \in CmdBuf : IsResourceAccessState(access[c])
    /\ log_size \in [CmdBuf -> Nat]
    /\ ended \subseteq CmdBuf /\ reported \subseteq CmdBuf

TagsIn(A, size) ==
    /\ HasWrite(A) => A.write_tag < size
    /\ \A s \in DOMAIN A.reads : /\ A.reads[s].tag < size
                                 /\ HasWrite(A) => A.write_tag < A.reads[s].tag
    /\ \A i, j \in DOMAIN A.firsts : i < j =>
          /\ A.firsts[i].tag < A.firsts[j].tag
          /\ IsRead(A.firsts[i].usage)
          /\ A.firsts[i].usage # A.firsts[j].usage
    /\ A.firsts # <<>> => Last(A.firsts).tag < size

\* The tags of a context name entries of its access log (FormatUsage()
\* asserts it when a hazard is reported), the reads are more recent than the
\* write, and the first accesses are reads of different stages in the order
\* of their tags up to the first write, which is what ValidateFirstUse()
\* takes for granted when it cuts the list in ranges at the barriers.  It
\* holds of a context that executed nothing, and of the proxy into which
\* PreCallValidateCmdExecuteCommands() merges the secondaries.
TagsInOrder ==
    /\ \A c \in CmdBuf : ~executed[c].done => TagsIn(access[c], log_size[c])
    /\ \A p \in Primary, list \in ExecuteLists :
          (~executed[p].done /\ \A i \in DOMAIN list : list[i] \in ended) =>
              LET proxy == ExecuteProxy(p, list) IN TagsIn(proxy.A, proxy.size)

\* The accesses of history[c] that NoMissedHazard and NoFalseHazard speak of:
\* all up to the first vkCmdExecuteCommands, and those of the secondary too
\* if it has a single first access.  What the layer makes of the others is
\* the subject of SecondariesChecked.
Judged(c) ==
    CASE ~executed[c].done -> Len(history[c])
      [] executed[c].firsts <= 1 -> executed[c].to
      [] OTHER -> executed[c].from

\* The summary the layer keeps (one write, one read per stage) loses no
\* hazard: as long as nothing was reported, any two conflicting accesses of
\* the whole history are ordered, however far apart, through whatever chain
\* of barriers, intermediate reads and layout transitions.  It is the claim
\* that "the correctness of the entire sequence can be assured by pairwise
\* hazard checks" of the most recent accesses (docs/synchronization.md).
NoMissedHazard ==
    \A c \in CmdBuf \ reported : \A h \in Hazards(history[c]) : h[2] > Judged(c)

\* Between two writes no stage reads the range twice.
ReadOnce(h) ==
    \A i, j \in DOMAIN h : i < j /\ IsRead(h[i].usage) /\ h[i].usage = h[j].usage =>
        \E k \in i .. j : ~IsRead(h[k].usage)

\* And it invents none: a hazard is reported only if the history does hold a
\* conflicting pair that nothing orders.  Not if a stage reads again before
\* the next write: SetRead() then forgets the barriers after its earlier
\* read, and what they order.
NoFalseHazard ==
    \A c \in reported : Len(history[c]) <= Judged(c) /\ ReadOnce(history[c]) => Hazards(history[c]) # {}

\* Hazards "from or with secondary command buffers" are detected
\* (docs/synchronization_usage.md): no hazard goes unreported in a primary
\* that executes secondaries.  The code does not keep this promise, since
\* PreCallRecordCmdExecuteCommands() records the primary in place of each
\* secondary.
SecondariesChecked == \A c \in CmdBuf \ reported : Hazards(history[c]) = {}
=============================================================================
