--------------------------- MODULE ResourceAccess ---------------------------
(***************************************************************************)
(* ResourceAccessState of synchronization validation: what the layer       *)
(* remembers of the accesses to one range of memory, as operators on a     *)
(* record.  It is a summary, bounded by the number of pipeline stages: the *)
(* most recent write, the most recent read of each stage since that write, *)
(* and the barriers that followed them.                                    *)
(*                                                                         *)
(* The accesses of one command buffer all have the queue kQueueIdInvalid,  *)
(* so the queue of an access is left out, and with it the operations that  *)
(* exist only for queue submission.  Render pass instances are left out    *)
(* too: every access has the ordering rule kNonAttachment.                 *)
(***************************************************************************)
EXTENDS Naturals, FiniteSets, SequencesExt

CONSTANTS
    Stages,             \* the pipeline stages that access the range
    LogicallyEarlier    \* the stages that come before a stage in its pipeline

NoStage == "no_stage"

ASSUME StagesAssumption ==
    /\ IsFiniteSet(Stages)
    /\ NoStage \notin Stages
    /\ LogicallyEarlier \in [Stages -> SUBSET Stages]

(***************************************************************************)
(* SyncStageAccessIndex: a stage that reads or writes.  A layout           *)
(* transition is a write of its own, which no access mask can name.        *)
(***************************************************************************)
Usages == [stage : Stages, acc : {"read", "write"}]

Transition == [stage |-> NoStage, acc |-> "write"]

NoUsage == [stage |-> NoStage, acc |-> "none"]

IsRead(u) == u.acc = "read"

WithEarlierPipelineStages(m) == m \cup UNION {LogicallyEarlier[s] : s \in m}

WithLaterPipelineStages(m) == m \cup {s \in Stages : LogicallyEarlier[s] \cap m # {}}

AccessScope(m, acc) == {u \in Usages : u.stage \in m /\ u.acc \in acc}

(***************************************************************************)
(* SyncBarrier: the scopes of one barrier of a command.  An application    *)
(* gives the stages and access kinds of the two halves.                    *)
(***************************************************************************)
AppBarrier == [src : SUBSET Stages, srcAccess : SUBSET {"read", "write"},
               dst : SUBSET Stages, dstAccess : SUBSET {"read", "write"},
               transition : BOOLEAN]

SyncBarrier(b) == [srcExec |-> WithEarlierPipelineStages(b.src),
                   srcAccess |-> AccessScope(b.src, b.srcAccess),
                   dstExec |-> WithLaterPipelineStages(b.dst),
                   dstAccess |-> AccessScope(b.dst, b.dstAccess),
                   transition |-> b.transition]

OrderingBarrier == [exec : SUBSET Stages, access : SUBSET Usages]

NonAttachment == [exec |-> {}, access |-> {}]

(***************************************************************************)
(* The state.  reads is last_reads and last_read_stages: the domain is the *)
(* set of stages with a read since the last write.  The pending_ fields    *)
(* are empty between two commands and are not kept.                        *)
(***************************************************************************)
ReadState == [barriers : SUBSET Stages, sync_stages : SUBSET Stages, tag : Nat]

IsResourceAccessState(A) ==
    /\ A.last_write \in Usages \cup {Transition, NoUsage}
    /\ A.write_tag \in Nat
    /\ A.write_barriers \subseteq Usages
    /\ A.write_chain \subseteq Stages
    /\ DOMAIN A.reads \subseteq Stages
    /\ \A s \in DOMAIN A.reads : A.reads[s] \in ReadState
    /\ A.read_exec \subseteq Stages
    /\ A.firsts \in Seq([tag : Nat, usage : Usages \cup {Transition}])
    /\ A.first_reads \subseteq Stages
    /\ A.first_transition \in OrderingBarrier

NoReads == [s \in {} |-> [barriers |-> {}, sync_stages |-> {}, tag |-> 0]]

Untouched == [last_write |-> NoUsage, write_tag |-> 0,
              write_barriers |-> Usages, write_chain |-> {},
              reads |-> NoReads, read_exec |-> {},
              firsts |-> <<>>, first_reads |-> {}, first_transition |-> NonAttachment]

HasWrite(A) == A.last_write # NoUsage

HasReads(A) == DOMAIN A.reads # {}

(***************************************************************************)
(* Hazard detection.                                                       *)
(***************************************************************************)
WriteInChain(A, exec) == A.write_chain \cap exec # {}

WriteInScope(A, access) == A.last_write \in access

WriteInSourceScopeOrChain(A, b) == WriteInChain(A, b.srcExec) \/ WriteInScope(A, b.srcAccess)

ReadInScopeOnly(A, s, exec) == s \in exec

ReadInScopeOrChain(A, s, exec) == exec \cap ({s} \cup A.reads[s].barriers) # {}

IsRAWHazard(A, u) == HasWrite(A) /\ u.stage \notin A.read_exec /\ u \notin A.write_barriers

\* Transitions of one queue are ordered among themselves.
IsWriteBarrierHazard(A, exec, access) ==
    /\ A.last_write # Transition
    /\ ~WriteInScope(A, access)
    /\ ~(WriteInChain(A, exec) /\ A.write_barriers \cap access # {})

DetectBarrierHazard(A, exec, access) ==
    IF HasReads(A) THEN \E s \in DOMAIN A.reads : ~ReadInScopeOrChain(A, s, exec)
                   ELSE HasWrite(A) /\ IsWriteBarrierHazard(A, exec, access)

\* A write, where order holds what is known to come before it.
DetectWriteHazard(A, u, order) ==
    LET ordered == IF u \in order.access THEN DOMAIN A.reads \cap order.exec ELSE {}
    IN  IF HasReads(A)
        THEN \E s \in DOMAIN A.reads \ ordered : u.stage \notin A.reads[s].barriers
        ELSE /\ HasWrite(A)
             /\ ~({A.last_write, u} \subseteq order.access)
             /\ u \notin A.write_barriers

DetectHazard(A, u, order) ==
    CASE IsRead(u) -> IsRAWHazard(A, u)
      [] u = Transition -> DetectBarrierHazard(A, order.exec, order.access)
      [] OTHER -> DetectWriteHazard(A, u, order)

(***************************************************************************)
(* Updates.                                                                *)
(***************************************************************************)
UpdateFirst(A, tag, u) ==
    LET stage == IF IsRead(u) THEN {u.stage} ELSE {}
    IN  IF \/ A.firsts # <<>> /\ ~IsRead(Last(A.firsts).usage)
           \/ stage \cap A.first_reads # {}
        THEN A
        ELSE [A EXCEPT !.first_reads = @ \cup stage,
                       !.firsts = IF stage \cap A.read_exec = {}
                                  THEN Append(@, [tag |-> tag, usage |-> u]) ELSE @]

SetWriteChained(A, u, tag) ==
    [A EXCEPT !.last_write = u, !.write_tag = tag, !.write_barriers = {}, !.reads = NoReads,
              !.write_chain = {u.stage}, !.read_exec = {}]

SetWrite(A, u, tag) ==
    [A EXCEPT !.last_write = u, !.write_tag = tag, !.write_barriers = {}, !.write_chain = {},
              !.reads = NoReads, !.read_exec = {}]

\* A later read of the stage replaces the one that is known, and settles
\* which reads of other stages are known to come before it.
SetReadKeep(A, stage, tag) ==
    [A EXCEPT !.reads = [s \in DOMAIN A.reads \cup {stage} |->
         IF s \in DOMAIN A.reads THEN A.reads[s]
                                 ELSE [barriers |-> {}, sync_stages |-> {}, tag |-> tag]]]

SetRead(A, stage, tag) ==
    LET known == stage \in DOMAIN A.reads
        Settled(r) == CASE stage \in r.barriers -> [r EXCEPT !.sync_stages = @ \cup {stage}]
                        [] known /\ stage \notin r.barriers -> [r EXCEPT !.sync_stages = @ \ {stage}]
                        [] OTHER -> r
    IN  [A EXCEPT !.reads = [s \in DOMAIN A.reads \cup {stage} |->
             IF s = stage THEN [barriers |-> {}, sync_stages |-> {}, tag |-> tag]
                          ELSE Settled(A.reads[s])]]

Update(A, u, tag) ==
    UpdateFirst(IF IsRead(u) THEN SetRead(A, u.stage, tag) ELSE SetWrite(A, u, tag), tag, u)

(***************************************************************************)
(* The barriers B of one command are independent of each other: each is    *)
(* applied to the state before the command (ApplyBarrier), then all of     *)
(* them take effect (ApplyPendingBarriers).                                *)
(***************************************************************************)
PendingWrite(A, B) == {b \in B : b.transition \/ WriteInSourceScopeOrChain(A, b)}

PendingRead(A, B, s) ==
    {b \in B : \E t \in DOMAIN A.reads :
        t \in {s} \cup A.reads[s].sync_stages /\ ReadInScopeOrChain(A, t, b.srcExec)}

BarrierReads(A, B) ==
    [s \in DOMAIN A.reads |->
        [A.reads[s] EXCEPT !.barriers = @ \cup UNION {b.dstExec : b \in PendingRead(A, B, s)}]]

BarrierTransition(A, B, tag) ==
    LET trans == {b \in B : b.transition}
        first == UpdateFirst(SetWrite(A, Transition, tag), tag, Transition)
    IN  IF Last(first.firsts).tag = tag
        THEN [first EXCEPT !.first_transition =
                 [exec |-> UNION {b.srcExec : b \in trans},
                  access |-> UNION {b.srcAccess : b \in trans}]]
        ELSE first

ApplyBarriers(A, B, tag) ==
    LET pending == PendingWrite(A, B)
        reads   == BarrierReads(A, B)
        A1 == IF \E b \in B : b.transition
              THEN BarrierTransition(A, B, tag)
              ELSE [A EXCEPT !.reads = reads,
                             !.read_exec = @ \cup UNION {reads[s].barriers : s \in DOMAIN reads}]
    IN  [A1 EXCEPT !.write_chain = @ \cup UNION {b.dstExec : b \in pending},
                   !.write_barriers = @ \cup UNION {b.dstAccess : b \in pending}]

(***************************************************************************)
(* Merging the state of one context into that of another.                  *)
(***************************************************************************)
OffsetTagNoFirsts(A, offset) ==
    [A EXCEPT !.write_tag = IF HasWrite(A) THEN @ + offset ELSE @,
              !.reads = [s \in DOMAIN @ |-> [@[s] EXCEPT !.tag = @ + offset]]]

OffsetTag(A, offset) ==
    [A EXCEPT !.write_tag = IF HasWrite(A) THEN @ + offset ELSE @,
              !.reads = [s \in DOMAIN @ |-> [@[s] EXCEPT !.tag = @ + offset]],
              !.firsts = [i \in DOMAIN @ |-> [@[i] EXCEPT !.tag = @ + offset]]]

MergeRead(mine, other) ==
    CASE mine.tag < other.tag -> other
      [] mine.tag = other.tag ->
            [mine EXCEPT !.barriers = @ \cup other.barriers,
                         !.sync_stages = @ \cup other.sync_stages]
      [] OTHER -> mine

MergeReads(mine, others) ==
    [s \in DOMAIN mine \cup DOMAIN others |->
        CASE s \notin DOMAIN others -> mine[s]
          [] s \notin DOMAIN mine -> others[s]
          [] OTHER -> MergeRead(mine[s], others[s])]

\* a and b in the order of their tags, b first where the tags are the same.
Shuffle(a, b) ==
    LET Before(i) == SelectSeq(a, LAMBDA x : /\ x.tag < b[i].tag
                                             /\ i = 1 \/ x.tag >= b[i - 1].tag)
    IN  FlattenSeq([i \in DOMAIN b |-> Append(Before(i), b[i])])
            \o SelectSeq(a, LAMBDA x : x.tag >= Last(b).tag)

MergeFirsts(A, other) ==
    IF A.firsts = other.firsts \/ other.firsts = <<>> THEN A
    ELSE FoldLeft(LAMBDA acc, f : UpdateFirst(acc, f.tag, f.usage),
                  [A EXCEPT !.firsts = <<>>, !.first_reads = {}],
                  Shuffle(A.firsts, other.firsts))

Resolve(A, other) ==
    MergeFirsts(CASE A.write_tag < other.write_tag -> other
                  [] A.write_tag = other.write_tag ->
                        [A EXCEPT !.write_barriers = @ \cup other.write_barriers,
                                  !.reads = MergeReads(@, other.reads),
                                  !.read_exec = @ \cup other.read_exec]
                  [] OTHER -> A,
                other)

\* ResolveAccessRange(): a range that a context has never seen has no entry.
ResolveFrom(A, other) ==
    CASE other = Untouched -> A
      [] A = Untouched -> other
      [] OTHER -> Resolve(A, other)

(***************************************************************************)
(* The first accesses of a recorded command buffer, replayed against the   *)
(* state A of the context that executes it: those with a tag in            *)
(* begin .. end - 1.  The loop over all but a last write increments count  *)
(* where it should increment i, so it looks at the first entry only, until *)
(* the 8-bit count wraps; what the last write finds replaces its result.   *)
(***************************************************************************)
FirstAccessInTagRange(R, begin, end) ==
    /\ R.firsts # <<>>
    /\ Head(R.firsts).tag < end
    /\ begin <= Last(R.firsts).tag

LastWriteOrder(R, u) ==
    LET layout == IF u = Transition THEN R.first_transition ELSE NonAttachment
    IN  IF R.first_reads = {} THEN layout
        ELSE [exec |-> layout.exec \cup R.first_reads, access |-> layout.access \cup {u}]

DetectRecordedHazard(A, R, begin, end) ==
    LET last  == Last(R.firsts)
        count == Len(R.firsts) - (IF IsRead(last.usage) THEN 0 ELSE 1)
        first == Head(R.firsts)
        past  == count > 0 /\ first.tag >= end
        found == /\ count > 0
                 /\ first.tag \in begin .. (end - 1)
                 /\ DetectHazard(A, first.usage, NonAttachment)
    IN  IF ~IsRead(last.usage) /\ ~past /\ last.tag \in begin .. (end - 1)
        THEN DetectHazard(A, last.usage, LastWriteOrder(R, last.usage))
        ELSE found

DetectFirstUseHazard(A, R, begin, end) ==
    FirstAccessInTagRange(R, begin, end) /\ DetectRecordedHazard(A, R, begin, end)
=============================================================================
