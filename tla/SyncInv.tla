------------------------------ MODULE SyncInv ------------------------------
(***************************************************************************)
(* The inductive invariant of SyncValidation: how the summary that the     *)
(* layer keeps of a range stands for the whole history of its accesses.    *)
(***************************************************************************)
EXTENDS SyncValidation

\* A barrier command with a layout transition of the range has no other barrier for it.
\* ApplyPendingBarriers() gives the transition the scopes of all the barriers.
TransitionsAlone == \A B \in BarrierSets : \A b \in B : b.transition => B = {b}

Access == [usage : Usages \cup {Transition}, after : SUBSET Stages, visible : SUBSET Usages, before : SUBSET Nat]

\* The records that the layer's state of a range can be.
State == [last_write : Usages \cup {Transition, NoUsage}, write_tag : Nat,
          write_barriers : SUBSET Usages, write_chain : SUBSET Stages,
          reads : UNION {[S -> ReadState] : S \in SUBSET Stages}, read_exec : SUBSET Stages,
          firsts : Seq([tag : Nat, usage : Usages \cup {Transition}]), first_reads : SUBSET Stages,
          first_transition : OrderingBarrier]

\* The last write and the reads since, or all the reads before the first write.
Recent(h) == {i \in DOMAIN h : \A k \in DOMAIN h : i < k => IsRead(h[k].usage)}
RecentWrites(h) == {i \in Recent(h) : ~IsRead(h[i].usage)}
RecentReads(h, s) == {i \in Recent(h) : IsRead(h[i].usage) /\ h[i].usage.stage = s}

\* Stage x comes after access i: by barriers that follow it, or that follow a read after it.
Leads(h, i, x) == x \in h[i].after \/ \E k \in h[i].before : IsRead(h[k].usage) /\ x \in h[k].after

\* A history is a sequence of accesses, and happens-before is a transitive order on them.
IsHistory(h) ==
    /\ h \in Seq(Access)
    /\ \A i \in DOMAIN h : \A j \in h[i].before : j \in DOMAIN h /\ i < j
    /\ \A i \in DOMAIN h : \A j \in h[i].before : \A k \in h[j].before : k \in h[i].before

\* No two conflicting accesses are left unordered.
Clean(h) == \A i, j \in DOMAIN h : i < j /\ Conflict(h[i].usage, h[j].usage) => j \in h[i].before

\* The write of A is the last of h, with all its barriers.
WriteStands(A, h) ==
    /\ \A w \in RecentWrites(h) :
          A.last_write = h[w].usage /\ A.write_barriers = h[w].visible /\ A.write_chain = h[w].after
    /\ HasWrite(A) => RecentWrites(h) # {}
    /\ ~HasWrite(A) => \A i \in DOMAIN h : IsRead(h[i].usage)

\* The read of a stage stands for all reads of that stage since the write: what its
\* barriers and sync_stages say is true of each.
ReadsStand(A, h) ==
    /\ \A s \in Stages : s \in DOMAIN A.reads <=> RecentReads(h, s) # {}
    /\ \A s \in DOMAIN A.reads : \A i \in RecentReads(h, s) : \A x \in A.reads[s].barriers : Leads(h, i, x)
    /\ \A s \in DOMAIN A.reads : \A i \in RecentReads(h, s) : \A t \in A.reads[s].sync_stages :
          \E k \in h[i].before : k \in RecentReads(h, t)
    /\ \A x \in A.read_exec : \E i \in Recent(h) : IsRead(h[i].usage) /\ x \in h[i].after

\* And if no stage has read twice, nothing is missing from them.
ReadsComplete(A, h) ==
    ReadOnce(h) => \A s \in DOMAIN A.reads : \A i \in RecentReads(h, s) :
        /\ h[i].after \subseteq A.reads[s].barriers /\ h[i].after \subseteq A.read_exec
        /\ \A t \in DOMAIN A.reads : \A k \in RecentReads(h, t) : k \in h[i].before =>
              /\ t \in A.reads[s].sync_stages /\ t \in A.reads[s].barriers
              /\ h[k].after \subseteq A.reads[s].barriers

StandsFor(A, h) == IsHistory(h) /\ WriteStands(A, h) /\ ReadsStand(A, h) /\ ReadsComplete(A, h)

\* The values of the variables, except for what vkCmdExecuteCommands has mixed.
Typed ==
    /\ DOMAIN access = CmdBuf /\ log_size = [c \in CmdBuf |-> log_size[c]] /\ DOMAIN history = CmdBuf /\ DOMAIN executed = CmdBuf
    /\ ended \subseteq CmdBuf /\ reported \subseteq CmdBuf
    /\ \A c \in CmdBuf : ~executed[c].done => access[c] \in State /\ log_size[c] \in Nat

\* What a command buffer that executed no other has recorded.
Summary ==
    \A c \in CmdBuf : ~executed[c].done =>
        /\ history[c] \in Seq(Access)
        /\ c \notin reported => StandsFor(access[c], history[c]) /\ Clean(history[c])
        /\ c \in reported /\ ReadOnce(history[c]) => ~Clean(history[c])

\* The first accesses of a context: reads of different stages, and at most one write, the
\* last; their tags and those of the summary are in order and below the next tag.
FirstsIn(A, size) ==
    /\ \A i \in DOMAIN A.firsts : A.firsts[i].tag < size
    /\ \A i \in DOMAIN A.firsts : IsRead(A.firsts[i].usage) => A.firsts[i].usage.stage \in A.first_reads

Tags ==
    \A c \in CmdBuf : ~executed[c].done => TagsIn(access[c], log_size[c]) /\ FirstsIn(access[c], log_size[c])
=============================================================================
