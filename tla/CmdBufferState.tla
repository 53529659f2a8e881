--------------------------- MODULE CmdBufferState ---------------------------
(***************************************************************************)
(* What a command buffer does to queries and events (CMD_BUFFER_STATE in    *)
(* layers/cmd_buffer_state.cpp, QUERY_POOL_STATE in layers/query_state.h),  *)
(* recorded as lists of updates and applied twice: when it is submitted, by *)
(* the host thread, and when it is retired, by the queue thread             *)
(* (layers/queue_state.cpp).                                                *)
(*                                                                          *)
(* One queue.  Its numbers and its thread are those of QueueState, without  *)
(* semaphores: a wait raises request_seq_, the thread retires up to it.     *)
(* Submit() and the retirement hold the lock of a primary over their calls  *)
(* for its secondaries; what asks for a lock that the same thread holds is  *)
(* named in NeedsOwnLock, and the step is then blocked for ever.            *)
(*                                                                          *)
(* issued, executed, vk_query and plan are external: the accepted batches   *)
(* that are not retired, with their commands, how many of them the device   *)
(* has finished, its queries, and how they will be when it has finished all.*)
(* The application is a valid one: a query is begun or written only after a *)
(* reset, and pending command buffers are not recorded again.  Recording    *)
(* touches nothing but its command buffer, so one at a time is enough.      *)
(* Performance query passes are left out (perf_submit_pass is 0).           *)
(***************************************************************************)
EXTENDS Naturals, Sequences, FiniteSets, SequencesExt

CONSTANTS Host,       \* application threads
          Primary,    \* command buffers
          Secondary,
          Query,      \* queries of live pools
          Event,
          Applications, \* which threads call, and which queries and events they use
          Batches,    \* the command buffers one batch may have, in order
          Habits,     \* what this application does: a subset of AllHabits
          MaxCmds,    \* bound: commands in a recording
          MaxSeq      \* bound: batches submitted

CB == Primary \cup Secondary

\* "late": a primary changes a query after executing a secondary that did; "batch":
\* command buffers of one batch change the same query; "overlap": a thread submits a
\* change of a query while another waits for a batch that changes it; "shared": a
\* secondary is pending twice.
AllHabits == {"late", "batch", "overlap", "shared"}

ASSUME CmdBufferStateAssumption ==
    /\ Primary \cap Secondary = {}
    /\ Query \cap CB = {}
    /\ Batches \subseteq Seq(Primary) \ {<< >>}
    /\ Applications \subseteq [threads : SUBSET Host, queries : SUBSET Query, events : SUBSET Event]
    /\ Habits \subseteq AllHabits
    /\ MaxCmds \in Nat /\ MaxSeq \in Nat

QueryState  == {"QUERYSTATE_UNKNOWN", "QUERYSTATE_RESET", "QUERYSTATE_RUNNING", "QUERYSTATE_ENDED", "QUERYSTATE_AVAILABLE"}
Recordable  == {"QUERYSTATE_RESET", "QUERYSTATE_RUNNING", "QUERYSTATE_ENDED"}

\* An entry of queryUpdates sets a query, or runs the updates of a secondary.
QueryUpdate == [query : Query, value : Recordable]
Update      == QueryUpdate \cup [sub : Secondary]
EventUpdate == [event : Event, stageMask : BOOLEAN]

VARIABLES
    state,              \* CMD_BUFFER_STATE::state, without the invalid ones
    queryUpdates,       \* CMD_BUFFER_STATE
    updatedQueries,
    activeQueries,
    linked,             \* linkedCommandBuffers
    eventUpdates,
    waitedEvents,
    writeEvents,        \* writeEventsBeforeWait
    query_state,        \* QUERY_POOL_STATE::query_states_
    stageMask,          \* EVENT_STATE
    write_in_use,
    seq_,               \* QUEUE_STATE, as in QueueState
    request_seq_,
    submissions_,
    tcur,               \* the batch the queue thread retires, << >> if none
    tsubs,              \* secondaries of its first command buffer still to be retired
    done_,
    hpc,                \* where a host thread is
    batch,              \* what is left of the batch it submits
    until,              \* the number it waits for
    issued,
    executed,
    vk_query,
    plan,
    app                 \* external: the application

cbVars     == <<state, queryUpdates, updatedQueries, activeQueries, linked, eventUpdates, waitedEvents, writeEvents>>
trackVars  == <<query_state, stageMask, write_in_use>>
queueVars  == <<seq_, request_seq_, submissions_>>
threadVars == <<tcur, tsubs, done_>>
hostVars   == <<hpc, batch, until>>
deviceVars == <<issued, executed, vk_query, plan, app>>
vars == <<cbVars, trackVars, queueVars, threadVars, hostVars, deviceVars>>

Submission == [cbs : Seq(Primary), seq : Nat]

\* The type invariant.
TypeOK ==
    /\ state          \in [CB -> {"CB_NEW", "CB_RECORDING", "CB_RECORDED"}]
    /\ queryUpdates   \in [CB -> Seq(Update)]
    /\ updatedQueries \in [CB -> SUBSET Query]
    /\ activeQueries  \in [CB -> SUBSET Query]
    /\ linked         \in [CB -> SUBSET Secondary]
    /\ eventUpdates   \in [CB -> Seq(EventUpdate)]
    /\ waitedEvents   \in [CB -> SUBSET Event]
    /\ writeEvents    \in [CB -> Seq(Event)]
    /\ query_state    \in [Query -> QueryState]
    /\ stageMask      \in [Event -> BOOLEAN]
    /\ write_in_use   \in [Event -> Nat]
    /\ seq_ \in Nat /\ request_seq_ \in Nat /\ done_ \in Nat /\ executed \in Nat
    /\ submissions_   \in Seq(Submission)
    /\ tcur           \in Seq(Primary)
    /\ tsubs          \subseteq Secondary
    /\ hpc            \in [Host -> {"idle", "cbs", "push", "wait"}]
    /\ batch          \in [Host -> Seq(Primary)]
    /\ until          \in [Host -> Nat]
    /\ issued         \in Seq([cbs : Seq(Primary), cmds : Seq(QueryUpdate)])
    /\ vk_query       \in [Query -> QueryState]
    /\ plan           \in [Query -> QueryState]
    /\ app            \in Applications

Init ==
    /\ state          = [c \in CB |-> "CB_NEW"]
    /\ queryUpdates   = [c \in CB |-> << >>]
    /\ updatedQueries = [c \in CB |-> {}]
    /\ activeQueries  = [c \in CB |-> {}]
    /\ linked         = [c \in CB |-> {}]
    /\ eventUpdates   = [c \in CB |-> << >>]
    /\ waitedEvents   = [c \in CB |-> {}]
    /\ writeEvents    = [c \in CB |-> << >>]
    /\ query_state    = [q \in Query |-> "QUERYSTATE_UNKNOWN"]
    /\ stageMask      = [e \in Event |-> FALSE]
    /\ write_in_use   = [e \in Event |-> 0]
    /\ seq_ = 0 /\ request_seq_ = 0 /\ done_ = 0 /\ executed = 0
    /\ submissions_ = << >> /\ tcur = << >> /\ tsubs = {}
    /\ hpc   = [h \in Host |-> "idle"]
    /\ batch = [h \in Host |-> << >>]
    /\ until = [h \in Host |-> 0]
    /\ issued = << >>
    /\ vk_query = [q \in Query |-> "QUERYSTATE_UNKNOWN"]
    /\ plan     = [q \in Query |-> "QUERYSTATE_UNKNOWN"]
    /\ app \in Applications

-----------------------------------------------------------------------------
(* Lists of updates *)

\* The query updates of c in order, those of its secondaries where they are executed.
Flat(c) ==
    FlattenSeq([i \in DOMAIN queryUpdates[c] |->
        LET u == queryUpdates[c][i] IN IF "sub" \in DOMAIN u THEN queryUpdates[u.sub] ELSE <<u>>])

\* localQueryToStateMap: the last value the updates give to each query they name.
Named(us)     == {us[i].query : i \in DOMAIN us}
LastOf(us, q) == us[CHOOSE i \in DOMAIN us : us[i].query = q /\ \A j \in DOMAIN us : us[j].query = q => j <= i].value
Apply(us, f)  == [q \in Query |-> IF q \in Named(us) THEN LastOf(us, q) ELSE f[q]]

\* Mutant: the secondaries are not asked.
UpdatesQueryOwn(c, q) == q \in updatedQueries[c]

\* CMD_BUFFER_STATE::UpdatesQuery()
UpdatesQuery(c, q) == q \in updatedQueries[c] \/ \E s \in linked[c] : q \in updatedQueries[s]

\* Occurrences in a list of events.
Count(es, e) == Cardinality({i \in DOMAIN es : es[i] = e})

-----------------------------------------------------------------------------
(* What the application may do *)

Idle(h)   == hpc[h] = "idle"
Within(p) == {p} \cup linked[p]

\* Command buffers of batches that the application has not seen finished.
PendingCbs == UNION {UNION {Within(p) : p \in Range(b.cbs)} : b \in Range(issued)}

\* Queries follow reset, begin, end; timestamps are written after a reset.
Follows(old, new) == CASE new = "QUERYSTATE_RESET"   -> old # "QUERYSTATE_RUNNING"
                       [] new = "QUERYSTATE_RUNNING" -> old = "QUERYSTATE_RESET"
                       [] new = "QUERYSTATE_ENDED"   -> old \in {"QUERYSTATE_RESET", "QUERYSTATE_RUNNING"}

LegalFrom(us, f) ==
    \A i \in DOMAIN us : Follows(Apply(SubSeq(us, 1, i - 1), f)[us[i].query], us[i].value)

BatchCmds(b) == FlattenSeq([i \in DOMAIN b |-> Flat(b[i])])
Submitting   == \E h \in Host : hpc[h] \in {"cbs", "push"}

\* The events whose write_in_use a batch counts.
EventsOf(b) == UNION {Range(writeEvents[c]) : c \in UNION {Within(p) : p \in Range(b)}}

\* Batches up to number n that are not retired change none of what b changes.  For
\* events this is not a habit: write_in_use is a plain int, and a submission that
\* overlaps a retirement of the same event is a data race.
Apart(n, b) ==
    \A m \in 1..(n - done_) :
        /\ "overlap" \in Habits \/ Named(issued[m].cmds) \cap Named(BatchCmds(b)) = {}
        /\ EventsOf(issued[m].cbs) \cap EventsOf(b) = {}

Careful(b) ==
    /\ "batch" \in Habits \/ \A i, j \in DOMAIN b : i # j => Named(Flat(b[i])) \cap Named(Flat(b[j])) = {}
    /\ Apart(request_seq_, b)
    /\ "shared" \in Habits \/
          \A i \in DOMAIN b : linked[b[i]] \cap (PendingCbs \cup UNION {linked[b[j]] : j \in DOMAIN b \ {i}}) = {}

-----------------------------------------------------------------------------
(* Recording *)

Commands(c)  == Len(queryUpdates[c]) + Len(eventUpdates[c]) + Cardinality(waitedEvents[c])
Recording(h, c) == Idle(h) /\ state[c] = "CB_RECORDING" /\ Commands(c) < MaxCmds

\* CMD_BUFFER_STATE::Begin(), with Reset() where there was a recording.
Begin(h, c) ==
    /\ Idle(h) /\ (\A d \in CB : state[d] # "CB_RECORDING") /\ c \notin PendingCbs
    /\ \A p \in Primary : c \notin linked[p]
    /\ state'          = [state EXCEPT ![c] = "CB_RECORDING"]
    /\ queryUpdates'   = [queryUpdates EXCEPT ![c] = << >>]
    /\ updatedQueries' = [updatedQueries EXCEPT ![c] = {}]
    /\ activeQueries'  = [activeQueries EXCEPT ![c] = {}]
    /\ linked'         = [linked EXCEPT ![c] = {}]
    /\ eventUpdates'   = [eventUpdates EXCEPT ![c] = << >>]
    /\ waitedEvents'   = [waitedEvents EXCEPT ![c] = {}]
    /\ writeEvents'    = [writeEvents EXCEPT ![c] = << >>]
    /\ UNCHANGED <<trackVars, queueVars, threadVars, hostVars, deviceVars>>

\* BeginQuery(), EndQuery() or RecordWriteTimestamp(), ResetQueryPool() of one query.
RecordQuery(h, c, q, v) ==
    /\ Recording(h, c)
    /\ q \in Named(Flat(c)) => Follows(LastOf(Flat(c), q), v)
    /\ "late" \in Habits \/ \A s \in linked[c] : q \notin updatedQueries[s]
    /\ activeQueries' = [activeQueries EXCEPT ![c] =
            IF v = "QUERYSTATE_RUNNING" THEN @ \cup {q} ELSE IF v = "QUERYSTATE_ENDED" THEN @ \ {q} ELSE @]
    /\ queryUpdates'   = [queryUpdates EXCEPT ![c] = Append(@, [query |-> q, value |-> v])]
    /\ updatedQueries' = [updatedQueries EXCEPT ![c] = @ \cup {q}]
    /\ UNCHANGED <<state, linked, eventUpdates, waitedEvents, writeEvents, trackVars, queueVars, threadVars, hostVars, deviceVars>>

\* RecordSetEvent() (set) and RecordResetEvent()
RecordEvent(h, c, e, set) ==
    /\ Recording(h, c)
    /\ writeEvents'  = IF e \in waitedEvents[c] THEN writeEvents ELSE [writeEvents EXCEPT ![c] = Append(@, e)]
    /\ eventUpdates' = [eventUpdates EXCEPT ![c] = Append(@, [event |-> e, stageMask |-> set])]
    /\ UNCHANGED <<state, queryUpdates, updatedQueries, activeQueries, linked, waitedEvents,
                   trackVars, queueVars, threadVars, hostVars, deviceVars>>

RecordWaitEvents(h, c, e) ==
    /\ Recording(h, c) /\ e \notin waitedEvents[c]
    /\ waitedEvents' = [waitedEvents EXCEPT ![c] = @ \cup {e}]
    /\ UNCHANGED <<state, queryUpdates, updatedQueries, activeQueries, linked, eventUpdates, writeEvents,
                   trackVars, queueVars, threadVars, hostVars, deviceVars>>

\* Query updates of the secondary are run through it, event updates are copied.
ExecuteCommands(h, p, s) ==
    /\ Recording(h, p) /\ state[s] = "CB_RECORDED"
    /\ activeQueries[p] = {}
    /\ linked'       = [linked EXCEPT ![p] = @ \cup {s}]
    /\ queryUpdates' = [queryUpdates EXCEPT ![p] = Append(@, [sub |-> s])]
    /\ eventUpdates' = [eventUpdates EXCEPT ![p] = @ \o eventUpdates[s]]
    /\ UNCHANGED <<state, updatedQueries, activeQueries, waitedEvents, writeEvents, trackVars, queueVars, threadVars, hostVars, deviceVars>>

\* CMD_BUFFER_STATE::End(), with no query active.
End(h, c) ==
    /\ Idle(h) /\ state[c] = "CB_RECORDING" /\ activeQueries[c] = {}
    /\ state' = [state EXCEPT ![c] = "CB_RECORDED"]
    /\ UNCHANGED <<queryUpdates, updatedQueries, activeQueries, linked, eventUpdates, waitedEvents, writeEvents,
                   trackVars, queueVars, threadVars, hostVars, deviceVars>>

\* ValidationStateTracker::RecordResetQueryPool(), of a query that is not pending.
HostResetQuery(h, q) ==
    /\ Idle(h) /\ \A c \in PendingCbs : ~UpdatesQuery(c, q)
    /\ query_state' = [query_state EXCEPT ![q] = "QUERYSTATE_RESET"]
    /\ vk_query'    = [vk_query EXCEPT ![q] = "QUERYSTATE_RESET"]
    /\ plan'        = [plan EXCEPT ![q] = "QUERYSTATE_RESET"]
    /\ UNCHANGED <<cbVars, stageMask, write_in_use, queueVars, threadVars, hostVars, issued, executed, app>>

-----------------------------------------------------------------------------
(* QUEUE_STATE::Submit() *)

\* The driver accepts a batch; the queue is externally synchronised.
QueueSubmit(h, b) ==
    /\ Idle(h) /\ ~Submitting
    /\ done_ + Len(issued) < MaxSeq
    /\ \A p \in Range(b) : state[p] = "CB_RECORDED"
    /\ LegalFrom(BatchCmds(b), plan) /\ Careful(b)
    /\ issued' = Append(issued, [cbs |-> b, cmds |-> BatchCmds(b)])
    /\ plan'   = Apply(BatchCmds(b), plan)
    /\ hpc'    = [hpc EXCEPT ![h] = "cbs"]
    /\ batch'  = [batch EXCEPT ![h] = b]
    /\ UNCHANGED <<cbVars, trackVars, queueVars, threadVars, until, executed, vk_query, app>>

\* IncrementResources() of c: what its writes add to an event.
Writes(c, e) == Count(writeEvents[c], e)

\* IncrementResources() of the secondaries and of c, then CMD_BUFFER_STATE::Submit().
SubmitCb(h) ==
    /\ hpc[h] = "cbs"
    /\ LET c == Head(batch[h])
           touched == {u.event : u \in Range(eventUpdates[c])}
           final(e) == Last(SelectSeq(eventUpdates[c], LAMBDA u : u.event = e)).stageMask
       IN  /\ write_in_use' = [e \in Event |-> write_in_use[e] + Writes(c, e)
                                  + Cardinality({x \in linked[c] \X (1..MaxCmds) :
                                        x[2] <= Len(writeEvents[x[1]]) /\ writeEvents[x[1]][x[2]] = e})]
           /\ query_state' = Apply(Flat(c), query_state)
           /\ stageMask'   = [e \in Event |-> IF e \in touched THEN final(e) ELSE stageMask[e]]
    /\ batch' = [batch EXCEPT ![h] = Tail(@)]
    /\ hpc'   = [hpc EXCEPT ![h] = IF Len(batch[h]) = 1 THEN "push" ELSE "cbs"]
    /\ UNCHANGED <<cbVars, queueVars, threadVars, until, deviceVars>>

\* ++seq_ and the end of Submit().
Push(h) ==
    /\ hpc[h] = "push"
    /\ seq_' = seq_ + 1
    /\ submissions_' = Append(submissions_, [cbs |-> Last(issued).cbs, seq |-> seq_ + 1])
    /\ hpc' = [hpc EXCEPT ![h] = "idle"]
    /\ UNCHANGED <<cbVars, trackVars, request_seq_, threadVars, batch, until, deviceVars>>

\* A successful wait for the fence of a recorded batch: Notify(), then the waiter.
Wait(h, n) ==
    /\ Idle(h)
    /\ done_ < n /\ n <= done_ + executed /\ n <= seq_
    /\ Submitting => Apart(n, Last(issued).cbs)
    /\ request_seq_' = IF request_seq_ < n THEN n ELSE request_seq_
    /\ hpc'   = [hpc EXCEPT ![h] = "wait"]
    /\ until' = [until EXCEPT ![h] = n]
    /\ UNCHANGED <<cbVars, trackVars, seq_, submissions_, threadVars, batch, deviceVars>>

WaitEnds(h) ==
    /\ hpc[h] = "wait" /\ done_ >= until[h]
    /\ hpc'   = [hpc EXCEPT ![h] = "idle"]
    /\ until' = [until EXCEPT ![h] = 0]
    /\ UNCHANGED <<cbVars, trackVars, queueVars, threadVars, batch, deviceVars>>

\* External: the device runs the next batch.
DeviceExecute ==
    /\ executed < Len(issued)
    /\ executed' = executed + 1
    /\ vk_query' = Apply(issued[executed + 1].cmds, vk_query)
    /\ UNCHANGED <<cbVars, trackVars, queueVars, threadVars, hostVars, issued, plan, app>>

-----------------------------------------------------------------------------
(* QUEUE_STATE::ThreadFunc() *)

SubsOf(b) == IF b = << >> THEN {} ELSE linked[Head(b)]

\* Mutant: the first submission is taken whether or not it was requested.
NextSubmissionEager ==
    /\ tcur = << >> /\ submissions_ # << >>
    /\ tcur'  = Head(submissions_).cbs
    /\ tsubs' = SubsOf(tcur')
    /\ submissions_' = Tail(submissions_)
    /\ UNCHANGED <<cbVars, trackVars, seq_, request_seq_, done_, hostVars, deviceVars>>

\* NextSubmission()
NextSubmission ==
    /\ tcur = << >> /\ submissions_ # << >>
    /\ Head(submissions_).seq <= request_seq_
    /\ tcur'  = Head(submissions_).cbs
    /\ tsubs' = SubsOf(tcur')
    /\ submissions_' = Tail(submissions_)
    /\ UNCHANGED <<cbVars, trackVars, seq_, request_seq_, done_, hostVars, deviceVars>>

\* The command buffers still in the deque, in order; is_query_updated_after asks them.
Later == FlattenSeq([i \in DOMAIN submissions_ |-> submissions_[i].cbs])
IsQueryUpdatedAfter(q) == \E c \in Range(Later) : UpdatesQuery(c, q)

\* Mutant: a query that was ended and then reset counts as ended.
EndedOnceBy(c) == {Flat(c)[i].query : i \in {j \in DOMAIN Flat(c) : Flat(c)[j].value = "QUERYSTATE_ENDED"}}

EndedBy(c) == {q \in Named(Flat(c)) : LastOf(Flat(c), q) = "QUERYSTATE_ENDED"}

\* While s is retired under its own lock, UpdatesQuery() of a later command buffer asks
\* for the lock of s, unless one before it has already answered.
NeedsOwnLock(s) ==
    \E q \in EndedBy(s) : \E k \in DOMAIN Later :
        /\ s \in linked[Later[k]]
        /\ \A t \in linked[Later[k]] \ {s} : q \notin updatedQueries[t]
        /\ \A j \in 1..(k - 1) : ~UpdatesQuery(Later[j], q)

\* Mutant: the events stay in use.
RetireQueries(c) ==
    /\ query_state'  = [q \in Query |->
            IF q \in EndedBy(c) /\ ~IsQueryUpdatedAfter(q) THEN "QUERYSTATE_AVAILABLE" ELSE query_state[q]]
    /\ UNCHANGED <<stageMask, write_in_use>>

\* CMD_BUFFER_STATE::Retire()
Retire(c) ==
    /\ write_in_use' = [e \in Event |-> write_in_use[e] - Writes(c, e)]
    /\ query_state'  = [q \in Query |->
            IF q \in EndedBy(c) /\ ~IsQueryUpdatedAfter(q) THEN "QUERYSTATE_AVAILABLE" ELSE query_state[q]]
    /\ UNCHANGED stageMask

RetireSecondary ==
    \E s \in tsubs :
        /\ ~NeedsOwnLock(s)
        /\ Retire(s)
        /\ tsubs' = tsubs \ {s}
        /\ UNCHANGED <<cbVars, queueVars, tcur, done_, hostVars, deviceVars>>

\* The primary itself, and the end of the batch with its last one.
RetirePrimary ==
    /\ tcur # << >> /\ tsubs = {}
    /\ Retire(Head(tcur))
    /\ tcur'  = Tail(tcur)
    /\ tsubs' = SubsOf(Tail(tcur))
    /\ IF Len(tcur) = 1
         THEN done_' = done_ + 1 /\ issued' = Tail(issued) /\ executed' = executed - 1
         ELSE UNCHANGED <<done_, issued, executed>>
    /\ UNCHANGED <<cbVars, queueVars, hostVars, vk_query, plan, app>>

-----------------------------------------------------------------------------

Call(h) ==
    \/ \E c \in CB : Begin(h, c)
    \/ \E c \in CB, q \in app.queries, v \in Recordable : RecordQuery(h, c, q, v)
    \/ \E c \in CB, e \in app.events, set \in BOOLEAN : RecordEvent(h, c, e, set)
    \/ \E c \in CB, e \in app.events : RecordWaitEvents(h, c, e)
    \/ \E p \in Primary, s \in Secondary : ExecuteCommands(h, p, s)
    \/ \E c \in CB : End(h, c)
    \/ \E q \in app.queries : HostResetQuery(h, q)
    \/ \E b \in Batches : QueueSubmit(h, b)
    \/ \E n \in 1..MaxSeq : Wait(h, n)

Step(h)    == SubmitCb(h) \/ Push(h) \/ WaitEnds(h)
ThreadFunc == NextSubmission \/ RetireSecondary \/ RetirePrimary

Next ==
    \/ \E h \in app.threads : Call(h)
    \/ \E h \in Host : Step(h)
    \/ ThreadFunc
    \/ DeviceExecute

Spec == Init /\ [][Next]_vars

-----------------------------------------------------------------------------
(* Properties *)

Shown(v)   == IF v = "QUERYSTATE_ENDED" THEN "QUERYSTATE_AVAILABLE" ELSE v

\* "Results available.": a query the layer shows as available has its results, and
\* nothing that is still pending will change it.
AvailableMeansResults ==
    ~Submitting => \A q \in Query : query_state[q] = "QUERYSTATE_AVAILABLE" =>
        /\ vk_query[q] = "QUERYSTATE_ENDED"
        /\ \A c \in Range(Later) : ~UpdatesQuery(c, q)
        /\ \A i \in DOMAIN tcur : i > 1 => ~UpdatesQuery(tcur[i], q)

\* When everything submitted is retired, the layer's queries are the device's.
QueriesSettled ==
    issued = << >> => \A q \in Query : query_state[q] = Shown(vk_query[q])

\* write_in_use counts exactly the writes of the batches not yet retired.
EventUseExact ==
    ~Submitting /\ tcur = << >> => \A e \in Event :
        write_in_use[e] = Cardinality({x \in (DOMAIN Later) \X CB \X (1..MaxCmds) :
            /\ x[2] \in Within(Later[x[1]])
            /\ x[3] <= Len(writeEvents[x[2]])
            /\ writeEvents[x[2]][x[3]] = e})

\* "primary command buffers are locked when these callbacks run, but secondary command
\* buffers are not": the queue thread never asks for a command buffer lock it holds.
NoOwnLock == \A s \in tsubs : ~NeedsOwnLock(s)
=============================================================================
