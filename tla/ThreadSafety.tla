---------------------------- MODULE ThreadSafety ----------------------------
(***************************************************************************)
(* Thread safety validation (layers/generated/thread_safety.{h,cpp}): one   *)
(* ObjectUseData per handle counts the threads that write and read it, and  *)
(* the Start... functions of PreCallRecord report a collision with another  *)
(* thread.  If the message callback answers TRUE the call waits for its     *)
(* turn instead of being skipped.                                           *)
(*                                                                          *)
(* A call is the list of steps its PreCallRecord function makes, the        *)
(* driver, and the list of steps its PostCallRecord function makes.  One    *)
(* action is one atomic access: the object table, the packed counter, the   *)
(* thread id, or a map under thread_safety_lock.                            *)
(*                                                                          *)
(* The application is any application: two threads may collide.  Handles    *)
(* of pools are wrapped and never reused; command buffers are dispatchable, *)
(* and the driver may hand out a freed one at once.                         *)
(***************************************************************************)
EXTENDS Integers, Sequences, FiniteSets, TLC

CONSTANTS Thread, NoThread,
          AnyThread,       \* the id an unused ObjectUseData has from its last use, if any
          Device,          \* the VkDevice
          Queue, CommandPool, CommandBuffer, DescriptorPool, DescriptorSet,
          Secondary,       \* the command buffers that are of the secondary level
          NoObject,        \* VK_NULL_HANDLE
          Half,            \* 2^32: what one writer adds to writer_reader_count
          Families,        \* sets of entry points: an application uses one of them
          Habits,          \* what it refrains from
          SkipOn,          \* objects for which the message callback may answer TRUE
          MaxGen           \* bound: how many ObjectUseData of one handle exist at once

Pool == CommandPool \cup DescriptorPool
Contents(p) == <<p>>       \* the entry of c_VkCommandPoolContents
Object == {Device} \cup Queue \cup Pool \cup {Contents(p) : p \in CommandPool} \cup CommandBuffer \cup DescriptorSet
UseData == Object \X (1..MaxGen)

ASSUME ThreadSafetyAssumption ==
    /\ NoThread \notin Thread /\ AnyThread \notin Thread /\ NoObject \notin Object
    /\ Half \in Nat /\ Half > 2 * Cardinality(Thread) * (Cardinality(Object) + 1)
    /\ MaxGen \in Nat \ {0}

VARIABLES
    table,        \* object_table: the number of the handle's ObjectUseData, or 0
    count,        \* ObjectUseData::writer_reader_count
    thread,       \* ObjectUseData::thread
    command_pool_map,
    pool_objects, \* pool_command_buffers_map and pool_descriptor_sets_map
    device_queues_map,
    ds_read_only_map,
    lock,         \* thread_safety_lock: who holds it for reading and for writing
    call,         \* the call a thread is in
    phase,        \* before or after the driver
    todo,         \* the steps left of PreCallRecord or PostCallRecord
    pc,           \* where the thread is in the first of them
    use,          \* the ObjectUseData it has looked up there
    family,       \* external: the entry points this application uses
    live,         \* external: queues and pools that exist
    owner,        \* external: the pool a command buffer or set is allocated from
    conflicted,   \* history: two calls overlapped that had to be synchronised
    alarms,       \* history: for each running call, whether a report was made during it
    before        \* history: the calls that were in the driver when this one started

mapVars   == <<command_pool_map, pool_objects, device_queues_map, ds_read_only_map>>
useVars   == <<table, count, thread>>
hostVars  == <<call, phase, todo, pc, use>>
appVars   == <<family, live, owner>>
histVars  == <<conflicted, alarms, before>>
vars == <<useVars, mapVars, lock, hostVars, appVars, histVars>>

-----------------------------------------------------------------------------
(* ObjectUseData *)

\* (int32_t)(count & 0xFFFFFFFF) and (int32_t)(count >> 32)
GetReadCount(c)  == LET low == c % Half IN IF low < Half \div 2 THEN low ELSE low - Half
GetWriteCount(c) == c \div Half

AddWriter == Half
AddReader == 1

\* Mutant: a reader waits for itself.
ReadersGoneAll(c, is_writer) == GetReadCount(c) <= 0

\* WaitForObjectIdle(is_writer) reads the counter twice: once for each half.
ReadersGone(c, is_writer) == GetReadCount(c)  <= (IF is_writer THEN 0 ELSE 1)
WritersGone(c, is_writer) == GetWriteCount(c) <= (IF is_writer THEN 1 ELSE 0)

-----------------------------------------------------------------------------
(* The steps of the Record functions *)

Step(op, o) == [op |-> op, obj |-> o, pool |-> NoObject]
PoolStep(op, o, p) == [op |-> op, obj |-> o, pool |-> p]
StartWrite(o)  == Step("StartWrite", o)
StartRead(o)   == Step("StartRead", o)
FinishWrite(o) == Step("FinishWrite", o)
FinishRead(o)  == Step("FinishRead", o)
CreateObject(o)  == Step("CreateObject", o)
DestroyObject(o) == Step("DestroyObject", o)
LockRead  == Step("LockRead", NoObject)
LockWrite == Step("LockWrite", NoObject)
Unlock    == Step("Unlock", NoObject)

\* Some order of a set: the iteration order of an unordered set.
Listed(S) == CHOOSE s \in [1..Cardinality(S) -> S] : \A x \in S : \E i \in DOMAIN s : s[i] = x
Each(op(_), s) == [i \in DOMAIN s |-> op(s[i])]
Twice(op1(_), op2(_), s) == [i \in 1..(2 * Len(s)) |-> IF i % 2 = 1 THEN op1(s[(i + 1) \div 2]) ELSE op2(s[i \div 2])]

\* command_pool_map.find(object), at the moment it is called.
WithPool(c, op)     == IF command_pool_map[c] = NoObject THEN << >> ELSE <<Step(op, command_pool_map[c])>>
WithContents(c, op) == IF command_pool_map[c] = NoObject THEN << >> ELSE <<Step(op, Contents(command_pool_map[c]))>>

\* Mutant: the reader of a command buffer does not read the contents of its pool.
StartReadCbOnly(c) == <<StartRead(c)>>

\* StartWriteObject(VkCommandBuffer) and its siblings: a writer uses the pool as well, a
\* reader the pool's contents only.
StartWriteCb(c)  == WithPool(c, "StartWrite") \o <<StartWrite(c)>>
FinishWriteCb(c) == <<FinishWrite(c), Step("FinishPool", c)>>
StartReadCb(c)   == WithContents(c, "StartRead") \o <<StartRead(c)>>
FinishReadCb(c)  == <<FinishRead(c), Step("FinishContents", c)>>

\* Mutant: every update of a set counts as a write.
DsStartWrite(d) == <<StartWrite(d)>>

\* The update of a set that DsReadOnly() finds in the map counts as a read of it.
DsStart(d)  == IF ds_read_only_map[d] = "yes" THEN <<StartRead(d)>> ELSE <<StartWrite(d)>>
DsFinish(d) == IF ds_read_only_map[d] = "yes" THEN <<FinishRead(d)>> ELSE <<FinishWrite(d)>>

\* What a step that looks something up turns into when it is reached.
DropSet(d) == Step("DropSet", d)
Expansion(step) ==
    LET o == step.obj
    IN  CASE step.op = "StartWriteCb"   -> StartWriteCb(o)
          [] step.op = "FinishWriteCb"  -> FinishWriteCb(o)
          [] step.op = "StartReadCb"    -> StartReadCb(o)
          [] step.op = "FinishReadCb"   -> FinishReadCb(o)
          [] step.op = "FinishPool"     -> WithPool(o, "FinishWrite")
          [] step.op = "FinishContents" -> WithContents(o, "FinishRead")
          [] step.op = "DsStart"        -> DsStart(o)
          [] step.op = "DsFinish"       -> DsFinish(o)
          [] step.op = "StartSets"      -> Each(StartWrite, Listed(pool_objects[o]))
          [] step.op = "FinishSets"     -> Twice(FinishWrite, DropSet, Listed(pool_objects[o]))
          [] step.op = "StartQueues"    -> Each(StartWrite, Listed(device_queues_map))
          [] step.op = "FinishQueues"   -> Each(FinishWrite, Listed(device_queues_map))
Lookups == {"StartWriteCb", "FinishWriteCb", "StartReadCb", "FinishReadCb", "FinishPool", "FinishContents",
            "DsStart", "DsFinish", "StartSets", "FinishSets", "StartQueues", "FinishQueues"}

-----------------------------------------------------------------------------
(* The calls.  A call names its api, a pool or queue, and the command        *)
(* buffers or sets it is about; made and ok are what the driver answers.     *)

NoCall == [api |-> "none", on |-> NoObject, objs |-> << >>, made |-> NoObject, ok |-> TRUE, uab |-> FALSE]

\* Any command recorded into a command buffer, and vkCmdExecuteCommands of secondaries.
PreCmd(c)  == <<Step("StartWriteCb", c.on)>> \o [i \in DOMAIN c.objs |-> Step("StartReadCb", c.objs[i])]
PostCmd(c) == <<Step("FinishWriteCb", c.on)>> \o [i \in DOMAIN c.objs |-> Step("FinishReadCb", c.objs[i])]

PreCreateCommandPool(c)  == <<StartRead(Device)>>
PostCreateCommandPool(c) ==
    <<FinishRead(Device)>> \o (IF c.ok THEN <<CreateObject(c.on), CreateObject(Contents(c.on))>> ELSE << >>)

PreAllocateCommandBuffers(c)  == <<StartRead(Device), StartWrite(c.on)>>
\* The result is not looked at: after a failure null handles are entered, which nothing
\* looks up.
PostAllocateCommandBuffers(c) ==
    <<FinishRead(Device), FinishWrite(c.on), LockWrite>>
    \o (IF c.ok THEN <<PoolStep("InsertCb", c.made, c.on)>> ELSE << >>) \o <<Unlock>>

\* Mutant: the lock is kept.
PreFreeCommandBuffersLocked(c)  ==
    <<StartRead(Device), StartWrite(c.on), LockWrite, StartWrite(c.objs[1]), FinishWrite(c.objs[1]),
      PoolStep("EraseCb", c.objs[1], c.on)>>

PreFreeCommandBuffers(c)  ==
    <<StartRead(Device), StartWrite(c.on), LockWrite, StartWrite(c.objs[1]), FinishWrite(c.objs[1]),
      PoolStep("EraseCb", c.objs[1], c.on), Unlock>>
PostFreeCommandBuffers(c) == <<FinishRead(Device), FinishWrite(c.on)>>

PreResetCommandPool(c)  == <<StartRead(Device), StartWrite(c.on), StartWrite(Contents(c.on))>>
PostResetCommandPool(c) == <<FinishRead(Device), FinishWrite(c.on), FinishWrite(Contents(c.on))>>

PreDestroyCommandPool(c)  ==
    <<StartRead(Device), StartWrite(c.on), StartWrite(Contents(c.on)), LockWrite, Step("ForgetCbs", c.on), Unlock>>
PostDestroyCommandPool(c) ==
    <<FinishRead(Device), FinishWrite(c.on), DestroyObject(c.on), FinishWrite(Contents(c.on)), DestroyObject(Contents(c.on))>>

PreAllocateDescriptorSets(c)  == <<StartRead(Device), StartWrite(c.on)>>
PostAllocateDescriptorSets(c) ==
    <<FinishRead(Device), FinishWrite(c.on)>>
    \o (IF c.ok THEN <<LockWrite, PoolStep("InsertSet", c.made, c.on), Unlock>> ELSE << >>)

PreFreeDescriptorSets(c)  == <<StartRead(Device), StartWrite(c.on)>> \o Each(StartWrite, c.objs)
PostFreeDescriptorSets(c) ==
    <<FinishRead(Device), FinishWrite(c.on)>> \o Each(FinishWrite, c.objs)
    \o <<LockWrite, PoolStep("EraseSet", c.objs[1], c.on), Unlock>>

\* vkResetDescriptorPool; vkDestroyDescriptorPool adds the end of the pool itself.
PreResetDescriptorPool(c)  == <<StartRead(Device), StartWrite(c.on), LockRead, Step("StartSets", c.on), Unlock>>
PostResetDescriptorPool(c) ==
    <<FinishRead(Device), FinishWrite(c.on), LockWrite, Step("FinishSets", c.on), Step("ClearSets", c.on), Unlock>>
PreDestroyDescriptorPool(c)  == PreResetDescriptorPool(c)
PostDestroyDescriptorPool(c) ==
    <<FinishRead(Device), FinishWrite(c.on), DestroyObject(c.on), LockWrite, Step("FinishSets", c.on),
      Step("ClearSets", c.on), Unlock>>

\* vkUpdateDescriptorSets: a write to one set, or a copy from another set.
PreUpdateDescriptorSets(c)  == <<StartRead(Device), Step("DsStart", c.on)>> \o Each(StartRead, c.objs)
PostUpdateDescriptorSets(c) == <<FinishRead(Device), Step("DsFinish", c.on)>> \o Each(FinishRead, c.objs)

PreQueueSubmit(c)  == <<StartWrite(c.on)>>
PostQueueSubmit(c) == <<FinishWrite(c.on)>>

PreGetDeviceQueue(c)  == <<StartRead(Device)>>
PostGetDeviceQueue(c) == <<FinishRead(Device), CreateObject(c.on), LockWrite, Step("InsertQueue", c.on), Unlock>>

\* Mutant: the queues stay in use.
PostDeviceWaitIdleKeeps(c) == <<FinishRead(Device)>>

PreDeviceWaitIdle(c)  == <<StartRead(Device), LockRead, Step("StartQueues", NoObject), Unlock>>
PostDeviceWaitIdle(c) == <<FinishRead(Device), LockRead, Step("FinishQueues", NoObject), Unlock>>

Pre(c) ==
    CASE c.api = "vkCmd"                    -> PreCmd(c)
      [] c.api = "vkCreateCommandPool"      -> PreCreateCommandPool(c)
      [] c.api = "vkAllocateCommandBuffers" -> PreAllocateCommandBuffers(c)
      [] c.api = "vkFreeCommandBuffers"     -> PreFreeCommandBuffers(c)
      [] c.api = "vkResetCommandPool"       -> PreResetCommandPool(c)
      [] c.api = "vkDestroyCommandPool"     -> PreDestroyCommandPool(c)
      [] c.api = "vkAllocateDescriptorSets" -> PreAllocateDescriptorSets(c)
      [] c.api = "vkFreeDescriptorSets"     -> PreFreeDescriptorSets(c)
      [] c.api = "vkResetDescriptorPool"    -> PreResetDescriptorPool(c)
      [] c.api = "vkDestroyDescriptorPool"  -> PreDestroyDescriptorPool(c)
      [] c.api = "vkUpdateDescriptorSets"   -> PreUpdateDescriptorSets(c)
      [] c.api = "vkQueueSubmit"            -> PreQueueSubmit(c)
      [] c.api = "vkGetDeviceQueue"         -> PreGetDeviceQueue(c)
      [] c.api = "vkDeviceWaitIdle"         -> PreDeviceWaitIdle(c)

Post(c) ==
    CASE c.api = "vkCmd"                    -> PostCmd(c)
      [] c.api = "vkCreateCommandPool"      -> PostCreateCommandPool(c)
      [] c.api = "vkAllocateCommandBuffers" -> PostAllocateCommandBuffers(c)
      [] c.api = "vkFreeCommandBuffers"     -> PostFreeCommandBuffers(c)
      [] c.api = "vkResetCommandPool"       -> PostResetCommandPool(c)
      [] c.api = "vkDestroyCommandPool"     -> PostDestroyCommandPool(c)
      [] c.api = "vkAllocateDescriptorSets" -> PostAllocateDescriptorSets(c)
      [] c.api = "vkFreeDescriptorSets"     -> PostFreeDescriptorSets(c)
      [] c.api = "vkResetDescriptorPool"    -> PostResetDescriptorPool(c)
      [] c.api = "vkDestroyDescriptorPool"  -> PostDestroyDescriptorPool(c)
      [] c.api = "vkUpdateDescriptorSets"   -> PostUpdateDescriptorSets(c)
      [] c.api = "vkQueueSubmit"            -> PostQueueSubmit(c)
      [] c.api = "vkGetDeviceQueue"         -> PostGetDeviceQueue(c)
      [] c.api = "vkDeviceWaitIdle"         -> PostDeviceWaitIdle(c)

-----------------------------------------------------------------------------
(* What the Vulkan specification asks of the application (external)         *)

Alive(o) == o \in DOMAIN owner /\ owner[o] # NoObject
InPool(p) == {o \in DOMAIN owner : owner[o] = p}

\* Objects a call needs for itself, and objects it shares with other readers.
Exclusive(c) ==
    CASE c.api = "vkCmd"                    -> {c.on, owner[c.on]}
      [] c.api \in {"vkAllocateCommandBuffers", "vkAllocateDescriptorSets", "vkQueueSubmit"} -> {c.on}
      [] c.api \in {"vkFreeCommandBuffers", "vkFreeDescriptorSets"} -> {c.on} \cup {c.objs[1]}
      [] c.api \in {"vkResetCommandPool", "vkDestroyCommandPool", "vkResetDescriptorPool", "vkDestroyDescriptorPool"}
                                            -> {c.on} \cup InPool(c.on)
      [] c.api = "vkUpdateDescriptorSets"   -> IF c.uab THEN {} ELSE {c.on}
      [] c.api = "vkDeviceWaitIdle"         -> {q \in Queue : live[q] = "live"}
      [] OTHER                              -> {}
Shared(c) ==
    CASE c.api = "vkCmd"                    -> {c.objs[i] : i \in DOMAIN c.objs}
      [] c.api = "vkUpdateDescriptorSets"   -> {c.objs[i] : i \in DOMAIN c.objs} \cup (IF c.uab THEN {c.on} ELSE {})
      [] OTHER                              -> {}

\* What every running call needs, fixed when it starts.
Needs == [excl : SUBSET Object, shared : SUBSET Object]
Collides(a, b) ==
    \/ a.excl \cap (b.excl \cup b.shared) # {}
    \/ b.excl \cap a.shared # {}

Running(t)  == phase[t] # "idle"
InDriver(t) == phase[t] = "pre" /\ todo[t] = << >>

-----------------------------------------------------------------------------
(* Types and the initial state: a device with one pool of each kind that     *)
(* has no objects yet, nothing in use.                                       *)

Steps == Lookups \cup {"StartWrite", "StartRead", "FinishWrite", "FinishRead", "CreateObject", "DestroyObject",
                       "LockRead", "LockWrite", "Unlock", "InsertCb", "EraseCb", "ForgetCbs", "InsertSet",
                       "EraseSet", "DropSet", "ClearSets", "InsertQueue"}
StepRecord == [op : Steps, obj : Object \cup {NoObject}, pool : Pool \cup {NoObject}]

\* The type invariant; no call returns with thread_safety_lock held.
TypeOK ==
    /\ table  \in [Object -> 0..MaxGen]
    /\ count  \in [UseData -> Int]
    /\ thread \in [UseData -> Thread \cup {AnyThread}]
    /\ command_pool_map \in [CommandBuffer -> CommandPool \cup {NoObject}]
    /\ pool_objects \in [Pool -> SUBSET (CommandBuffer \cup DescriptorSet)]
    /\ device_queues_map \subseteq Queue
    /\ ds_read_only_map \in [DescriptorSet -> {"none", "no", "yes"}]
    /\ lock \in [readers : SUBSET Thread, writer : Thread \cup {NoThread}]
    /\ \A t \in Thread : (t \in lock.readers \/ lock.writer = t) => phase[t] # "idle"
    /\ \A t \in Thread : todo[t] \in Seq(StepRecord)
    /\ phase \in [Thread -> {"idle", "pre", "post"}]
    /\ pc \in [Thread -> {"step", "store", "collide", "wait", "recheck"}]
    /\ use \in [Thread -> 0..MaxGen]
    /\ \A t \in Thread : pc[t] # "step" => todo[t] # << >> /\ use[t] # 0

Init ==
    /\ table = [o \in Object |-> IF o = Device \/ o \in DescriptorPool THEN 1 ELSE 0]
    /\ count = [d \in UseData |-> 0]
    /\ thread = [d \in UseData |-> AnyThread]
    /\ command_pool_map = [c \in CommandBuffer |-> NoObject]
    /\ pool_objects = [p \in Pool |-> {}]
    /\ device_queues_map = {}
    /\ ds_read_only_map = [d \in DescriptorSet |-> "none"]
    /\ lock = [readers |-> {}, writer |-> NoThread]
    /\ call = [t \in Thread |-> NoCall]
    /\ phase = [t \in Thread |-> "idle"]
    /\ todo = [t \in Thread |-> << >>]
    /\ pc = [t \in Thread |-> "step"]
    /\ use = [t \in Thread |-> 0]
    /\ family \in Families
    /\ live = [o \in Queue \cup Pool |-> IF o \in DescriptorPool THEN "live" ELSE "new"]
    /\ owner = [o \in CommandBuffer \cup DescriptorSet |-> NoObject]
    /\ conflicted = FALSE
    /\ alarms = [t \in Thread |-> FALSE]
    /\ before = [t \in Thread |-> {}]

-----------------------------------------------------------------------------
(* counter<T> *)

\* The step is done.
Done(t) == /\ todo' = [todo EXCEPT ![t] = Tail(@)]
           /\ pc' = [pc EXCEPT ![t] = "step"]
           /\ use' = [use EXCEPT ![t] = 0]

At(t, op) == pc[t] = "step" /\ todo[t] # << >> /\ Head(todo[t]).op = op
Obj(t)    == Head(todo[t]).obj
Data(t)   == <<Obj(t), use[t]>>
IsWriter(t) == Head(todo[t]).op = "StartWrite"

\* A message is logged: every call under way overlaps with it.
Report == alarms' = [u \in Thread |-> alarms[u] \/ Running(u)]

\* FindObject() fails.
NotFound(t) ==
    /\ table[Obj(t)] = 0
    /\ Report /\ Done(t)
    /\ UNCHANGED <<useVars, mapVars, lock, call, phase, appVars, conflicted, before>>

\* FindObject() and AddWriter() or AddReader(), whose result picks the branch.
StartUse(t) ==
    LET d    == <<Obj(t), table[Obj(t)]>>
        prev == count[d]
    IN  /\ At(t, "StartWrite") \/ At(t, "StartRead")
        /\ \/ NotFound(t)
           \/ /\ table[Obj(t)] # 0
              /\ count' = [count EXCEPT ![d] = @ + (IF IsWriter(t) THEN AddWriter ELSE AddReader)]
              /\ IF GetReadCount(prev) = 0 /\ GetWriteCount(prev) = 0
                 THEN pc' = [pc EXCEPT ![t] = "store"] /\ use' = [use EXCEPT ![t] = d[2]] /\ todo' = todo
                 ELSE IF IsWriter(t) \/ GetWriteCount(prev) > 0
                 THEN pc' = [pc EXCEPT ![t] = "collide"] /\ use' = [use EXCEPT ![t] = d[2]] /\ todo' = todo
                 ELSE Done(t)
              /\ UNCHANGED <<table, thread, mapVars, lock, call, phase, appVars, histVars>>

\* use_data->thread = tid
StoreThread(t) ==
    /\ pc[t] = "store"
    /\ thread' = [thread EXCEPT ![Data(t)] = t]
    /\ Done(t)
    /\ UNCHANGED <<table, count, mapVars, lock, call, phase, appVars, histVars>>

\* use_data->thread == tid: safe multiple use in one call.
SameThread(t) == IF thread[Data(t)] = AnyThread THEN BOOLEAN ELSE {thread[Data(t)] = t}

\* use_data->thread != tid: report, and wait if the callback says so.
Collide(t) ==
    /\ pc[t] = "collide"
    /\ \/ TRUE \in SameThread(t) /\ Done(t) /\ UNCHANGED alarms
       \/ /\ FALSE \in SameThread(t)
          /\ Report
          /\ \/ Obj(t) \in SkipOn /\ pc' = [pc EXCEPT ![t] = "wait"] /\ UNCHANGED <<todo, use>>
             \/ IsWriter(t) /\ pc' = [pc EXCEPT ![t] = "store"] /\ UNCHANGED <<todo, use>>
             \/ ~IsWriter(t) /\ Done(t)
    /\ UNCHANGED <<useVars, mapVars, lock, call, phase, appVars, conflicted, before>>

\* WaitForObjectIdle(): two reads of the counter per turn.
WaitReaders(t) ==
    /\ pc[t] = "wait" /\ ReadersGone(count[Data(t)], IsWriter(t))
    /\ pc' = [pc EXCEPT ![t] = "recheck"]
    /\ UNCHANGED <<useVars, mapVars, lock, call, phase, todo, use, appVars, histVars>>
WaitWriters(t) ==
    /\ pc[t] = "recheck"
    /\ pc' = [pc EXCEPT ![t] = IF WritersGone(count[Data(t)], IsWriter(t)) THEN "store" ELSE "wait"]
    /\ UNCHANGED <<useVars, mapVars, lock, call, phase, todo, use, appVars, histVars>>

\* FinishWrite() and FinishRead(): FindObject() again, then RemoveWriter() or RemoveReader().
FinishUse(t) ==
    LET d == <<Obj(t), table[Obj(t)]>>
    IN  /\ At(t, "FinishWrite") \/ At(t, "FinishRead")
        /\ \/ NotFound(t)
           \/ /\ table[Obj(t)] # 0
              /\ count' = [count EXCEPT ![d] = @ - (IF Head(todo[t]).op = "FinishWrite" THEN AddWriter ELSE AddReader)]
              /\ thread' = [thread EXCEPT ![d] = IF count'[d] = 0 THEN AnyThread ELSE @]
              /\ Done(t)
              /\ UNCHANGED <<table, mapVars, lock, call, phase, appVars, histVars>>

-----------------------------------------------------------------------------
(* The object table, the maps and thread_safety_lock                        *)

\* A StartWrite() or StartRead() under way keeps the ObjectUseData it found.
Held(o, n) == \E t \in Thread : pc[t] # "step" /\ Data(t) = <<o, n>>

\* object_table.insert(): no effect on a handle that is there, fresh data otherwise.
Inserted(S) ==
    LET Slot(o) == CHOOSE n \in 1..MaxGen : ~Held(o, n)
        New == {o \in S : table[o] = 0}
        Fresh == {<<o, Slot(o)>> : o \in New}
    IN  /\ table' = [o \in Object |-> IF o \in New THEN Slot(o) ELSE table[o]]
        /\ count' = [d \in UseData |-> IF d \in Fresh THEN 0 ELSE count[d]]
        /\ thread' = [d \in UseData |-> IF d \in Fresh THEN AnyThread ELSE thread[d]]

\* object_table.erase(): the data goes with its last reference.
Erased(S) ==
    LET Freed == {d \in UseData : d[1] \in S /\ ~Held(d[1], d[2])}
    IN  /\ table' = [o \in Object |-> IF o \in S THEN 0 ELSE table[o]]
        /\ count' = [d \in UseData |-> IF d \in Freed THEN 0 ELSE count[d]]
        /\ thread' = [d \in UseData |-> IF d \in Freed THEN AnyThread ELSE thread[d]]

TableStep(t) ==
    /\ \/ At(t, "CreateObject")  /\ Inserted({Obj(t)})
       \/ At(t, "DestroyObject") /\ Erased({Obj(t)})
    /\ Done(t)
    /\ UNCHANGED <<mapVars, lock, call, phase, appVars, histVars>>

\* A step that looks something up becomes the steps that it finds.
Lookup(t) ==
    /\ pc[t] = "step" /\ todo[t] # << >> /\ Head(todo[t]).op \in Lookups
    /\ todo' = [todo EXCEPT ![t] = Expansion(Head(@)) \o Tail(@)]
    /\ UNCHANGED <<useVars, mapVars, lock, call, phase, pc, use, appVars, histVars>>

LockStep(t) ==
    /\ \/ /\ At(t, "LockRead") /\ lock.writer = NoThread
          /\ lock' = [lock EXCEPT !.readers = @ \cup {t}]
       \/ /\ At(t, "LockWrite") /\ lock.writer = NoThread /\ lock.readers = {}
          /\ lock' = [lock EXCEPT !.writer = t]
       \/ /\ At(t, "Unlock")
          /\ lock' = [readers |-> lock.readers \ {t}, writer |-> IF lock.writer = t THEN NoThread ELSE lock.writer]
    /\ Done(t)
    /\ UNCHANGED <<useVars, mapVars, call, phase, appVars, histVars>>

\* The maps of command buffers, under thread_safety_lock.  vkDestroyCommandPool leaves
\* command_pool_map alone.
CbMapStep(t) ==
    LET o == Obj(t)
        p == Head(todo[t]).pool
    IN  /\ \/ /\ At(t, "InsertCb") /\ Inserted({o})
              /\ command_pool_map' = [command_pool_map EXCEPT ![o] = p]
              /\ pool_objects' = [pool_objects EXCEPT ![p] = @ \cup {o}]
           \/ /\ At(t, "EraseCb") /\ Erased({o})
              /\ command_pool_map' = [command_pool_map EXCEPT ![o] = NoObject]
              /\ pool_objects' = [pool_objects EXCEPT ![p] = @ \ {o}]
           \/ /\ At(t, "ForgetCbs") /\ Erased(pool_objects[o])
              /\ pool_objects' = [pool_objects EXCEPT ![o] = {}]
              /\ UNCHANGED command_pool_map
        /\ Done(t)
        /\ UNCHANGED <<device_queues_map, ds_read_only_map, lock, call, phase, appVars, histVars>>

\* The maps of descriptor sets, under thread_safety_lock.
DsMapStep(t) ==
    LET o == Obj(t)
        p == Head(todo[t]).pool
    IN  /\ \/ /\ At(t, "InsertSet") /\ Inserted({o})
              /\ pool_objects' = [pool_objects EXCEPT ![p] = @ \cup {o}]
              /\ ds_read_only_map' = [ds_read_only_map EXCEPT ![o] = IF call[t].uab THEN "yes" ELSE "no"]
           \/ /\ At(t, "EraseSet") /\ Erased({o})
              /\ pool_objects' = [pool_objects EXCEPT ![p] = @ \ {o}]
              /\ ds_read_only_map' = [ds_read_only_map EXCEPT ![o] = "none"]
           \/ /\ At(t, "DropSet") /\ Erased({o})
              /\ ds_read_only_map' = [ds_read_only_map EXCEPT ![o] = "none"]
              /\ UNCHANGED pool_objects
           \/ /\ At(t, "ClearSets")
              /\ pool_objects' = [pool_objects EXCEPT ![o] = {}]
              /\ UNCHANGED <<useVars, ds_read_only_map>>
        /\ Done(t)
        /\ UNCHANGED <<command_pool_map, device_queues_map, lock, call, phase, appVars, histVars>>

QueueMapStep(t) ==
    /\ At(t, "InsertQueue")
    /\ device_queues_map' = device_queues_map \cup {Obj(t)}
    /\ Done(t)
    /\ UNCHANGED <<useVars, command_pool_map, pool_objects, ds_read_only_map, lock, call, phase, appVars, histVars>>

-----------------------------------------------------------------------------
(* Calls *)

\* Handles the application knows: allocated by a call that has returned.
Known(o) == Alive(o) /\ \A u \in Thread : call[u].made # o

Candidates ==
    LET C(api, on, objs, uab) == [NoCall EXCEPT !.api = api, !.on = on, !.objs = objs, !.uab = uab]
        Cbs == {c \in CommandBuffer : Known(c)}
        Sets == {d \in DescriptorSet : Known(d)}
        LivePools(P) == {p \in P : live[p] = "live"}
        CanAllocate(api, H) == Cardinality({u \in Thread : call[u].api = api})
                                 < Cardinality({o \in H : owner[o] = NoObject})   \* bound: the driver has handles left
        Uab(d) == ds_read_only_map[d] = "yes"
    IN  UNION {
          {C("vkCmd", c, << >>, FALSE) : c \in Cbs},
          {C("vkCmd", x[1], <<x[2]>>, FALSE) : x \in (Cbs \ Secondary) \X (Cbs \cap Secondary)},
          {C("vkCreateCommandPool", p, << >>, FALSE) : p \in {x \in CommandPool : live[x] = "new" /\ \A u \in Thread : call[u].on # x}},
          {C("vkAllocateCommandBuffers", p, << >>, FALSE) :
              p \in {x \in LivePools(CommandPool) : CanAllocate("vkAllocateCommandBuffers", CommandBuffer)}},
          {C(api, p, << >>, FALSE) : api \in {"vkResetCommandPool", "vkDestroyCommandPool"}, p \in LivePools(CommandPool)},
          {C("vkFreeCommandBuffers", owner[c], <<c>>, FALSE) : c \in Cbs},
          {C("vkAllocateDescriptorSets", p, << >>, b) : b \in BOOLEAN,
              p \in {x \in LivePools(DescriptorPool) : CanAllocate("vkAllocateDescriptorSets", DescriptorSet)}},
          {C(api, p, << >>, FALSE) : api \in {"vkResetDescriptorPool", "vkDestroyDescriptorPool"},
                                     p \in LivePools(DescriptorPool)},
          {C("vkFreeDescriptorSets", owner[d], <<d>>, FALSE) : d \in Sets},
          {C("vkUpdateDescriptorSets", d, << >>, Uab(d)) : d \in Sets},
          {C("vkUpdateDescriptorSets", x[1], <<x[2]>>, Uab(x[1])) : x \in Sets \X Sets},
          {C("vkQueueSubmit", q, << >>, FALSE) : q \in {x \in Queue : live[x] = "live"}},
          {C("vkGetDeviceQueue", q, << >>, FALSE) : q \in Queue},
          {C("vkDeviceWaitIdle", NoObject, << >>, FALSE)}}

\* Habit "queues first": no vkGetDeviceQueue during a vkDeviceWaitIdle.
KeepsHabits(t, c) ==
    "queues first" \in Habits =>
        \A u \in Thread : {c.api, call[u].api} # {"vkGetDeviceQueue", "vkDeviceWaitIdle"}

\* A thread calls into the layer.  Bound: an application that has violated the rules
\* is followed until the calls under way have returned.
StartCall(t, c) ==
    LET need == [excl |-> Exclusive(c), shared |-> Shared(c)]
    IN  /\ ~Running(t) /\ c.api \in family /\ KeepsHabits(t, c)
        /\ ~conflicted
        /\ call' = [call EXCEPT ![t] = c @@ need]
        /\ phase' = [phase EXCEPT ![t] = "pre"]
        /\ todo' = [todo EXCEPT ![t] = Pre(c)]
        /\ conflicted' = (conflicted \/ \E u \in Thread : Running(u) /\ Collides(need, call[u]))
        /\ alarms' = [alarms EXCEPT ![t] = FALSE]
        /\ before' = [before EXCEPT ![t] = {u \in Thread : InDriver(u)}]
        /\ UNCHANGED <<useVars, mapVars, lock, pc, use, appVars>>

\* The driver (external): it creates and frees handles, then PostCallRecord runs.
DriverEffect(t, made) ==
    LET c == call[t]
        Gone == IF c.api \in {"vkFreeCommandBuffers", "vkFreeDescriptorSets"} THEN {c.objs[1]}
                ELSE IF c.api \in {"vkDestroyCommandPool", "vkResetDescriptorPool", "vkDestroyDescriptorPool"}
                THEN InPool(c.on) ELSE {}
    IN  /\ UNCHANGED family
        /\ owner' = [o \in DOMAIN owner |-> IF o = made THEN c.on ELSE IF o \in Gone THEN NoObject ELSE owner[o]]
        /\ live' = [o \in DOMAIN live |->
              IF o = c.on /\ c.api \in {"vkDestroyCommandPool", "vkDestroyDescriptorPool"} THEN "gone"
              ELSE live[o]]

Driver(t) ==
    /\ InDriver(t)
    /\ \E made \in {NoObject} \cup {o \in DOMAIN owner : owner[o] = NoObject}, ok \in BOOLEAN :
          /\ CASE call[t].api = "vkAllocateCommandBuffers" -> made \in CommandBuffer \cup {NoObject} /\ (ok <=> made # NoObject)
               [] call[t].api = "vkAllocateDescriptorSets" -> made \in DescriptorSet \cup {NoObject} /\ (ok <=> made # NoObject)
               [] call[t].api = "vkCreateCommandPool"      -> made = NoObject
               [] OTHER -> made = NoObject /\ ok
          /\ DriverEffect(t, made)
          /\ call' = [call EXCEPT ![t].made = made, ![t].ok = ok]
    /\ phase' = [phase EXCEPT ![t] = "post"]
    /\ todo' = [todo EXCEPT ![t] = Post(call'[t])]
    /\ UNCHANGED <<useVars, mapVars, lock, pc, use, histVars>>

\* The call returns: its results are known to the application.
Return(t) ==
    LET c == call[t]
    IN  /\ phase[t] = "post" /\ todo[t] = << >>
        /\ call' = [call EXCEPT ![t] = NoCall]
        /\ phase' = [phase EXCEPT ![t] = "idle"]
        /\ live' = [o \in DOMAIN live |-> IF o = c.on /\ c.api \in {"vkCreateCommandPool", "vkGetDeviceQueue"} /\ c.ok
                                          THEN "live" ELSE live[o]]
        /\ alarms' = [alarms EXCEPT ![t] = FALSE]
        /\ before' = [u \in Thread |-> IF u = t THEN {} ELSE before[u] \ {t}]
        /\ UNCHANGED <<useVars, mapVars, lock, todo, pc, use, family, owner, conflicted>>

Move(t) ==
    \/ StartUse(t) \/ StoreThread(t) \/ Collide(t) \/ WaitReaders(t) \/ WaitWriters(t) \/ FinishUse(t)
    \/ TableStep(t) \/ Lookup(t) \/ LockStep(t) \/ CbMapStep(t) \/ DsMapStep(t) \/ QueueMapStep(t)
    \/ Driver(t) \/ Return(t)

Next == \E t \in Thread : Move(t) \/ \E c \in Candidates : StartCall(t, c)

Spec == Init /\ [][Next]_vars

-----------------------------------------------------------------------------
(* Properties *)

\* A message means a mistake of the application: as long as no two calls overlapped
\* that had to be synchronised, no collision is reported and FindObject() finds every
\* handle, whatever handles were created, freed and reused in between.
ReportMeansConflict == (\E t \in Thread : alarms[t]) => conflicted

\* The counters come back to zero: between the calls of a correct application no
\* handle is in use, and the table holds exactly the handles that exist.
IdleMeansUnused ==
    (~conflicted /\ \A t \in Thread : ~Running(t)) =>
        /\ \A o \in Object : table[o] # 0 => count[<<o, table[o]>>] = 0
        /\ \A o \in CommandBuffer \cup DescriptorSet : table[o] # 0 <=> Alive(o)
        /\ \A p \in Pool : table[p] # 0 <=> live[p] = "live"

\* "only one thread at a time uses an object": a call that needs something a call
\* already in the driver has for itself does not reach the driver without a message.
CollisionReported ==
    \A t \in Thread : InDriver(t) =>
        \A u \in before[t] : InDriver(u) /\ call[u].excl \cap (call[t].excl \cup call[t].shared) # {} => alarms[u]

\* Threads that have something to wait for: the holder of thread_safety_lock, or the
\* other users of the object.
Blocked(t) ==
    \/ pc[t] \in {"wait", "recheck"} /\ ~(ReadersGone(count[Data(t)], IsWriter(t)) /\ WritersGone(count[Data(t)], IsWriter(t)))
    \/ At(t, "LockRead") /\ lock.writer # NoThread
    \/ At(t, "LockWrite") /\ (lock.writer # NoThread \/ lock.readers # {})

\* "Wait for thread-safe access to object instead of skipping call": WaitForObjectIdle()
\* is called with counts raised and sometimes under thread_safety_lock, and still some
\* thread inside a call can go on, so that a collision ends.
NoStandstill == (\E t \in Thread : Running(t)) => \E t \in Thread : Running(t) /\ ~Blocked(t)
=============================================================================
