--------------------------- MODULE KernelObjects ---------------------------
(***************************************************************************)
(* The life of kernel objects: queues, mutexes, semaphores, stream buffers, *)
(* event groups, timers and tasks are created in memory of the caller or of *)
(* the heap, and deleted (queue.c, stream_buffer.c, event_groups.c,          *)
(* timers.c, tasks.c). What they do while they exist is in KernelQueues and *)
(* KernelServices; here they are the memory they own.                        *)
(*                                                                         *)
(* The heap is a set of blocks <<handle, part, size>> under a limit. malloc *)
(* refuses by returning NULL; whether the malloc-failed hook then stops the *)
(* board is the application's choice. size_t has the values 0..SizeMax.      *)
(***************************************************************************)
EXTENDS Integers, Sequences, FiniteSets, FiniteSetsExt

CONSTANTS
    Handles,       \* addresses objects are created at
    HeapBytes,     \* size of the heap
    SizeMax,       \* SIZE_MAX
    QueueHead, BufferHead, GroupSize, TimerSize, TcbSize, StackSize,  \* sizeof
    Lengths, ItemSizes,   \* parameters of a queue
    Buffers        \* <<size, trigger>> of a stream buffer

ASSUME ObjectsAssumption ==
    /\ HeapBytes \in Nat /\ SizeMax \in Nat
    /\ {QueueHead, BufferHead, GroupSize, TimerSize, TcbSize, StackSize} \subseteq 1..SizeMax
    /\ Lengths \cup ItemSizes \subseteq 0..SizeMax /\ Buffers \subseteq (0..SizeMax) \X (0..SizeMax)
    /\ Handles \cap {"main", "idle", "daemon", "timerQueue", "none"} = {}

VARIABLES
    obj,        \* handle -> the object there
    heap,       \* allocated blocks
    runningTask,   \* pxCurrentTCB
    ending,     \* xTasksWaitingTermination
    waitsFor,   \* task -> the event group it waits for
    commands,   \* timers whose tmrCOMMAND_DELETE the daemon has yet to handle
    scheduler,    \* xSchedulerRunning, or "failed" for a configASSERT of the start
    asserted    \* a configASSERT of a creation failed

objectVars == <<obj, heap, runningTask, ending, waitsFor, commands, scheduler, asserted>>

Main == "main"        \* the task setup() runs in, created by the start-up code
IdleTcb == "idle"
DaemonTcb == "daemon"
TimerQ == "timerQueue"
KernelOwn == {IdleTcb, DaemonTcb, TimerQ}
Nothing == [kind |-> "none"]
NoGroup == "none"
Actors == Handles \cup {Main}

----------------------------------------------------------------------------
\* The heap

Wrap(n) == n % (SizeMax + 1)
Allocated(hp) == MapThenSumSet(LAMBDA b : b[3], hp)

pvPortMalloc(hp, n) == Allocated(hp) + n <= HeapBytes

BlocksOf(h) == {b \in heap : b[1] = h}
Owned(h) == MapThenSumSet(LAMBDA b : b[3], BlocksOf(h))

vPortFree(h, part) == heap \ {b \in heap : b[1] = h /\ b[2] = part}

Ending == {ending[i] : i \in DOMAIN ending}

\* a task that runs user code, and an address for a new object
Calls == ~asserted /\ scheduler # "failed" /\ runningTask \in Actors \ Ending /\ waitsFor[runningTask] = NoGroup
Unused(h) == obj[h] = Nothing

Keep == UNCHANGED <<runningTask, ending, waitsFor, commands, scheduler>>

\* the object o of n bytes in one block, or NULL
OnHeap(h, o, n) ==
    /\ IF pvPortMalloc(heap, n)
       THEN heap' = heap \cup {<<h, "object", n>>} /\ obj' = [obj EXCEPT ![h] = o]
       ELSE UNCHANGED <<heap, obj>>
    /\ UNCHANGED asserted

InBuffer(h, o) == obj' = [obj EXCEPT ![h] = o] /\ UNCHANGED <<heap, asserted>>

Assert == asserted' = TRUE /\ UNCHANGED <<obj, heap>>

----------------------------------------------------------------------------
\* Queues, mutexes and counting semaphores

prvInitialiseNewQueue(len, size, static) ==
    [kind |-> "queue", static |-> static, length |-> len, needs |-> QueueHead + len * size, waiting |-> 0]

QueueFits(len, size) ==
    /\ len > 0
    /\ SizeMax \div len >= size
    /\ SizeMax - QueueHead >= Wrap(len * size)

xQueueGenericCreate(h, len, size) ==
    IF QueueFits(len, size)
    THEN OnHeap(h, prvInitialiseNewQueue(len, size, FALSE), Wrap(QueueHead + Wrap(len * size)))
    ELSE Assert

\* with storage of its own exactly when items have a size
xQueueGenericCreateStatic(h, len, size, storage) ==
    IF len > 0 /\ (storage <=> size # 0)
    THEN InBuffer(h, prvInitialiseNewQueue(len, size, TRUE))
    ELSE Assert

\* a mutex is created empty and given once
prvInitialiseMutex(o) == [o EXCEPT !.waiting = 1]

xQueueCreateMutex(h) == OnHeap(h, prvInitialiseMutex(prvInitialiseNewQueue(1, 0, FALSE)), QueueHead)
xQueueCreateMutexStatic(h) == InBuffer(h, prvInitialiseMutex(prvInitialiseNewQueue(1, 0, TRUE)))

xQueueCreateCountingSemaphore(h, max, initial) ==
    IF max # 0 /\ initial <= max
    THEN OnHeap(h, [prvInitialiseNewQueue(max, 0, FALSE) EXCEPT !.waiting = initial], QueueHead)
    ELSE Assert

xQueueCreateCountingSemaphoreStatic(h, max, initial) ==
    IF max # 0 /\ initial <= max
    THEN InBuffer(h, [prvInitialiseNewQueue(max, 0, TRUE) EXCEPT !.waiting = initial])
    ELSE Assert

CreateQueue(h) ==
    /\ Calls /\ Unused(h)
    /\ \/ \E len \in Lengths, size \in ItemSizes :
            \/ xQueueGenericCreate(h, len, size)
            \/ \E storage \in BOOLEAN : xQueueGenericCreateStatic(h, len, size, storage)
       \/ xQueueCreateMutex(h)
       \/ xQueueCreateMutexStatic(h)
       \/ \E max \in {0, 2}, initial \in {0, 2, 3} :
            \/ xQueueCreateCountingSemaphore(h, max, initial)
            \/ xQueueCreateCountingSemaphoreStatic(h, max, initial)
    /\ Keep

xQueueGenericGetStaticBuffers(o) == o.static

vQueueDelete(h) ==
    /\ Calls /\ obj[h].kind = "queue"
    /\ heap' = IF obj[h].static THEN heap ELSE vPortFree(h, "object")
    /\ obj' = [obj EXCEPT ![h] = Nothing]
    /\ Keep /\ UNCHANGED asserted

----------------------------------------------------------------------------
\* Stream buffers

prvInitialiseNewStreamBuffer(length, trigger, flags) ==
    [kind |-> "stream", flags |-> flags, length |-> length, trigger |-> trigger, needs |-> BufferHead + length]

AtLeastOne(trigger) == IF trigger = 0 THEN 1 ELSE trigger

\* one byte more than asked for: a full buffer keeps one cell empty
Cells(size) == size + 1

xStreamBufferGenericCreate(h, size, trigger) ==
    IF size = 0 \/ trigger > size THEN Assert
    ELSE IF size < Wrap(size + 1 + BufferHead)
    THEN OnHeap(h, prvInitialiseNewStreamBuffer(Cells(size), AtLeastOne(trigger), {}), Wrap(Cells(size) + BufferHead))
    ELSE UNCHANGED <<heap, obj, asserted>>

xStreamBufferGenericCreateStatic(h, size, trigger) ==
    IF trigger > size THEN Assert
    ELSE InBuffer(h, prvInitialiseNewStreamBuffer(size, AtLeastOne(trigger), {"static"}))

CreateStreamBuffer(h) ==
    /\ Calls /\ Unused(h)
    /\ \E b \in Buffers :
         \/ xStreamBufferGenericCreate(h, b[1], b[2])
         \/ xStreamBufferGenericCreateStatic(h, b[1], b[2])
    /\ Keep

xStreamBufferGetStaticBuffers(o) == "static" \in o.flags

\* memory of the caller is cleared, memory of the heap returned
vStreamBufferDelete(h) ==
    /\ Calls /\ obj[h].kind = "stream"
    /\ heap' = IF "static" \in obj[h].flags THEN heap ELSE vPortFree(h, "object")
    /\ obj' = [obj EXCEPT ![h] = Nothing]
    /\ Keep /\ UNCHANGED asserted

----------------------------------------------------------------------------
\* Event groups

NewGroup(static) == [kind |-> "group", static |-> static, needs |-> GroupSize, deletedBy |-> NoGroup]

xEventGroupCreate(h) == OnHeap(h, NewGroup(FALSE), GroupSize)
xEventGroupCreateStatic(h) == InBuffer(h, NewGroup(TRUE))

CreateEventGroup(h) ==
    /\ Calls /\ Unused(h)
    /\ xEventGroupCreate(h) \/ xEventGroupCreateStatic(h)
    /\ Keep

\* xEventGroupWaitBits without a time limit, as the firmware's groups are used;
\* nobody starts to wait for a group that is being deleted
WaitForGroup(h) ==
    /\ Calls /\ scheduler = "yes" /\ obj[h].kind = "group" /\ obj[h].deletedBy = NoGroup
    /\ waitsFor' = [waitsFor EXCEPT ![runningTask] = h]
    /\ UNCHANGED <<obj, heap, runningTask, ending, commands, scheduler, asserted>>

\* Plausible bug: the group is deleted under its waiters
LeaveWaiting(h) == waitsFor

\* the walk over the waiters, with the scheduler suspended
Released(h) == [t \in Actors |-> IF waitsFor[t] = h THEN NoGroup ELSE waitsFor[t]]

\* xTaskResumeAll comes before the block is freed: a released task may run first
vEventGroupDelete(h) ==
    /\ Calls /\ obj[h].kind = "group" /\ obj[h].deletedBy = NoGroup
    /\ waitsFor' = Released(h)
    /\ obj' = [obj EXCEPT ![h].deletedBy = runningTask]
    /\ UNCHANGED <<heap, runningTask, ending, commands, scheduler, asserted>>

EventGroupFree(h) ==
    /\ Calls /\ obj[h].kind = "group" /\ obj[h].deletedBy = runningTask
    /\ heap' = IF obj[h].static THEN heap ELSE vPortFree(h, "object")
    /\ obj' = [obj EXCEPT ![h] = Nothing]
    /\ Keep /\ UNCHANGED asserted

xEventGroupGetStaticBuffer(o) == o.static

----------------------------------------------------------------------------
\* Timers

prvInitialiseNewTimer(status) == [kind |-> "timer", status |-> status, needs |-> TimerSize]

\* the command queue is created, in static memory, by whoever needs it first
prvCheckForValidListAndQueue(os) ==
    IF os[TimerQ] = Nothing THEN [os EXCEPT ![TimerQ] = prvInitialiseNewQueue(1, 1, TRUE)] ELSE os

\* the block is allocated before the period is looked at
xTimerCreate(h, period) ==
    IF ~pvPortMalloc(heap, TimerSize) THEN UNCHANGED <<heap, obj, asserted>>
    ELSE /\ heap' = heap \cup {<<h, "object", TimerSize>>}
         /\ asserted' = (period = 0)
         /\ obj' = IF period = 0 THEN obj
                   ELSE [prvCheckForValidListAndQueue(obj) EXCEPT ![h] = prvInitialiseNewTimer({})]

xTimerCreateStatic(h, period) ==
    IF period = 0 THEN Assert
    ELSE /\ obj' = [prvCheckForValidListAndQueue(obj) EXCEPT ![h] = prvInitialiseNewTimer({"static"})]
         /\ UNCHANGED <<heap, asserted>>

CreateTimer(h) ==
    /\ Calls /\ Unused(h)
    /\ \E period \in {0, 1} : xTimerCreate(h, period) \/ xTimerCreateStatic(h, period)
    /\ Keep

\* xTimerDelete posts a command; a timer is deleted once
xTimerDelete(h) ==
    /\ Calls /\ obj[h].kind = "timer" /\ h \notin commands
    /\ commands' = commands \cup {h}
    /\ UNCHANGED <<obj, heap, runningTask, ending, waitsFor, scheduler, asserted>>

TimerMemory(h) == IF "static" \in obj[h].status THEN heap ELSE vPortFree(h, "object")

\* tmrCOMMAND_DELETE in the daemon, which runs above every other task
DaemonDeletes(h) ==
    /\ scheduler = "yes" /\ ~asserted /\ h \in commands
    /\ heap' = TimerMemory(h)
    /\ obj' = [obj EXCEPT ![h] = Nothing]
    /\ commands' = commands \ {h}
    /\ UNCHANGED <<runningTask, ending, waitsFor, scheduler, asserted>>

xTimerGetStaticBuffer(o) == "static" \in o.status

----------------------------------------------------------------------------
\* Tasks

prvInitialiseNewTask(alloc) == [kind |-> "task", alloc |-> alloc, needs |-> TcbSize + StackSize]

\* no room for the control block: the stack goes back
StackReturned(h) == heap

\* the stack first, so that it cannot grow into the control block
xTaskCreate(h) ==
    LET stacked == heap \cup {<<h, "stack", StackSize>>}
        fits == pvPortMalloc(heap, StackSize)
        both == fits /\ pvPortMalloc(stacked, TcbSize)
    IN  /\ heap' = IF both THEN stacked \cup {<<h, "tcb", TcbSize>>} ELSE IF fits THEN StackReturned(h) ELSE heap
        /\ obj' = IF both THEN [obj EXCEPT ![h] = prvInitialiseNewTask("dynamic")] ELSE obj
        /\ UNCHANGED asserted

xTaskCreateStatic(h) == InBuffer(h, prvInitialiseNewTask("static"))

CreateTask(h) ==
    /\ Calls /\ Unused(h)
    /\ xTaskCreate(h) \/ xTaskCreateStatic(h)
    /\ Keep

xTaskGetStaticBuffers(o) == o.alloc # "dynamic"

prvDeleteTCB(h) == IF obj[h].alloc = "dynamic" THEN heap \ BlocksOf(h) ELSE heap

\* taskTASK_IS_RUNNING_OR_SCHEDULED_TO_YIELD, once the scheduler runs
DeletedInIdle(h) == scheduler = "yes" /\ h = runningTask

\* a task is not deleted while it deletes an event group
vTaskDelete(h) ==
    /\ Calls /\ h \notin Ending
    /\ obj[h].kind = "task"
    /\ \A g \in Handles : obj[g].kind = "group" => obj[g].deletedBy # h
    /\ waitsFor' = [waitsFor EXCEPT ![h] = NoGroup]
    /\ IF DeletedInIdle(h)
       THEN ending' = Append(ending, h) /\ UNCHANGED <<obj, heap>>
       ELSE /\ heap' = prvDeleteTCB(h)
            /\ obj' = [obj EXCEPT ![h] = Nothing]
            /\ UNCHANGED ending
    /\ UNCHANGED <<runningTask, commands, scheduler, asserted>>

\* the idle task, one deleted task at a time
prvCheckTasksWaitingTermination ==
    /\ runningTask = IdleTcb /\ ~asserted /\ ending # <<>>
    /\ ending' = Tail(ending)
    /\ heap' = prvDeleteTCB(Head(ending))
    /\ obj' = [obj EXCEPT ![Head(ending)] = Nothing]
    /\ UNCHANGED <<runningTask, waitsFor, commands, scheduler, asserted>>

Runnable(t) ==
    /\ t \in Handles => obj[t].kind = "task" /\ t \notin Ending
    /\ t \in Actors => waitsFor[t] = NoGroup

\* a context switch to any task that is ready
SwitchTo(t) ==
    /\ scheduler = "yes" /\ ~asserted /\ Runnable(t) /\ t # runningTask
    /\ runningTask' = t
    /\ UNCHANGED <<obj, heap, ending, waitsFor, commands, scheduler, asserted>>

----------------------------------------------------------------------------
\* Starting the scheduler

\* in the buffers of vApplicationGetIdleTaskMemory
prvCreateIdleTasks(os) == [os EXCEPT ![IdleTcb] = prvInitialiseNewTask("static")]

\* the command queue and, once there is one, the daemon, in static memory too
xTimerCreateTimerTask(os) ==
    LET queued == prvCheckForValidListAndQueue(os)
    IN  IF queued[TimerQ] # Nothing THEN [queued EXCEPT ![DaemonTcb] = prvInitialiseNewTask("static")] ELSE queued

vTaskStartScheduler ==
    /\ scheduler = "no" /\ Calls
    /\ obj' = IF prvCreateIdleTasks(obj)[IdleTcb] = Nothing THEN obj
              ELSE xTimerCreateTimerTask(prvCreateIdleTasks(obj))
    /\ scheduler' = IF obj'[IdleTcb] # Nothing /\ obj'[DaemonTcb] # Nothing THEN "yes" ELSE "failed"
    /\ UNCHANGED <<heap, runningTask, ending, waitsFor, commands, asserted>>

----------------------------------------------------------------------------
ObjectsInit ==
    /\ obj = [h \in Handles \cup KernelOwn |-> Nothing]
    /\ heap = {} /\ runningTask = Main /\ ending = <<>> /\ commands = {}
    /\ waitsFor = [t \in Actors |-> NoGroup]
    /\ scheduler = "no" /\ asserted = FALSE

ObjectStep(h) ==
    \/ CreateQueue(h) \/ vQueueDelete(h)
    \/ CreateStreamBuffer(h) \/ vStreamBufferDelete(h)
    \/ CreateEventGroup(h) \/ WaitForGroup(h) \/ vEventGroupDelete(h) \/ EventGroupFree(h)
    \/ CreateTimer(h) \/ xTimerDelete(h) \/ DaemonDeletes(h)
    \/ CreateTask(h) \/ vTaskDelete(h)

ObjectsNext ==
    \/ \E h \in Handles : ObjectStep(h)
    \/ prvCheckTasksWaitingTermination
    \/ \E t \in Actors \cup {IdleTcb} : SwitchTo(t)
    \/ vTaskStartScheduler

GivesStatic(o) ==
    CASE o.kind = "queue" -> xQueueGenericGetStaticBuffers(o)
      [] o.kind = "stream" -> xStreamBufferGetStaticBuffers(o)
      [] o.kind = "group" -> xEventGroupGetStaticBuffer(o)
      [] o.kind = "timer" -> xTimerGetStaticBuffer(o)
      [] o.kind = "task" -> xTaskGetStaticBuffers(o)

PartsOf(o) == IF o.kind = "task" THEN {"stack", "tcb"} ELSE {"object"}

(***************************************************************************)
(* Every block of the heap belongs to an object that exists and was created *)
(* in the heap, and such an object has all its blocks: no path of creation  *)
(* and deletion, failed creations included, leaks a block or frees one that *)
(* is in use, and memory of the caller is never handed to the heap.         *)
(***************************************************************************)
HeapIsAccounted ==
    ~asserted =>
        \A h \in DOMAIN obj :
            {b[2] : b \in BlocksOf(h)} =
                IF obj[h] = Nothing THEN {} ELSE IF GivesStatic(obj[h]) THEN {} ELSE PartsOf(obj[h])

(***************************************************************************)
(* An object in the heap has the memory its length and item size call for:  *)
(* no product or sum of sizes that wraps is allocated.                      *)
(***************************************************************************)
StorageSuffices ==
    \A h \in Handles : (obj[h] # Nothing /\ BlocksOf(h) # {}) => Owned(h) >= obj[h].needs

(***************************************************************************)
(* A task that deletes itself keeps its stack and control block until the   *)
(* processor has left it.                                                   *)
(***************************************************************************)
RunningIsNotFreed == (scheduler = "yes" /\ runningTask \in Handles) => obj[runningTask].kind = "task"

(***************************************************************************)
(* Nobody waits for an event group that no longer exists.                   *)
(***************************************************************************)
NoWaiterOnDeleted == \A t \in Actors : waitsFor[t] # NoGroup => obj[waitsFor[t]].kind = "group"

(***************************************************************************)
(* A stream buffer the kernel allocated can hold as many bytes as wake its  *)
(* reader, so that a full buffer never leaves the reader asleep.            *)
(***************************************************************************)
TriggerIsReachable ==
    \A h \in Handles :
        (obj[h].kind = "stream" /\ "static" \notin obj[h].flags) => obj[h].trigger <= obj[h].length - 1

(***************************************************************************)
(* However full the heap is, the scheduler starts: its own tasks and queue   *)
(* are in static memory.                                                    *)
(***************************************************************************)
StartNeedsNoHeap == scheduler # "failed"

(***************************************************************************)
(* The memory of a task that deleted itself is reclaimed, unless a later    *)
(* creation stops the board.                                                *)
(***************************************************************************)
DeletedIsReclaimed == \A h \in Handles : h \in Ending ~> (h \notin Ending \/ asserted)

(***************************************************************************)
(* Kernel objects and the heap agree: what an object owns suffices and is  *)
(* accounted for, nothing that runs or is waited for is freed, and the      *)
(* scheduler starts without heap (xTaskCreate, vTaskDelete, xQueueCreate).  *)
(***************************************************************************)
ObjectsAreSound ==
    /\ [](HeapIsAccounted /\ StorageSuffices /\ RunningIsNotFreed /\ NoWaiterOnDeleted)
    /\ [](TriggerIsReachable /\ StartNeedsNoHeap)
=============================================================================
