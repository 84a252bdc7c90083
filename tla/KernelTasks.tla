---------------------------- MODULE KernelTasks ----------------------------
(***************************************************************************)
(* The scheduler of the FreeRTOS kernel the firmware links (V11.2.0, one    *)
(* core, preemption without time slicing), as functions from kernel states  *)
(* to kernel states: lib/freertos-teensy/src/tasks.c and list.c.            *)
(*                                                                          *)
(* A kernel state is a record.  What the C code keeps in linked lists is    *)
(*   ready      priority -> ring of tasks, its last element pxIndex         *)
(*   delayed, overflowed   tasks ordered by wake time                       *)
(*   suspended, terminated sets of tasks                                    *)
(*   evl        event list (xPendingReadyList included) -> tasks in order   *)
(* and topReady is the bitmap uxTopReadyPriority.  Each function runs with   *)
(* interrupts masked, or with the scheduler suspended; Kernel.tla says      *)
(* where an interrupt can come between two of them.                         *)
(***************************************************************************)
EXTENDS Naturals, FiniteSets, SequencesExt

CONSTANTS
    Tasks,          \* task control blocks, the idle task included
    IdleTask,       \* the task of tskIDLE_PRIORITY created by the scheduler
    MaxPriorities,  \* configMAX_PRIORITIES
    TickMod,        \* number of values of TickType_t
    Queues          \* queue, semaphore and mutex control blocks

ASSUME KernelAssumption ==
    /\ IdleTask \in Tasks
    /\ MaxPriorities \in Nat \ {0}
    /\ TickMod \in Nat /\ TickMod > 2

Priorities == 0 .. MaxPriorities - 1
MaxDelay == TickMod - 1                                  \* portMAX_DELAY
Ticks == 0 .. TickMod - 1
ListEnd == "xListEnd"
Pending == <<"xPendingReadyList">>
SendList(q) == <<"toSend", q>>
ReceiveList(q) == <<"toReceive", q>>
GroupList == <<"xTasksWaitingForBits">>
NoFlags == [bits |-> {}, all |-> FALSE, clear |-> FALSE, unblocked |-> FALSE]
EventLists == {Pending, GroupList} \cup {SendList(q) : q \in Queues} \cup {ReceiveList(q) : q \in Queues}

(***************************************************************************)
(* list.c.  A ring is the circular list read from the entry after pxIndex,  *)
(* the end marker included, so that its last element is pxIndex.            *)
(***************************************************************************)
vListInitialise == <<ListEnd>>

vListInsertEnd(ring, t) == Append(Front(ring), t) \o <<Last(ring)>>

Rotate(ring) == Append(Tail(ring), Head(ring))

\* listGET_OWNER_OF_NEXT_ENTRY: advance pxIndex, skipping the end marker
NextEntry(ring) == IF Head(ring) = ListEnd THEN Rotate(Rotate(ring)) ELSE Rotate(ring)

\* vListInsert: ascending item value, behind the entries of equal value
vListInsert(list, t, value) ==
    LET n == Cardinality({i \in DOMAIN list : value[list[i]] <= value[t]})
    IN  SubSeq(list, 1, n) \o <<t>> \o SubSeq(list, n + 1, Len(list))

Entries(ring) == Range(ring) \ {ListEnd}

uxListRemove(list, t) == SelectSeq(list, LAMBDA x : x # t)

(***************************************************************************)
(* The lists of a task                                                      *)
(***************************************************************************)
ReadyTasks(k) == UNION {Entries(k.ready[p]) : p \in Priorities}

InReadyList(k, t) == t \in Entries(k.ready[k.prio[t]])

EventContainers(k, t) == {l \in DOMAIN k.evl : t \in Range(k.evl[l])}

\* listREMOVE_ITEM of the state list item, whatever list holds it; its value
\* means nothing from then on
RemoveState(k, t) ==
    [k EXCEPT !.ready = [p \in Priorities |-> uxListRemove(@[p], t)],
              !.delayed = uxListRemove(@, t),
              !.overflowed = uxListRemove(@, t),
              !.wake[t] = 0,
              !.suspended = @ \ {t},
              !.terminated = @ \ {t}]

\* Mutant: the ready bit of an emptied list stays set
RemoveStateKeepsBit(k, t) == RemoveState(k, t)

\* ... followed by taskRESET_READY_PRIORITY of the task's priority
RemoveStateReset(k, t) ==
    LET r == RemoveState(k, t) IN
    [r EXCEPT !.topReady = IF Entries(r.ready[k.prio[t]]) = {} THEN @ \ {k.prio[t]} ELSE @]

\* listREMOVE_ITEM of the event list item, if a list holds it
RemoveEvent(k, t) == [k EXCEPT !.evl = [l \in DOMAIN @ |-> uxListRemove(@[l], t)]]

prvAddTaskToReadyList(k, t) ==
    [k EXCEPT !.ready[k.prio[t]] = vListInsertEnd(@, t), !.topReady = @ \cup {k.prio[t]}]

MakeReady(k, t) == prvAddTaskToReadyList(RemoveState(k, t), t)

\* portYIELD: pend the PendSV exception, taken when no other handler runs
Yield(k) == [k EXCEPT !.pendSV = TRUE]

\* taskYIELD_ANY_CORE_IF_USING_PREEMPTION
YieldFor(k, t) == IF k.prio[t] > k.prio[k.cur] THEN Yield(k) ELSE k

prvResetNextTaskUnblockTime(k) ==
    [k EXCEPT !.next = IF k.delayed = <<>> THEN MaxDelay ELSE k.wake[Head(k.delayed)]]

(***************************************************************************)
(* Creating, deleting and cleaning up tasks                                 *)
(***************************************************************************)
\* The fields prvInitialiseNewTask gives a control block; a task is created
\* at its base priority, holding nothing and not notified
prvInitialiseNewTask(k, t, p) ==
    [k EXCEPT !.prio[t] = p, !.base[t] = p, !.held[t] = 0,
              !.evValue[t] = MaxPriorities - p, !.evInUse[t] = FALSE,
              !.aborted[t] = FALSE, !.nstate[t] = "not_waiting", !.nvalue[t] = 0]

prvAddNewTaskToReadyList(k, t) ==
    YieldFor(prvAddTaskToReadyList([k EXCEPT !.alive = @ \cup {t}], t), t)

xTaskCreate(k, t, p) ==
    prvAddNewTaskToReadyList(prvInitialiseNewTask(k, t, p), t)

\* vTaskDelete: a task that deletes itself is reclaimed by the idle task
vTaskDelete(k, t) ==
    LET r == RemoveEvent(RemoveStateReset(k, t), t) IN
    IF t = k.cur THEN Yield([r EXCEPT !.terminated = @ \cup {t}])
    ELSE prvResetNextTaskUnblockTime([r EXCEPT !.alive = @ \ {t}])

prvCheckTasksWaitingTermination(k) ==
    [k EXCEPT !.alive = @ \ k.terminated, !.terminated = {}]

\* prvIdleTask: one pass of the idle loop
prvIdleTask(k) ==
    LET r == prvCheckTasksWaitingTermination(k) IN
    IF Cardinality(Entries(r.ready[0])) > 1 THEN Yield(r) ELSE r

(***************************************************************************)
(* Delays and the tick                                                      *)
(***************************************************************************)
prvAddCurrentTaskToDelayedList(k, ticks, indefinitely) ==
    LET t == k.cur
        r == RemoveStateReset([k EXCEPT !.aborted[t] = FALSE], t)
        w == (k.tick + ticks) % TickMod
        s == [r EXCEPT !.wake[t] = w]
    IN  CASE ticks = MaxDelay /\ indefinitely -> [r EXCEPT !.suspended = @ \cup {t}]
          [] ~(ticks = MaxDelay /\ indefinitely) /\ w < k.tick ->
                [s EXCEPT !.overflowed = vListInsert(@, t, s.wake)]
          [] OTHER ->
                [s EXCEPT !.delayed = vListInsert(@, t, s.wake),
                          !.next = IF w < @ THEN w ELSE @]

\* xTaskDelayUntil: whether the wake time is still ahead of the tick count
ShouldDelay(now, previous, increment) ==
    LET w == (previous + increment) % TickMod IN
    IF now < previous THEN w < previous /\ w > now
    ELSE w < previous \/ w > now

DelayUntilBody(k, previous, increment) ==
    LET w == (previous + increment) % TickMod IN
    IF ShouldDelay(k.tick, previous, increment)
    THEN prvAddCurrentTaskToDelayedList(k, (w + TickMod - k.tick) % TickMod, FALSE)
    ELSE k

taskSWITCH_DELAYED_LISTS(k) ==
    prvResetNextTaskUnblockTime(
        [k EXCEPT !.delayed = k.overflowed, !.overflowed = k.delayed, !.overflows = (@ + 1) % 2])

\* The delayed tasks whose time has come, in list order
Due(k) == IF k.tick < k.next THEN <<>> ELSE SelectSeq(k.delayed, LAMBDA t : k.wake[t] <= k.tick)

UnblockDue(k) ==
    IF k.tick < k.next THEN k
    ELSE prvResetNextTaskUnblockTime(
             FoldLeft(LAMBDA r, t : MakeReady(RemoveEvent(r, t), t), k, Due(k)))

\* xTaskIncrementTick: the new state, and whether a context switch is due
xTaskIncrementTick(k) ==
    IF k.susp > 0 THEN [k |-> [k EXCEPT !.pendedTicks = @ + 1], switch |-> FALSE]
    ELSE LET a == [k EXCEPT !.tick = (@ + 1) % TickMod]
             b == IF a.tick = 0 THEN taskSWITCH_DELAYED_LISTS(a) ELSE a
         IN  [k |-> UnblockDue(b),
              switch |-> \/ k.yieldPending
                         \/ \E t \in Range(Due(b)) : k.prio[t] > k.prio[k.cur]]

xPortSysTickHandler(k) ==
    LET r == xTaskIncrementTick(k) IN IF r.switch THEN Yield(r.k) ELSE r.k

\* taskSELECT_HIGHEST_PRIORITY_TASK and the rest of vTaskSwitchContext
vTaskSwitchContext(k) ==
    IF k.susp > 0 THEN [k EXCEPT !.yieldPending = TRUE]
    ELSE LET top == CHOOSE p \in k.topReady : \A o \in k.topReady : o <= p
             ring == NextEntry(k.ready[top])
         IN  [k EXCEPT !.yieldPending = FALSE, !.ready[top] = ring, !.cur = Last(ring)]

xPortPendSVHandler(k) == vTaskSwitchContext([k EXCEPT !.pendSV = FALSE])

(***************************************************************************)
(* Suspending the scheduler                                                 *)
(***************************************************************************)
vTaskSuspendAll(k) == [k EXCEPT !.susp = @ + 1]

\* One task of xPendingReadyList becomes ready
ReadyPending(k, t) ==
    LET r == MakeReady(RemoveEvent(k, t), t) IN
    IF k.prio[t] > k.prio[k.cur] THEN [r EXCEPT !.yieldPending = TRUE] ELSE r

\* The ticks counted while the scheduler was suspended are replayed
ReplayTicks(k, n) ==
    FoldLeft(LAMBDA r, i : LET x == xTaskIncrementTick(r) IN
                           IF x.switch THEN [x.k EXCEPT !.yieldPending = TRUE] ELSE x.k,
             k, [i \in 1 .. n |-> i])

xTaskResumeAll(k) ==
    LET a == [k EXCEPT !.susp = @ - 1]
        b == FoldLeft(ReadyPending, a, a.evl[Pending])
        c == IF a.evl[Pending] = <<>> THEN b ELSE prvResetNextTaskUnblockTime(b)
        d == [ReplayTicks(c, c.pendedTicks) EXCEPT !.pendedTicks = 0]
    IN  CASE a.susp > 0 -> a
          [] a.susp = 0 /\ d.yieldPending -> Yield(d)
          [] OTHER -> d

\* xTaskResumeAll, and the yield of a caller that must not go on running
ResumeAllAndYield(k) == Yield(xTaskResumeAll(k))

(***************************************************************************)
(* Suspending, resuming and aborting one task                               *)
(***************************************************************************)
vTaskSuspend(k, t) ==
    LET r == RemoveEvent(RemoveStateReset(k, t), t)
        s == [r EXCEPT !.suspended = @ \cup {t},
                       !.nstate[t] = IF @ = "waiting" THEN "not_waiting" ELSE @]
        u == prvResetNextTaskUnblockTime(s)
    IN  IF t = k.cur THEN Yield(u) ELSE u

prvTaskIsTaskSuspended(k, t) ==
    /\ t \in k.suspended
    /\ EventContainers(k, t) = {}
    /\ k.nstate[t] # "waiting"

vTaskResume(k, t) ==
    IF t # k.cur /\ prvTaskIsTaskSuspended(k, t) THEN YieldFor(MakeReady(k, t), t) ELSE k

xTaskResumeFromISR(k, t) ==
    IF ~prvTaskIsTaskSuspended(k, t) THEN k
    ELSE IF k.susp > 0 THEN [k EXCEPT !.evl[Pending] = Append(@, t)]
    ELSE LET r == MakeReady(k, t) IN
         IF k.prio[t] > k.prio[k.cur] THEN Yield([r EXCEPT !.yieldPending = TRUE]) ELSE r

eTaskGetState(k, t) ==
    IF t = k.cur THEN "eRunning"
    ELSE IF Pending \in EventContainers(k, t) THEN "eReady"
    ELSE IF t \in Range(k.delayed) \cup Range(k.overflowed) THEN "eBlocked"
    ELSE IF t \in k.suspended
         THEN IF EventContainers(k, t) = {} /\ k.nstate[t] # "waiting" THEN "eSuspended" ELSE "eBlocked"
    ELSE IF t \in k.terminated \/ t \notin k.alive THEN "eDeleted"
    ELSE "eReady"

\* vTaskGetInfo of a task found in a list of tasks in state s: the suspended list
\* holds waits without a time limit too, and a task in xPendingReadyList is ready
vTaskGetInfo(k, t, s) ==
    LET waits == s = "eSuspended" /\ (EventContainers(k, t) # {} \/ k.nstate[t] = "waiting") IN
    [task |-> t, priority |-> k.prio[t], base |-> k.base[t],
     state |-> CASE t = k.cur -> "eRunning"
                 [] t # k.cur /\ t \in Range(k.evl[Pending]) -> "eReady"
                 [] t # k.cur /\ t \notin Range(k.evl[Pending]) -> IF waits THEN "eBlocked" ELSE s]

prvListTasksWithinSingleList(k, list, s) == [i \in DOMAIN list |-> vTaskGetInfo(k, list[i], s)]

\* uxTaskGetSystemState: the ready lists from the most urgent down, the delayed
\* lists, the tasks waiting for termination and the suspended ones
uxTaskGetSystemState(k) ==
    LET ready == FlattenSeq([i \in 1 .. MaxPriorities |->
                     SelectSeq(k.ready[MaxPriorities - i], LAMBDA x : x # ListEnd)])
    IN  prvListTasksWithinSingleList(k, ready, "eReady")
        \o prvListTasksWithinSingleList(k, k.delayed \o k.overflowed, "eBlocked")
        \o prvListTasksWithinSingleList(k, SetToSeq(k.terminated), "eDeleted")
        \o prvListTasksWithinSingleList(k, SetToSeq(k.suspended), "eSuspended")

\* A task's name stands for the task; within a list it is searched from the head
prvSearchForNameWithinSingleList(list, name) ==
    IF \E i \in DOMAIN list : list[i] = name THEN name ELSE "NULL"

\* xTaskGetHandle: the ready lists, the delayed lists, the suspended tasks and
\* those waiting for termination; NULL if none has the name
xTaskGetHandle(k, name) ==
    LET lists == {k.ready[p] : p \in Priorities} \cup {k.delayed, k.overflowed} IN
    IF \/ \E list \in lists : prvSearchForNameWithinSingleList(list, name) # "NULL"
       \/ name \in k.suspended \cup k.terminated
    THEN name ELSE "NULL"

\* The body of xTaskAbortDelay, between vTaskSuspendAll and xTaskResumeAll
AbortDelayBody(k, t) ==
    IF eTaskGetState(k, t) # "eBlocked" THEN k
    ELSE LET onEvent == EventContainers(k, t) # {}
             r == MakeReady(RemoveEvent(k, t), t)
         IN  [r EXCEPT !.aborted[t] = @ \/ onEvent,
                       !.yieldPending = @ \/ k.prio[t] > k.prio[k.cur]]

(***************************************************************************)
(* Event lists and timeouts                                                 *)
(***************************************************************************)
vTaskPlaceOnEventList(k, list, ticks) ==
    prvAddCurrentTaskToDelayedList(
        [k EXCEPT !.evl[list] = vListInsert(@, k.cur, k.evValue)], ticks, TRUE)

\* The software timer daemon is the only waiter, so no order is needed
vTaskPlaceOnEventListRestricted(k, list, ticks, indefinitely) ==
    prvAddCurrentTaskToDelayedList(
        [k EXCEPT !.evl[list] = Append(@, k.cur)],
        IF indefinitely THEN MaxDelay ELSE ticks, indefinitely)

\* Event groups keep the flags a waiter asks for in its item value
vTaskPlaceOnUnorderedEventList(k, list, value, ticks) ==
    prvAddCurrentTaskToDelayedList(
        [k EXCEPT !.evl[list] = Append(@, k.cur), !.evInUse[k.cur] = TRUE,
                  !.evFlags[k.cur] = value], ticks, TRUE)

\* xTaskRemoveFromEventList: unblock the first waiter of a list
Woken(k, list) == Head(k.evl[list])

xTaskRemoveFromEventList(k, list) ==
    LET t == Woken(k, list)
        r == RemoveEvent(k, t)
        s == IF k.susp > 0 THEN [r EXCEPT !.evl[Pending] = Append(@, t)] ELSE MakeReady(r, t)
    IN  IF k.prio[t] > k.prio[k.cur] THEN [s EXCEPT !.yieldPending = TRUE] ELSE s

\* ... when the caller is a task, which yields to a more urgent waiter
WakeFirst(k, list) ==
    IF k.evl[list] = <<>> THEN k
    ELSE YieldFor(xTaskRemoveFromEventList(k, list), Woken(k, list))

vTaskRemoveFromUnorderedEventList(k, t, value) ==
    LET r == MakeReady(RemoveEvent([k EXCEPT !.evFlags[t] = value, !.evInUse[t] = TRUE], t), t) IN
    IF k.prio[t] > k.prio[k.cur] THEN [r EXCEPT !.yieldPending = TRUE] ELSE r

uxTaskResetEventItemValue(k) ==
    [k EXCEPT !.evInUse[k.cur] = FALSE, !.evValue[k.cur] = MaxPriorities - k.prio[k.cur]]

vTaskInternalSetTimeOutState(k) == [overflows |-> k.overflows, entered |-> k.tick]

\* xTaskCheckForTimeOut: outcome, remaining ticks and the restarted timeout;
\* the flag of an aborted delay is consumed here
xTaskCheckForTimeOut(k, timeout, ticks) ==
    LET elapsed == (k.tick + TickMod - timeout.entered) % TickMod
        late == \/ k.overflows # timeout.overflows /\ k.tick >= timeout.entered
                \/ elapsed >= ticks
    IN  IF k.aborted[k.cur] THEN [expired |-> TRUE, ticks |-> ticks, timeout |-> timeout]
        ELSE IF ticks = MaxDelay THEN [expired |-> FALSE, ticks |-> ticks, timeout |-> timeout]
        ELSE IF late THEN [expired |-> TRUE, ticks |-> 0, timeout |-> timeout]
        ELSE [expired |-> FALSE, ticks |-> ticks - elapsed,
              timeout |-> vTaskInternalSetTimeOutState(k)]

ConsumeAbort(k) == [k EXCEPT !.aborted[k.cur] = FALSE]

(***************************************************************************)
(* Priorities                                                               *)
(***************************************************************************)
\* A task takes another priority, and its place in the ready lists with it
Reprioritise(k, t, p) ==
    IF InReadyList(k, t)
    THEN prvAddTaskToReadyList([RemoveStateReset(k, t) EXCEPT !.prio[t] = p], t)
    ELSE [k EXCEPT !.prio[t] = p]

SetEventPriority(k, t, p) ==
    IF k.evInUse[t] THEN k ELSE [k EXCEPT !.evValue[t] = MaxPriorities - p]

xTaskPriorityInherit(k, holder) ==
    IF k.prio[holder] < k.prio[k.cur]
    THEN Reprioritise(SetEventPriority(k, holder, k.prio[k.cur]), holder, k.prio[k.cur])
    ELSE k

InheritanceOccurred(k, holder) == k.base[holder] < k.prio[k.cur]

\* xTaskPriorityDisinherit: the last mutex given back restores the base priority
Disinherits(k, t) == k.prio[t] # k.base[t] /\ k.held[t] = 1

\* Mutant: the mutex is given back and the priority kept
DisinheritKeepsPriority(k, t) == [k EXCEPT !.held[t] = @ - 1]

xTaskPriorityDisinherit(k, t) ==
    LET r == [k EXCEPT !.held[t] = @ - 1] IN
    IF Disinherits(k, t)
    THEN [Reprioritise(r, t, k.base[t]) EXCEPT !.evValue[t] = MaxPriorities - k.base[t]]
    ELSE r

\* The bit cleared when the holder leaves its ready list empty is the bit of
\* the priority it has just been given
vTaskPriorityDisinheritAfterTimeout(k, holder, highest) ==
    LET p == IF k.base[holder] < highest THEN highest ELSE k.base[holder]
        r == [SetEventPriority(k, holder, p) EXCEPT !.prio[holder] = p]
        s == RemoveState(r, holder)
        u == IF Entries(s.ready[k.prio[holder]]) = {} THEN [s EXCEPT !.topReady = @ \ {p}] ELSE s
    IN  IF k.prio[holder] = p \/ k.held[holder] # 1 THEN k
        ELSE IF InReadyList(k, holder) THEN prvAddTaskToReadyList(u, holder) ELSE r

vTaskPrioritySet(k, t, new) ==
    LET effective == IF k.base[t] = k.prio[t] \/ new > k.prio[t] THEN new ELSE k.prio[t]
        r == [Reprioritise(SetEventPriority(k, t, new), t, effective) EXCEPT !.base[t] = new]
        yields == IF new > k.base[t] THEN t # k.cur /\ new > k.prio[k.cur] ELSE t = k.cur
    IN  IF k.base[t] = new THEN k ELSE IF yields THEN Yield(r) ELSE r

pvTaskIncrementMutexHeldCount(k) == [k EXCEPT !.held[k.cur] = @ + 1]

\* The critical section of ulTaskGenericNotifyTake and xTaskGenericNotifyWait
\* that announces the wait; the task is not yet off its ready list
MarkWaiting(k) == [k EXCEPT !.nstate[k.cur] = "waiting"]

\* What ulTaskGenericNotifyTake does when it runs again
ulTaskGenericNotifyTake(k, clear) ==
    [k EXCEPT !.nvalue[k.cur] = IF @ = 0 \/ clear THEN 0 ELSE @ - 1,
              !.nstate[k.cur] = "not_waiting"]

\* ... and xTaskGenericNotifyWait, whose callers clear nothing on entry; flags are
\* not told apart, so clearing them on exit sets the value to zero
xTaskGenericNotifyWait(k, clearOnExit) ==
    [k EXCEPT !.nvalue[k.cur] =
                  IF k.nstate[k.cur] = "received" /\ clearOnExit THEN 0 ELSE @,
              !.nstate[k.cur] = "not_waiting"]

\* The value after a notification: eIncrement, eSetValueWithOverwrite, ...
NotifiedValue(k, t, action, value) ==
    CASE action = "eIncrement" -> k.nvalue[t] + 1
      [] action = "eSetValueWithOverwrite" -> value
      [] action = "eSetValueWithoutOverwrite" ->
            IF k.nstate[t] = "received" THEN k.nvalue[t] ELSE value
      [] OTHER -> k.nvalue[t]

Notified(k, t, action, value) ==
    [k EXCEPT !.nstate[t] = "received", !.nvalue[t] = NotifiedValue(k, t, action, value)]

xTaskGenericNotify(k, t, action, value) ==
    LET r == Notified(k, t, action, value) IN
    IF k.nstate[t] = "waiting" THEN YieldFor(MakeReady(r, t), t) ELSE r

xTaskGenericNotifyFromISR(k, t, action, value) ==
    LET r == Notified(k, t, action, value)
        s == IF k.susp > 0 THEN [r EXCEPT !.evl[Pending] = Append(@, t)] ELSE MakeReady(r, t)
    IN  IF k.nstate[t] # "waiting" THEN r
        ELSE IF k.prio[t] > k.prio[k.cur] THEN Yield([s EXCEPT !.yieldPending = TRUE]) ELSE s

vTaskGenericNotifyGiveFromISR(k, t) == xTaskGenericNotifyFromISR(k, t, "eIncrement", 0)

ulTaskGenericNotifyValueClear(k, t) == [k EXCEPT !.nvalue[t] = 0]

xTaskGenericNotifyStateClear(k, t) ==
    [k EXCEPT !.nstate[t] = IF @ = "received" THEN "not_waiting" ELSE @]
=============================================================================
