------------------------------- MODULE Kernel -------------------------------
(***************************************************************************)
(* Tasks and interrupts on the kernel.  The running task makes any sequence *)
(* of the kernel calls its program allows; a call that may wait is a        *)
(* sequence of steps, each one critical section of the C code or one stretch *)
(* with the scheduler suspended, and interrupts (the tick among them) and    *)
(* the PendSV context switch come in between.                               *)
(***************************************************************************)
EXTENDS KernelQueues

CONSTANTS
    Modes,        \* the workloads, one of which is chosen at the start
    Program,      \* mode -> the calls [task, op, obj, ticks] tasks may make
    Interrupts,   \* mode -> the interrupts [op, obj] that may arrive
    Boot,         \* mode -> [prio, alive, queues] as the application created them
    MaxPended,    \* bound on the ticks that pass while the scheduler is suspended
    MaxNotified   \* bound on a notification value

ASSUME BootAssumption ==
    \A m \in Modes :
        /\ Boot[m].prio \in [Tasks -> Priorities]
        /\ IdleTask \in Boot[m].alive /\ Boot[m].alive \subseteq Tasks
        /\ DOMAIN Boot[m].queues = Queues

VARIABLES
    mode,      \* the workload
    k,         \* the kernel state
    call,      \* task -> the call it is in
    previous   \* task -> pxPreviousWakeTime of its xTaskDelayUntil loop

vars == <<mode, k, call, previous>>

NoCall == [op |-> "none"]
Started(c) == [op |-> c.op, obj |-> c.obj, ticks |-> c.ticks, phase |-> "try", item |-> Token,
               timeout |-> [overflows |-> 0, entered |-> 0], inherited |-> FALSE, timed |-> FALSE]

\* The application has created its tasks and queues; vTaskStartScheduler has
\* added the idle task and started the most urgent one
BootState(b) ==
    LET created == FoldSet(LAMBDA t, r : prvAddTaskToReadyList(r, t),
                     [cur |-> IdleTask, prio |-> b.prio, base |-> b.prio,
                      held |-> [t \in Tasks |-> 0], aborted |-> [t \in Tasks |-> FALSE],
                      nstate |-> [t \in Tasks |-> "not_waiting"], nvalue |-> [t \in Tasks |-> 0],
                      evValue |-> [t \in Tasks |-> MaxPriorities - b.prio[t]],
                      evInUse |-> [t \in Tasks |-> FALSE], evFlags |-> [t \in Tasks |-> NoFlags],
                      ready |-> [p \in Priorities |-> vListInitialise], topReady |-> {},
                      delayed |-> <<>>, overflowed |-> <<>>, suspended |-> {}, terminated |-> {},
                      alive |-> b.alive, wake |-> [t \in Tasks |-> 0],
                      evl |-> [l \in EventLists |-> <<>>], q |-> b.queues,
                      next |-> MaxDelay, tick |-> 0, overflows |-> 0, susp |-> 0,
                      pendedTicks |-> 0, yieldPending |-> FALSE, pendSV |-> FALSE], b.alive)
    IN  vTaskSwitchContext(created)

Init ==
    /\ mode \in Modes
    /\ k = BootState(Boot[mode])
    /\ call = [t \in Tasks |-> NoCall]
    /\ previous = [t \in Tasks |-> 0]

Running(t) == t = k.cur /\ ~k.pendSV
InPhase(t, ph) == Running(t) /\ call[t].op # "none" /\ call[t].phase = ph
Goto(t, ph) == call' = [call EXCEPT ![t].phase = ph]
Return(t) == call' = [call EXCEPT ![t] = NoCall]

(***************************************************************************)
(* Calls that never wait                                                    *)
(***************************************************************************)
Holds(t, q) == k.q[q].holder = t

Simple(c, t) ==
    CASE c.op = "suspend" -> vTaskSuspend(k, c.obj)
      [] c.op = "resume" -> vTaskResume(k, c.obj)
      [] c.op = "priority" -> vTaskPrioritySet(k, c.obj, c.ticks)
      [] c.op = "create" -> xTaskCreate(k, c.obj, c.ticks)
      [] c.op = "delete" -> vTaskDelete(k, c.obj)
      [] c.op = "notify" -> xTaskGenericNotify(k, c.obj, "eIncrement", 0)
      [] c.op = "overwrite" -> xTaskGenericNotify(k, c.obj, "eSetValueWithoutOverwrite", c.ticks)
      [] c.op = "clear" -> xTaskGenericNotifyStateClear(k, c.obj)
      [] c.op = "clearValue" -> ulTaskGenericNotifyValueClear(k, c.obj)
      [] c.op = "reset" -> xQueueGenericReset(k, c.obj)

\* The calls the rules of the kernel permit: a live task as target, a
\* notification value below its bound
Permitted(c, t) ==
    /\ c.op \in {"suspend", "resume", "priority", "notify", "overwrite", "clear", "clearValue"} => c.obj \in k.alive \ k.terminated
    /\ c.op = "notify" => k.nvalue[c.obj] < MaxNotified
    /\ c.op = "create" => c.obj \notin k.alive
    /\ c.op = "delete" => c.obj \in k.alive \ k.terminated

SimpleOps == {"suspend", "resume", "priority", "create", "delete", "notify", "overwrite", "clear", "clearValue", "reset"}

SimpleCall(t) ==
    /\ Running(t) /\ call[t].op = "none"
    /\ \E c \in Program[mode] :
         /\ c.task = t /\ c.op \in SimpleOps /\ Permitted(c, t)
         /\ k' = Simple(c, t)
         \* a deleted task leaves its call; a created one starts at its entry point
         /\ call' = IF c.op \in {"create", "delete"} THEN [call EXCEPT ![c.obj] = NoCall] ELSE call
    /\ UNCHANGED <<mode, previous>>

(***************************************************************************)
(* Delays: vTaskDelay, xTaskDelayUntil, xTaskAbortDelay                     *)
(***************************************************************************)
StartDelay(t) ==
    /\ Running(t) /\ call[t].op = "none"
    /\ \E c \in Program[mode] :
         /\ c.task = t /\ c.op \in {"delay", "delayUntil", "abort", "catchUp"}
         /\ c.op = "abort" => c.obj \in k.alive \ k.terminated
         /\ k' = vTaskSuspendAll(k)
         /\ call' = [call EXCEPT ![t] = [Started(c) EXCEPT !.phase = "suspended"]]
    /\ UNCHANGED <<mode, previous>>

vTaskDelay(t) ==
    /\ InPhase(t, "suspended") /\ call[t].op = "delay"
    /\ k' = ResumeAllAndYield(prvAddCurrentTaskToDelayedList(k, call[t].ticks, FALSE))
    /\ Return(t)
    /\ UNCHANGED <<mode, previous>>

xTaskDelayUntil(t) ==
    /\ InPhase(t, "suspended") /\ call[t].op = "delayUntil"
    /\ k' = ResumeAllAndYield(DelayUntilBody(k, previous[t], call[t].ticks))
    /\ previous' = [previous EXCEPT ![t] = (@ + call[t].ticks) % TickMod]
    /\ Return(t)
    /\ UNCHANGED mode

xTaskAbortDelay(t) ==
    /\ InPhase(t, "suspended") /\ call[t].op = "abort"
    /\ k' = xTaskResumeAll(AbortDelayBody(k, call[t].obj))
    /\ Return(t)
    /\ UNCHANGED <<mode, previous>>

\* The ticks are left to xTaskResumeAll, as if they had come meanwhile
xTaskCatchUpTicks(t) ==
    /\ InPhase(t, "suspended") /\ call[t].op = "catchUp"
    /\ k' = xTaskResumeAll([k EXCEPT !.pendedTicks = @ + call[t].ticks])
    /\ Return(t)
    /\ UNCHANGED <<mode, previous>>

(***************************************************************************)
(* Calls that wait on a queue, semaphore or mutex                           *)
(***************************************************************************)
WaitOps == {"send", "receive", "peek", "take"}

StartWait(t) ==
    /\ Running(t) /\ call[t].op = "none"
    /\ \E c \in Program[mode] :
         /\ c.task = t /\ c.op \in WaitOps
         /\ k.q[c.obj].kind = "mutex" => IF c.op = "take" THEN ~Holds(t, c.obj) ELSE Holds(t, c.obj)
         /\ call' = [call EXCEPT ![t] = Started(c)]
    /\ UNCHANGED <<mode, k, previous>>

Possible(c) == IF c.op = "send" THEN ~prvIsQueueFull(k, c.obj) ELSE ~prvIsQueueEmpty(k, c.obj)

\* The critical section at the head of the loop of a waiting call; the time it
\* was entered matters to a call with a time limit only
Attempt(t, now) ==
    LET c == call[t] IN
    /\ InPhase(t, "try")
    /\ CASE Possible(c) -> k' = now /\ Return(t)
         [] ~Possible(c) /\ c.ticks = 0 -> Return(t) /\ UNCHANGED k
         [] OTHER ->
              /\ call' = [call EXCEPT ![t].phase = "lock", ![t].timed = TRUE,
                              ![t].timeout = IF c.timed \/ c.ticks = MaxDelay THEN @ ELSE vTaskInternalSetTimeOutState(k)]
              /\ UNCHANGED k
    /\ UNCHANGED <<mode, previous>>

xQueueGenericSend(t) == InPhase(t, "try") /\ call[t].op = "send" /\ Attempt(t, SendNow(k, call[t].obj, call[t].item, "back"))
xQueueReceive(t) == InPhase(t, "try") /\ call[t].op = "receive" /\ Attempt(t, ReceiveNow(k, call[t].obj))
xQueuePeek(t) == InPhase(t, "try") /\ call[t].op = "peek" /\ Attempt(t, PeekNow(k, call[t].obj))
xQueueSemaphoreTake(t) == InPhase(t, "try") /\ call[t].op = "take" /\ Attempt(t, TakeNow(k, call[t].obj))

\* vTaskSuspendAll and prvLockQueue
WaitLock(t) ==
    /\ InPhase(t, "lock")
    /\ k' = prvLockQueue(vTaskSuspendAll(k), call[t].obj)
    /\ Goto(t, "decide")
    /\ UNCHANGED <<mode, previous>>

\* The waiting list of the call, and the mutex holder's new priority
Enqueue(c) ==
    LET holder == k.q[c.obj].holder
        r == IF c.op = "take" /\ holder # NoTask THEN xTaskPriorityInherit(k, holder) ELSE k
    IN  vTaskPlaceOnEventList(r, IF c.op = "send" THEN SendList(c.obj) ELSE ReceiveList(c.obj), c.ticks)

\* Timed out, to be waited for, or worth another attempt
WaitDecide(t) ==
    LET c == call[t]
        o == xTaskCheckForTimeOut(k, c.timeout, c.ticks)
        d == [c EXCEPT !.ticks = o.ticks, !.timeout = o.timeout]
        holder == k.q[c.obj].holder
    IN
    /\ InPhase(t, "decide")
    /\ CASE o.expired ->
              /\ k' = ConsumeAbort(k)
              /\ call' = [call EXCEPT ![t] = [d EXCEPT !.phase = "unlock_expired"]]
         [] ~o.expired /\ ~Possible(c) ->
              /\ k' = Enqueue(d)
              /\ call' = [call EXCEPT ![t] =
                    [d EXCEPT !.phase = "unlock_block",
                              !.inherited = IF c.op # "take" \/ k.q[c.obj].kind # "mutex" THEN @
                                            ELSE holder # NoTask /\ InheritanceOccurred(k, holder)]]
         [] OTHER -> k' = k /\ call' = [call EXCEPT ![t] = [d EXCEPT !.phase = "unlock_retry"]]
    /\ UNCHANGED <<mode, previous>>

\* The two critical sections of prvUnlockQueue
WaitUnlock(t) ==
    /\ \E ph \in {"block", "retry", "expired"} :
         \/ InPhase(t, "unlock_" \o ph) /\ k' = UnlockTx(k, call[t].obj) /\ Goto(t, "unlockRx_" \o ph)
         \/ InPhase(t, "unlockRx_" \o ph) /\ k' = UnlockRx(k, call[t].obj) /\ Goto(t, "resume_" \o ph)
    /\ UNCHANGED <<mode, previous>>

\* A send whose time is over fails at once
WaitResume(t) ==
    /\ \/ InPhase(t, "resume_block") /\ k' = ResumeAllAndYield(k) /\ Goto(t, "try")
       \/ InPhase(t, "resume_retry") /\ k' = xTaskResumeAll(k) /\ Goto(t, "try")
       \/ /\ InPhase(t, "resume_expired") /\ k' = xTaskResumeAll(k)
          /\ IF call[t].op = "send" THEN Return(t) ELSE Goto(t, "expired")
    /\ UNCHANGED <<mode, previous>>

\* A receive, peek or take whose time is over fails unless the object became
\* available meanwhile
WaitExpired(t) ==
    /\ InPhase(t, "expired")
    /\ IF Possible(call[t]) THEN Goto(t, "try")
       ELSE IF call[t].inherited THEN Goto(t, "disinherit") ELSE Return(t)
    /\ UNCHANGED <<mode, k, previous>>

WaitDisinherit(t) ==
    /\ InPhase(t, "disinherit")
    /\ k' = TakeTimedOut(k, call[t].obj, TRUE)
    /\ Return(t)
    /\ UNCHANGED <<mode, previous>>

(***************************************************************************)
(* Waiting for a notification                                               *)
(***************************************************************************)
NotifyOps == {"notifyTake", "notifyWait"}

\* Whether the call would have to wait
NotNotified(op, t) == IF op = "notifyTake" THEN k.nvalue[t] = 0 ELSE k.nstate[t] # "received"

StartNotifyWait(t) ==
    /\ Running(t) /\ call[t].op = "none"
    /\ \E c \in Program[mode] :
         /\ c.task = t /\ c.op \in NotifyOps
         /\ LET wait == NotNotified(c.op, t) /\ c.ticks > 0 IN
            /\ k' = IF wait THEN vTaskSuspendAll(k) ELSE k
            /\ call' = [call EXCEPT ![t] = [Started(c) EXCEPT !.phase = IF wait THEN "suspended" ELSE "notified"]]
    /\ UNCHANGED <<mode, previous>>

\* The critical section that decides whether to block; an interrupt may notify
\* the task between it and the move to the delayed list
NotifyMark(t) ==
    LET block == NotNotified(call[t].op, t) IN
    /\ InPhase(t, "suspended") /\ call[t].op \in NotifyOps
    /\ k' = IF block THEN MarkWaiting(k) ELSE k
    /\ Goto(t, IF block THEN "block" ELSE "pass")
    /\ UNCHANGED <<mode, previous>>

\* prvAddCurrentTaskToDelayedList and xTaskResumeAll, or xTaskResumeAll alone
NotifyBlock(t) ==
    /\ \/ InPhase(t, "block") /\ k' = ResumeAllAndYield(prvAddCurrentTaskToDelayedList(k, call[t].ticks, TRUE))
       \/ InPhase(t, "pass") /\ k' = xTaskResumeAll(k)
    /\ Goto(t, "notified")
    /\ UNCHANGED <<mode, previous>>

NotifyReturn(t) ==
    /\ InPhase(t, "notified")
    /\ k' = IF call[t].op = "notifyTake" THEN ulTaskGenericNotifyTake(k, call[t].obj)
            ELSE xTaskGenericNotifyWait(k, call[t].obj)
    /\ Return(t)
    /\ UNCHANGED <<mode, previous>>

(***************************************************************************)
(* Exceptions and the idle task                                             *)
(***************************************************************************)
SysTick ==
    /\ k.susp > 0 => k.pendedTicks < MaxPended
    /\ k' = xPortSysTickHandler(k)
    /\ UNCHANGED <<mode, call, previous>>

PendSV ==
    /\ k.pendSV
    /\ k' = xPortPendSVHandler(k)
    /\ UNCHANGED <<mode, call, previous>>

Interrupt ==
    /\ \E i \in Interrupts[mode] :
         \/ i.op = "give" /\ k' = xQueueGiveFromISR(k, i.obj)
         \/ i.op = "send" /\ k' = xQueueGenericSendFromISR(k, i.obj, Token, "back")
         \/ i.op = "receive" /\ k' = xQueueReceiveFromISR(k, i.obj)
         \/ /\ i.op = "notify" /\ k.nvalue[i.obj] < MaxNotified
            /\ i.obj \in k.alive \ k.terminated
            /\ k' = vTaskGenericNotifyGiveFromISR(k, i.obj)
         \/ /\ i.op = "overwrite" /\ i.obj \in k.alive \ k.terminated
            /\ k' = xTaskGenericNotifyFromISR(k, i.obj, "eSetValueWithoutOverwrite", 1)
         \/ i.op = "resume" /\ i.obj \in k.alive \ k.terminated /\ k' = xTaskResumeFromISR(k, i.obj)
    /\ UNCHANGED <<mode, call, previous>>

Idle ==
    /\ Running(IdleTask)
    /\ k' = prvIdleTask(k)
    /\ UNCHANGED <<mode, call, previous>>

TaskStep(t) ==
    \/ SimpleCall(t) \/ StartDelay(t) \/ vTaskDelay(t) \/ xTaskDelayUntil(t) \/ xTaskAbortDelay(t)
    \/ xTaskCatchUpTicks(t)
    \/ StartWait(t) \/ xQueueGenericSend(t) \/ xQueueReceive(t) \/ xQueuePeek(t)
    \/ xQueueSemaphoreTake(t) \/ WaitLock(t) \/ WaitDecide(t) \/ WaitUnlock(t) \/ WaitResume(t)
    \/ WaitExpired(t) \/ WaitDisinherit(t) \/ StartNotifyWait(t)
    \/ NotifyMark(t) \/ NotifyBlock(t) \/ NotifyReturn(t)

Next == SysTick \/ PendSV \/ Interrupt \/ Idle \/ \E t \in Tasks : TaskStep(t)

Spec == Init /\ [][Next]_vars

(***************************************************************************)
(* Properties                                                               *)
(***************************************************************************)
\* The lists of the kernel state hold tasks, and every live task is in exactly
\* one state list: a task lost from all lists would never run again.
KernelTypeOK ==
    /\ k.cur \in k.alive /\ k.tick \in Ticks /\ k.next \in Ticks /\ k.susp \in 0 .. 1
    /\ k.prio \in [Tasks -> Priorities] /\ k.base \in [Tasks -> Priorities]
    /\ \A t \in k.alive :
         Cardinality({p \in Priorities : t \in Entries(k.ready[p])})
         + Len(SelectSeq(k.delayed \o k.overflowed, LAMBDA x : x = t))
         + Cardinality({s \in {1} : t \in k.suspended})
         + Cardinality({s \in {1} : t \in k.terminated}) = 1
    /\ \A t \in k.alive : Cardinality(EventContainers(k, t)) <= 1

\* uxTopReadyPriority has a bit for exactly the priorities whose ready list has
\* a task, so taskSELECT_HIGHEST_PRIORITY_TASK finds one in the list it picks.
ReadyBitmapExact ==
    /\ k.topReady = {p \in Priorities : Entries(k.ready[p]) # {}}
    /\ \A p \in Priorities : \A t \in Entries(k.ready[p]) : k.prio[t] = p

\* Whenever tasks run and no switch is pending, the running task is one of the
\* most urgent ready tasks: no call leaves a more urgent task ready unnoticed.
MostUrgentRuns ==
    (k.susp = 0 /\ ~k.pendSV) =>
        /\ InReadyList(k, k.cur)
        /\ \A t \in ReadyTasks(k) : k.prio[t] <= k.prio[k.cur]

\* A priority above the base priority is only ever on loan for a mutex that the
\* task still holds (xTaskPriorityDisinherit, ...AfterTimeout).
LoanedPriorityIsReturned ==
    \A t \in k.alive :
        /\ k.prio[t] >= k.base[t]
        /\ k.prio[t] > k.base[t] => k.held[t] > 0
        /\ k.held[t] = Cardinality({q \in Queues : Holds(t, q)})

\* While a task waits for a mutex its holder is at least as urgent, so no task
\* of intermediate priority can keep the mutex from being given back.
NoPriorityInversion ==
    k.susp = 0 =>
        \A q \in Queues : \A w \in Range(k.evl[ReceiveList(q)]) :
            k.q[q].holder # NoTask => k.prio[k.q[q].holder] >= k.prio[w]

\* A message or token left in an unlocked queue while tasks wait for one has
\* already woken a task that has yet to collect it.
Collecting(q, ops) ==
    {t \in k.alive : /\ call[t].op \in ops /\ call[t].obj = q
                    /\ t \in ReadyTasks(k) \cup Range(k.evl[Pending])}

NoLostWakeup ==
    \A q \in Queues :
        /\ (k.q[q].txLock = Unlocked /\ ~prvIsQueueEmpty(k, q) /\ k.evl[ReceiveList(q)] # <<>>) =>
               Collecting(q, {"receive", "peek", "take"}) # {}
        /\ (k.q[q].rxLock = Unlocked /\ ~prvIsQueueFull(k, q) /\ k.evl[SendList(q)] # <<>>) =>
               Collecting(q, {"send"}) # {}

\* No delayed task is overdue, and the next unblock time never lies beyond the
\* first wake time: across overflow of the tick count and replayed ticks.
NobodyOverdue ==
    /\ \A i \in DOMAIN k.delayed : k.wake[k.delayed[i]] > k.tick /\ k.next <= k.wake[k.delayed[i]]
    /\ \A i \in DOMAIN k.overflowed : k.wake[k.overflowed[i]] < k.tick

\* A task that waits for a notification has none: one that came at any moment
\* of the call, from a task or an interrupt, has made it ready.
NotifiedTasksRun ==
    \A t \in k.alive :
        /\ (k.nstate[t] = "received" /\ call[t].op \in NotifyOps) =>
               t \in ReadyTasks(k) \cup Range(k.evl[Pending]) \cup k.suspended
        /\ (k.nstate[t] = "waiting" /\ k.susp = 0) =>
               /\ t \notin Range(k.evl[Pending])
               /\ call[t].op = "notifyTake" => k.nvalue[t] = 0

\* uxTaskGetSystemState, called at any moment, reports every task that still has
\* a control block exactly once (so an array of uxTaskGetNumberOfTasks entries is
\* large enough) and in the state eTaskGetState would give it, tasks woken by an
\* interrupt while the scheduler was suspended included; and xTaskGetHandle finds
\* exactly those tasks by name.
SystemStateIsExact ==
    LET s == uxTaskGetSystemState(k) IN
    /\ Len(s) = Cardinality(k.alive)
    /\ {s[i].task : i \in DOMAIN s} = k.alive
    /\ \A i \in DOMAIN s : s[i].state = eTaskGetState(k, s[i].task)
    /\ \A t \in Tasks : xTaskGetHandle(k, t) = IF t \in k.alive THEN t ELSE "NULL"

(***************************************************************************)
(* The kernel's lists say who runs: every task is in exactly one list, the *)
(* bitmap names the non-empty ready lists, the most urgent ready task runs, *)
(* nobody due is left delayed, and the state a debugger or the status line *)
(* is told is that state.                                                  *)
(***************************************************************************)
SchedulerIsExact ==
    KernelTypeOK /\ ReadyBitmapExact /\ MostUrgentRuns /\ NobodyOverdue /\ SystemStateIsExact

(***************************************************************************)
(* The holder of a mutex runs at least as urgently as those who wait for it, *)
(* and returns the priority it was lent with the last mutex it holds, also *)
(* when a waiter times out.                                                *)
(***************************************************************************)
PriorityIsLent == LoanedPriorityIsReturned /\ NoPriorityInversion
=============================================================================
