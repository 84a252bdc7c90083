------------------------------ MODULE MCKernel ------------------------------
(***************************************************************************)
(* Small workloads on the kernel: a mutex with timeouts, a queue and a       *)
(* semaphore shared with interrupts, task management, notifications, event  *)
(* groups, stream and message buffers, and software timers.                 *)
(***************************************************************************)
EXTENDS KernelServices

CONSTANTS hi, mid, lo, idle, m1, m2, once, again,
    MaxLag      \* bound on the ticks that pass while the daemon has work to do

MCTasks == {hi, mid, lo, idle}
MCPrio == hi :> 3 @@ mid :> 2 @@ lo :> 1 @@ idle :> 0
C(t, o, x, n) == [task |-> t, op |-> o, obj |-> x, ticks |-> n]

\* g_commitMutex and g_goalMutex: one mutex, three tasks, finite waits
MutexProgram ==
    {C(t, "send", m1, 0) : t \in {hi, mid, lo}} \cup
    {C(hi, "take", m1, 1), C(mid, "take", m1, MaxDelay), C(lo, "take", m1, 0),
     C(hi, "delay", hi, 1), C(mid, "delay", mid, 1)}

\* A queue of one message written by a task and an interrupt
QueueProgram ==
    {C(hi, "send", m1, 1), C(hi, "delay", hi, 1), C(lo, "receive", m1, MaxDelay), C(lo, "peek", m1, MaxDelay),
     C(lo, "reset", m1, 0)}

\* g_commitDone: a semaphore two tasks wait for and an interrupt gives
SemaphoreProgram ==
    {C(hi, "take", m2, 1), C(mid, "take", m2, TickMod - 1), C(lo, "send", m2, 0)}

TaskProgram ==
    {C(lo, "suspend", mid, 0), C(lo, "resume", mid, 0), C(mid, "suspend", mid, 0),
     C(lo, "priority", mid, 3), C(mid, "priority", mid, 1), C(lo, "abort", hi, 0),
     C(hi, "delayUntil", hi, 2), C(mid, "take", m2, TickMod - 1),
     C(lo, "delete", mid, 0), C(mid, "delete", mid, 0), C(lo, "create", mid, 2), C(lo, "delay", lo, 1),
     C(lo, "catchUp", lo, 2)}

NotifyProgram ==
    {C(hi, "notifyTake", x, 2) : x \in BOOLEAN} \cup
    {C(mid, "notifyWait", TRUE, 1), C(mid, "suspend", mid, 0),
     C(lo, "notify", hi, 0), C(lo, "overwrite", mid, 1), C(lo, "clear", mid, 0), C(lo, "clearValue", hi, 0),
     C(lo, "resume", mid, 0)}

E(b, all, clear) == [bits |-> b, all |-> all, clear |-> clear, set |-> {}]

\* Waiters for any and for all of two bits, with and without clearing
EventProgram ==
    {C(hi, "evWait", E({1, 2}, TRUE, TRUE), MaxDelay), C(hi, "evWait", E({1}, FALSE, FALSE), 1),
     C(mid, "evWait", E({1}, TRUE, FALSE), 2), C(lo, "evSet", E({1}, TRUE, TRUE), 0),
     C(lo, "evSet", E({2}, TRUE, TRUE), 0), C(lo, "evClear", E({2}, TRUE, TRUE), 0)}

\* A rendezvous of two tasks while a third sleeps now and then
Sync(b) == [bits |-> {1, 2}, all |-> TRUE, clear |-> TRUE, set |-> {b}]
SyncProgram ==
    {C(hi, "evSync", Sync(1), MaxDelay), C(lo, "evSync", Sync(2), MaxDelay), C(mid, "delay", mid, 1)}

StreamProgram ==
    {C(hi, "sbReceive", 2, MaxDelay), C(lo, "sbSend", 2, MaxDelay), C(hi, "delay", hi, 1)}

MessageProgram ==
    {C(hi, "sbReceive", 2, 1), C(lo, "sbSend", 1, 0), C(lo, "sbSend", 2, 0), C(lo, "sbReset", lo, 0)}

\* The buffer filled, or emptied, by an interrupt
FeedProgram == {C(hi, "sbReceive", 2, MaxDelay), C(lo, "delay", lo, 1), C(lo, "sbTrigger", 2, 0), C(lo, "sbTrigger", 0, 0)}
DrainProgram == {C(hi, "sbSend", 2, MaxDelay), C(hi, "delay", hi, 1)}

\* Event bits set and cleared by interrupts and a task, through the daemon
F(i) == [id |-> i, bits |-> {1}]
PendProgram ==
    {C(mid, "daemon", mid, 0), C(hi, "evWait", E({1}, TRUE, TRUE), MaxDelay), C(lo, "pend", F("setBits"), 0)}

\* A one-shot and an auto-reload timer commanded by a task and an interrupt
T(i, timer, v) == [id |-> i, timer |-> timer, value |-> v]
TimerProgram ==
    {C(hi, "daemon", hi, 0), C(lo, "timer", T("period", once, 1), 0), C(lo, "timer", T("start", again, 0), 0),
     C(lo, "reload", T("reload", once, TRUE), 0)}

MCModes == {"mutex", "queue", "semaphore", "tasks", "notify", "events", "sync", "stream", "message", "timers",
            "feed", "drain", "pend"}
MCBuffer == [m \in MCModes |-> IF m \in {"message", "drain"} THEN "message" ELSE "stream"]
MCPeriod == once :> 2 @@ again :> 1
I(o, x) == [op |-> o, obj |-> x]

MCProgram ==
    [mutex |-> MutexProgram, queue |-> QueueProgram,
     semaphore |-> SemaphoreProgram, tasks |-> TaskProgram, notify |-> NotifyProgram,
     events |-> EventProgram, sync |-> SyncProgram, stream |-> StreamProgram, message |-> MessageProgram,
     timers |-> TimerProgram, feed |-> FeedProgram, drain |-> DrainProgram, pend |-> PendProgram]
MCInterrupts ==
    [mutex |-> {}, queue |-> {I("send", m1), I("receive", m1)},
     semaphore |-> {I("give", m2)}, tasks |-> {I("resume", mid)}, notify |-> {I("notify", hi), I("overwrite", mid)},
     events |-> {}, sync |-> {}, stream |-> {}, message |-> {},
     timers |-> {I("timer", T("stop", again, 0))},
     feed |-> {I("sbSend", 1), I("sbSend", 2)}, drain |-> {I("sbReceive", 2), I("sbReset", 0)},
     pend |-> {I("pend", F("setBits")), I("pend", F("clearBits"))}]

Mutexes == m1 :> NewQueue("mutex", 1) @@ m2 :> NewQueue("mutex", 1)
QueueAndSemaphore == m1 :> NewQueue("queue", 1) @@ m2 :> NewQueue("semaphore", 1)
MCBoot ==
    [m \in MCModes |->
        [prio |-> MCPrio, alive |-> {idle} \cup {c.task : c \in MCProgram[m]},
         queues |-> IF m = "mutex" THEN Mutexes ELSE QueueAndSemaphore]]

(***************************************************************************)
(* History: for each timer the ticks since its start was issued or since    *)
(* its last expiry was due; the rounds of the rendezvous, counted modulo 4; *)
(* and the ticks that passed since the daemon last had nothing to do.       *)
(***************************************************************************)
VARIABLES age, rounds, lag

history == <<age, rounds, lag>>
mcVars == <<allVars, history>>

DaemonTasks == {t \in Tasks : call[t].op = "daemon"}
Applying == {t \in DaemonTasks : call[t].phase = "tmApply" /\ call'[t].phase # "tmApply"}
Expiring == Applying \cup
    {t \in DaemonTasks : /\ call[t].phase \in {"tmSuspended", "tmExpired"} /\ call'[t].phase # call[t].phase
                         /\ k'.cur = k.cur}
NewTicks == (k'.tick + TickMod - k.tick) % TickMod
Commanded(i) == \E t \in Applying : call[t].item.timer = i

\* How long timer i has been running when a step of the daemon handles it
RunningFor(i) ==
    IF ~Commanded(i) THEN age[i]
    ELSE LET c == call[CHOOSE t \in Applying : TRUE].item IN
         IF c.id = "start" THEN (k.tick + TickMod - c.value) % TickMod ELSE 0

Fired(i) == IF Expiring = {} THEN 0 ELSE tm'.calls[i]

AgeNext ==
    [i \in Timers |-> IF i \notin tm'.active THEN 0
                      ELSE RunningFor(i) - Fired(i) * tm'.period[i] + NewTicks]

RoundsNext ==
    [t \in Tasks |-> IF /\ call[t].op = "evSync" /\ call'[t].op = "none" THEN (rounds[t] + 1) % 4
                     ELSE rounds[t]]

DaemonBlocked(r, t) == t \in Range(r.delayed) \cup Range(r.overflowed) \cup r.suspended
InFlight == k.q[TimerQueue].items # <<>> \/ \E t \in Tasks : call[t].op = "send" /\ call[t].obj = TimerQueue

MCInit ==
    /\ ServiceInit
    /\ age = [i \in Timers |-> 0] /\ rounds = [t \in Tasks |-> 0] /\ lag = 0

Recorded ==
    /\ age' = AgeNext /\ rounds' = RoundsNext
    /\ lag' = IF \E t \in DaemonTasks : ~DaemonBlocked(k, t) \/ InFlight THEN lag + NewTicks ELSE 0
    /\ lag' <= MaxLag

MCNext == ServiceNext /\ Recorded

MCSpec == MCInit /\ [][MCNext]_mcVars

\* A timer's callback is never called before its period has passed since it was
\* started or last expired, whatever list the overflow of the tick count had
\* put it in and however late the daemon got its command.
TimerNeverEarly == [][\A i \in Timers : Fired(i) > 0 => RunningFor(i) >= Fired(i) * tm.period[i]]_mcVars

\* When the daemon has gone to wait, it wakes no later than the expiry of every
\* active timer.
DaemonWakesInTime ==
    \A t \in DaemonTasks : (DaemonBlocked(k, t) /\ k.susp = 0) =>
        \A i \in tm.active :
            /\ t \notin k.suspended
            /\ (k.wake[t] + TickMod - k.tick) % TickMod <= tm.period[i] - age[i]

\* No task of a rendezvous gets a round ahead of another (xEventGroupSync).
RendezvousAligned ==
    \A t, u \in Tasks :
        (mode = "sync" /\ {t, u} \subseteq {hi, lo}) => (rounds[t] + 4 - rounds[u]) % 4 # 2

\* The mutex as its users see it
Stage(t) ==
    IF Holds(t, m1) THEN "owner"
    ELSE IF call[t].op = "take" /\ call[t].obj = m1 THEN "asking" ELSE "out"

Lock == INSTANCE KernelLock WITH Clients <- Tasks, stage <- [t \in Tasks |-> Stage(t)]

\* The mutex, with its timeouts, inheritance, locked queues and interrupted
\* calls, is the abstract lock: one owner at a time, taken only by a task that
\* asks for it, released only by its owner.
MutexIsLock == Lock!LockSpec

(***************************************************************************)
(* No wakeup, notification, event bit, byte or timer expiry is lost, taken *)
(* twice or early, in any interleaving of tasks, tick and interrupts.      *)
(***************************************************************************)
NothingIsLost ==
    /\ [](NoLostWakeup /\ NotifiedTasksRun /\ NoMissedEvent /\ RendezvousAligned)
    /\ [](StreamFifo /\ NoStuckStream)
    /\ []DaemonWakesInTime /\ TimerNeverEarly
=============================================================================
