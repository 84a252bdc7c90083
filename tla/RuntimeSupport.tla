------------------------------ MODULE RuntimeSupport ------------------------------
EXTENDS Sequences, Integers

(***************************************************************************)
(* Initialisation of function-local statics (portable/runtime_support.cpp   *)
(* __cxa_guard_acquire, _abort, _release) under one recursive mutex         *)
(* (queue.c xQueueTakeMutexRecursive, xQueueGiveMutexRecursive). Before the *)
(* scheduler starts only the main program runs, and no mutex is taken.      *)
(***************************************************************************)

CONSTANTS
    GuardTasks, MainTask,   \* the tasks, and the program that starts the scheduler
    Statics,                \* objects with a guard, numbers: n's constructor may need m > n
    MaxAborts               \* bound: constructors that throw

ASSUME GuardAssumption ==
    MainTask \in GuardTasks /\ "none" \notin GuardTasks /\ Statics \subseteq Int /\ MaxAborts \in Nat

VARIABLES
    started,    \* the scheduler runs
    inited,     \* statics whose initialized_ byte is set
    rholder,    \* xMutexHolder, "none" when free
    rcount,     \* uxRecursiveCallCount
    building,   \* [task |-> statics whose constructor it is in, innermost last]
    gpc,        \* [task |-> step of __cxa_guard_acquire or _release it is at]
    want,       \* [task |-> static it asked for]
    built,      \* [static |-> constructors completed]
    aborts

guardVars == <<started, inited, rholder, rcount, building, gpc, want, built, aborts>>

GuardInit ==
    /\ started = FALSE
    /\ inited = {}
    /\ rholder = "none"
    /\ rcount = 0
    /\ building = [t \in GuardTasks |-> <<>>]
    /\ gpc = [t \in GuardTasks |-> "run"]
    /\ want = [t \in GuardTasks |-> 0]
    /\ built = [s \in Statics |-> 0]
    /\ aborts = 0

StartScheduler ==
    /\ ~started
    /\ gpc[MainTask] = "run" /\ building[MainTask] = <<>>
    /\ started' = TRUE
    /\ UNCHANGED <<inited, rholder, rcount, building, gpc, want, built, aborts>>

MayRun(t) == started \/ t = MainTask

\* the first test of the byte, outside the mutex
AcquireTest(t, s) ==
    /\ MayRun(t)
    /\ gpc[t] = "run"
    /\ \A i \in DOMAIN building[t] : building[t][i] < s
    /\ s \notin inited
    /\ gpc' = [gpc EXCEPT ![t] = "take"]
    /\ want' = [want EXCEPT ![t] = s]
    /\ UNCHANGED <<started, inited, rholder, rcount, building, built, aborts>>

xQueueTakeMutexRecursive(t) ==
    /\ rholder \in {"none", t}
    /\ rholder' = t
    /\ rcount' = rcount + 1

xQueueGiveMutexRecursive(t) ==
    /\ rcount' = IF rholder = t THEN rcount - 1 ELSE rcount
    /\ rholder' = IF rholder = t /\ rcount = 1 THEN "none" ELSE rholder

AcquireTake(t) ==
    /\ gpc[t] = "take"
    /\ IF started THEN xQueueTakeMutexRecursive(t) ELSE UNCHANGED <<rholder, rcount>>
    /\ gpc' = [gpc EXCEPT ![t] = "retest"]
    /\ UNCHANGED <<started, inited, building, want, built, aborts>>

GiveGuard(t) == IF started THEN xQueueGiveMutexRecursive(t) ELSE UNCHANGED <<rholder, rcount>>

AlreadyDone(s) == s \in inited

AcquireRetest(t) ==
    /\ gpc[t] = "retest"
    /\ IF AlreadyDone(want[t])
       THEN GiveGuard(t) /\ building' = building
       ELSE building' = [building EXCEPT ![t] = Append(@, want[t])] /\ UNCHANGED <<rholder, rcount>>
    /\ gpc' = [gpc EXCEPT ![t] = "run"]
    /\ UNCHANGED <<started, inited, want, built, aborts>>

\* the constructor has returned: set the byte, then release the mutex
ReleaseStore(t) ==
    /\ gpc[t] = "run" /\ building[t] # <<>>
    /\ LET s == building[t][Len(building[t])]
       IN  /\ inited' = inited \cup {s}
           /\ built' = [built EXCEPT ![s] = @ + 1]
    /\ building' = [building EXCEPT ![t] = SubSeq(@, 1, Len(@) - 1)]
    /\ gpc' = [gpc EXCEPT ![t] = "give"]
    /\ UNCHANGED <<started, rholder, rcount, want, aborts>>

__cxa_guard_abort(t) ==
    /\ gpc[t] = "give"
    /\ GiveGuard(t)
    /\ gpc' = [gpc EXCEPT ![t] = "run"]
    /\ UNCHANGED <<started, inited, building, want, built, aborts>>

\* the constructor has thrown
Throw(t) ==
    /\ aborts < MaxAborts
    /\ gpc[t] = "run" /\ building[t] # <<>>
    /\ building' = [building EXCEPT ![t] = SubSeq(@, 1, Len(@) - 1)]
    /\ gpc' = [gpc EXCEPT ![t] = "give"]
    /\ aborts' = aborts + 1
    /\ UNCHANGED <<started, inited, rholder, rcount, want, built>>

GuardStep(t) ==
    \/ AcquireTake(t)
    \/ AcquireRetest(t)
    \/ ReleaseStore(t)
    \/ __cxa_guard_abort(t)

GuardNext ==
    \/ StartScheduler
    \/ \E t \in GuardTasks : GuardStep(t) \/ Throw(t)
    \/ \E t \in GuardTasks, s \in Statics : AcquireTest(t, s)

GuardSpec == GuardInit /\ [][GuardNext]_guardVars

(***************************************************************************)
(* A static is constructed once, by one task, whichever tasks meet at its   *)
(* guard before and after the scheduler starts.                             *)
(***************************************************************************)
OneConstructor ==
    \A s \in Statics :
        /\ built[s] <= 1
        /\ \A t, u \in GuardTasks : \A i \in DOMAIN building[t], j \in DOMAIN building[u] :
             building[t][i] = s /\ building[u][j] = s => t = u /\ s \notin inited

(***************************************************************************)
(* The guard mutex is held exactly by the task that is in a constructor (or *)
(* on its way in or out), to its nesting depth, and free when nobody is.    *)
(***************************************************************************)
GuardIsBalanced ==
    started =>
        \A t \in GuardTasks :
            LET depth == Len(building[t]) + (IF gpc[t] \in {"retest", "give"} THEN 1 ELSE 0)
            IN  IF rholder = t THEN rcount = depth /\ depth > 0 ELSE depth = 0

(***************************************************************************)
(* A task that asks for a static gets past its guard: another task's        *)
(* constructor returns the mutex, also when it throws.                      *)
(***************************************************************************)
GuardIsPassed == \A t \in GuardTasks : gpc[t] = "take" ~> gpc[t] = "run"

-----------------------------------------------------------------------------
(***************************************************************************)
(* The interrupt mask of the port and the heap behind it:                   *)
(* vPortEnterCritical, vPortExitCritical (portable/port.c), __malloc_lock,  *)
(* __malloc_unlock (portable/runtime_support.cpp) and _sbrk_r               *)
(* (portable/teensy_common.cpp). The tasks switch only while BASEPRI is 0.  *)
(***************************************************************************)

CONSTANTS
    HeapTasks,
    MaxDepth,       \* bound: nested calls of one task
    HeapLimit,      \* _estack - 8192, with _ebss at 0
    Increments      \* what sbrk is asked for

ASSUME HeapAssumption == MaxDepth \in Nat /\ HeapLimit \in Nat \ {0} /\ Increments \subseteq Int

VARIABLES
    runs,        \* the task the CPU executes
    calls,       \* [task |-> critical sections and heap calls it is in, innermost last]
    masked,      \* BASEPRI is raised
    critical,    \* uxCriticalNesting
    nesting,     \* g_malloc_lock.nesting
    saved,       \* g_malloc_lock.basepri
    heapEnd,     \* _g_current_heap_end
    failed       \* vApplicationMallocFailedHook has stopped the system

heapVars == <<runs, calls, masked, critical, nesting, saved, heapEnd, failed>>

HeapInit ==
    /\ runs \in HeapTasks
    /\ calls = [t \in HeapTasks |-> <<>>]
    /\ masked = FALSE
    /\ critical = 0
    /\ nesting = 0
    /\ saved = TRUE
    /\ heapEnd = 0
    /\ failed = FALSE

Top(t) == IF calls[t] = <<>> THEN "none" ELSE calls[t][Len(calls[t])]
Enter(kind) ==
    /\ ~failed
    /\ Len(calls[runs]) < MaxDepth
    /\ calls' = [calls EXCEPT ![runs] = Append(@, kind)]
Leave(kind) ==
    /\ ~failed
    /\ Top(runs) = kind
    /\ calls' = [calls EXCEPT ![runs] = SubSeq(@, 1, Len(@) - 1)]

\* PendSV: another task
Switch ==
    /\ ~masked /\ ~failed
    /\ runs' \in HeapTasks \ {runs}
    /\ UNCHANGED <<calls, masked, critical, nesting, saved, heapEnd, failed>>

\* the heap's own code contains no critical section
vPortEnterCritical ==
    /\ Enter("critical")
    /\ Top(runs) # "heap"
    /\ masked' = TRUE
    /\ critical' = critical + 1
    /\ UNCHANGED <<runs, nesting, saved, heapEnd, failed>>

vPortExitCritical ==
    /\ Leave("critical")
    /\ critical' = critical - 1
    /\ masked' = IF critical = 1 THEN FALSE ELSE masked
    /\ UNCHANGED <<runs, nesting, saved, heapEnd, failed>>

RestoreEachTime(level) == saved

\* the mask saved by a lock that found BASEPRI at was
SavedMask(was) == IF nesting = 0 THEN was ELSE saved
\* the mask after an unlock that leaves the nesting at level
RestoredMask(level) == IF level = 0 THEN saved ELSE masked

__malloc_lock ==
    /\ Enter("heap")
    /\ masked' = TRUE
    /\ nesting' = nesting + 1
    /\ saved' = SavedMask(masked)
    /\ UNCHANGED <<runs, critical, heapEnd, failed>>

__malloc_unlock ==
    /\ Leave("heap")
    /\ nesting' = nesting - 1
    /\ masked' = RestoredMask(nesting - 1)
    /\ UNCHANGED <<runs, critical, saved, heapEnd, failed>>

Room(end) == end < HeapLimit /\ end >= 0

\* the allocator asks for memory, or returns some
_sbrk_r(incr) ==
    /\ ~failed
    /\ Top(runs) = "heap"
    /\ IF Room(heapEnd + incr)
       THEN heapEnd' = heapEnd + incr /\ failed' = failed
       ELSE heapEnd' = heapEnd /\ failed' = TRUE
    /\ UNCHANGED <<runs, calls, masked, critical, nesting, saved>>

\* error_blink(2) suspends the scheduler and never returns
Blink == failed /\ UNCHANGED heapVars

HeapNext ==
    \/ Switch
    \/ vPortEnterCritical
    \/ vPortExitCritical
    \/ __malloc_lock
    \/ __malloc_unlock
    \/ \E i \in Increments : _sbrk_r(i)
    \/ Blink

HeapSpec == HeapInit /\ [][HeapNext]_heapVars

InHeap(t) == \E i \in DOMAIN calls[t] : calls[t][i] = "heap"

(***************************************************************************)
(* The allocator is exclusive: no task is inside it while another is, nor   *)
(* does its data reach past the limit of the heap.                          *)
(***************************************************************************)
HeapIsExclusive ==
    /\ \A t, u \in HeapTasks : InHeap(t) /\ InHeap(u) => t = u
    /\ heapEnd >= 0 /\ heapEnd < HeapLimit

(***************************************************************************)
(* BASEPRI is raised exactly inside critical sections and heap calls, of    *)
(* the running task, however they nest: the outermost call restores what it *)
(* found.                                                                   *)
(***************************************************************************)
MaskIsBalanced ==
    /\ masked <=> calls[runs] # <<>>
    /\ \A t \in HeapTasks \ {runs} : calls[t] = <<>>

-----------------------------------------------------------------------------
(***************************************************************************)
(* freertos::get_us (portable/teensy_4.cpp): the microsecond clock read     *)
(* from a millisecond count and a cycle count that the tick hook updates,   *)
(* without masking interrupts. Time is in cycles, PeriodCycles to a tick; a *)
(* tick that is due is handled up to MaxLate cycles later.                  *)
(***************************************************************************)

CONSTANTS
    PeriodCycles,
    MaxLate,      \* longest time a tick is held off by masked interrupts
    MaxCycles     \* bound on the time of a behaviour

ASSUME ClockAssumption == PeriodCycles \in Nat \ {0} /\ MaxLate \in 0..(PeriodCycles - 1) /\ MaxCycles \in Nat

VARIABLES
    cyc,       \* ARM_DWT_CYCCNT
    millis,    \* systick_millis_count
    scc,       \* systick_cycle_count
    step,      \* where the reader is
    armed,     \* its exclusive reservation is intact
    seen,      \* what it has read: [smc, scc, cyc]
    read       \* the last value returned, and the time it was read at

clockVars == <<cyc, millis, scc, step, armed, seen, read>>

ClockInit ==
    /\ cyc = 0 /\ millis = 0 /\ scc = 0
    /\ step = "idle" /\ armed = FALSE
    /\ seen = [smc |-> 0, scc |-> 0, cyc |-> 0]
    /\ read = [us |-> 0, at |-> 0]

Due == (millis + 1) * PeriodCycles

Elapse ==
    /\ cyc < MaxCycles
    /\ cyc < Due + MaxLate
    /\ cyc' = cyc + 1
    /\ UNCHANGED <<millis, scc, step, armed, seen, read>>

\* an exception clears the reservation
vApplicationTickHook ==
    /\ cyc >= Due
    /\ scc' = cyc
    /\ millis' = millis + 1
    /\ armed' = FALSE
    /\ UNCHANGED <<cyc, step, seen, read>>

Ldrex ==
    /\ step \in {"idle", "again"}
    /\ step' = "millis" /\ armed' = TRUE
    /\ UNCHANGED <<cyc, millis, scc, seen, read>>

ReadMillis ==
    /\ step = "millis" /\ step' = "cycles"
    /\ seen' = [seen EXCEPT !.smc = millis]
    /\ UNCHANGED <<cyc, millis, scc, armed, read>>

ReadCycles ==
    /\ step = "cycles" /\ step' = "now"
    /\ seen' = [seen EXCEPT !.scc = scc]
    /\ UNCHANGED <<cyc, millis, scc, armed, read>>

ReadNow ==
    /\ step = "now" /\ step' = "check"
    /\ seen' = [seen EXCEPT !.cyc = cyc]
    /\ UNCHANGED <<cyc, millis, scc, armed, read>>

StoreSucceeds == armed

Strex ==
    /\ step = "check"
    /\ armed' = FALSE
    /\ IF StoreSucceeds
       THEN /\ read' = [us |-> seen.smc * PeriodCycles + (seen.cyc - seen.scc), at |-> seen.cyc]
            /\ step' = "idle"
       ELSE read' = read /\ step' = "again"
    /\ UNCHANGED <<cyc, millis, scc, seen>>

ClockRead == Ldrex \/ ReadMillis \/ ReadCycles \/ ReadNow \/ Strex

ClockNext == Elapse \/ vApplicationTickHook \/ ClockRead

ClockSpec == ClockInit /\ [][ClockNext]_clockVars

(***************************************************************************)
(* A reading mixes no values of two ticks: it is at most the true time, and *)
(* behind it by no more than a tick can be held off.                        *)
(***************************************************************************)
ClockErrorIsBounded == read.us <= read.at /\ read.us + MaxLate >= read.at

(***************************************************************************)
(* What the C and C++ libraries ask of the port holds: a static has one    *)
(* constructor at a time and is built once, the recursive mutex behind it is *)
(* balanced, the heap is never entered twice and interrupts are masked     *)
(* exactly meanwhile, and the run-time clock errs by less than its lag.    *)
(***************************************************************************)
LibraryPortIsSound ==
    OneConstructor /\ GuardIsBalanced /\ HeapIsExclusive /\ MaskIsBalanced /\ ClockErrorIsBounded
=============================================================================
