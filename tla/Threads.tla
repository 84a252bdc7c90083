---------------------------------- MODULE Threads ----------------------------------
EXTENDS Naturals, Sequences, FiniteSets

(***************************************************************************)
(* The condition variable of the C++ run time on FreeRTOS                   *)
(* (lib/cpp/src/thread.cpp, condition_variable.h, bits/gthr-default.h):     *)
(* every waiter appends its task to the variable's list, releases the       *)
(* caller's mutex and waits for a task notification; a signal pops the      *)
(* first task of the list and notifies it.                                  *)
(*                                                                         *)
(* The callers are the standard ones: consumers wait in a predicate loop    *)
(* for an item, with or without a time limit; a producer adds an item under *)
(* the mutex and signals after releasing it.                                *)
(***************************************************************************)

CONSTANTS
    Consumers, Producers,   \* the threads
    MaxItems                \* bound: items produced in a behaviour

ASSUME CondAssumption == MaxItems \in Nat /\ Consumers \cap Producers = {}

VARIABLES
    timed,      \* the consumers call wait_until rather than wait
    owner,      \* the thread that holds the mutex, or "none"
    waiting,    \* cv_task_list::_que
    notified,   \* [thread |-> value of its last notification slot]
    at,         \* [thread |-> where it is]
    taken,      \* [thread |-> value its last ulTaskNotifyTakeIndexed returned]
    items,      \* what the consumers wait for
    produced    \* items produced so far

condVars == <<timed, owner, waiting, notified, at, taken, items, produced>>

Threads == Consumers \cup Producers

CondInit ==
    /\ timed \in BOOLEAN
    /\ owner = "none"
    /\ waiting = <<>>
    /\ notified = [t \in Threads |-> 0]
    /\ at = [t \in Threads |-> "idle"]
    /\ taken = [t \in Threads |-> 1]
    /\ items = 0
    /\ produced = 0

Goto(t, where) == at' = [at EXCEPT ![t] = where]

----------------------------------------------------------------------------
\* The mutex

StartLock(t) ==
    /\ at[t] = "idle"
    /\ t \in Producers => produced < MaxItems
    /\ Goto(t, "locking")
    /\ UNCHANGED <<timed, owner, waiting, notified, taken, items, produced>>

__gthread_mutex_lock(t, from, to) ==
    /\ at[t] = from
    /\ owner = "none"
    /\ owner' = t
    /\ Goto(t, to)
    /\ UNCHANGED <<timed, waiting, notified, taken, items, produced>>

\* trylock and timedlock give up; pdUS_TO_TICKS(t) + 2 only bounds the wait
__gthread_mutex_timedlock(t) ==
    /\ at[t] = "locking"
    /\ t \in Producers
    /\ owner # "none"
    /\ Goto(t, "idle")
    /\ UNCHANGED <<timed, owner, waiting, notified, taken, items, produced>>

----------------------------------------------------------------------------
\* A waiting consumer

\* the predicate holds: take the item, release the mutex
TakeItem(t) ==
    /\ at[t] = "checking"
    /\ items > 0
    /\ items' = items - 1
    /\ owner' = "none"
    /\ Goto(t, "idle")
    /\ UNCHANGED <<timed, waiting, notified, taken, produced>>

\* Plausible bug: a list that already has a waiter is not extended
CondPushOnce(t) ==
    /\ at[t] = "checking"
    /\ items = 0
    /\ waiting' = IF waiting = <<>> THEN <<t>> ELSE waiting
    /\ Goto(t, "queued")
    /\ UNCHANGED <<timed, owner, notified, taken, items, produced>>

CondPush(t) ==
    /\ at[t] = "checking"
    /\ items = 0
    /\ waiting' = Append(waiting, t)
    /\ Goto(t, "queued")
    /\ UNCHANGED <<timed, owner, notified, taken, items, produced>>

ReleaseForWait(t) ==
    /\ at[t] = "queued"
    /\ owner' = "none"
    /\ Goto(t, "blocked")
    /\ UNCHANGED <<timed, waiting, notified, taken, items, produced>>

\* ulTaskNotifyTakeIndexed(..., pdTRUE, ...) reads the value and clears it
Woken(t) ==
    /\ at[t] = "blocked"
    /\ notified[t] > 0
    /\ taken' = [taken EXCEPT ![t] = notified[t]]
    /\ notified' = [notified EXCEPT ![t] = 0]
    /\ Goto(t, "woken")
    /\ UNCHANGED <<timed, owner, waiting, items, produced>>

WaitTimeout(t) ==
    /\ timed
    /\ at[t] = "blocked"
    /\ notified[t] = 0
    /\ Goto(t, "late")
    /\ UNCHANGED <<timed, owner, waiting, notified, taken, items, produced>>

\* what is left of the first i entries without t's, and of the whole list (list::remove)
RemoveStep(ts, t, left, i) ==
    IF i = 0 THEN <<>> ELSE IF ts[i] = t THEN left[i - 1] ELSE Append(left[i - 1], ts[i])

removeUpTo(ts, t) == LET left[i \in 0 .. Len(ts)] == RemoveStep(ts, t, left, i) IN left

remove(ts, t) == removeUpTo(ts, t)[Len(ts)]

\* after the time limit: every entry of the thread is dropped, and wait_until
\* evaluates the predicate once more
CondRemove(t) ==
    /\ at[t] = "expired"
    /\ waiting' = remove(waiting, t)
    /\ items' = IF items > 0 THEN items - 1 ELSE items
    /\ owner' = "none"
    /\ Goto(t, "idle")
    /\ UNCHANGED <<timed, notified, taken, produced>>

__gthread_cond_wait(t) ==
    \/ CondPush(t)
    \/ ReleaseForWait(t)
    \/ Woken(t)
    \/ __gthread_mutex_lock(t, "woken", "checking")

__gthread_cond_timedwait(t) ==
    \/ WaitTimeout(t)
    \/ __gthread_mutex_lock(t, "late", "expired")
    \/ CondRemove(t)

----------------------------------------------------------------------------
\* A signalling producer

AddItem(t) ==
    /\ at[t] = "adding"
    /\ items' = items + 1
    /\ produced' = produced + 1
    /\ owner' = "none"
    /\ Goto(t, "signal")
    /\ UNCHANGED <<timed, waiting, notified, taken>>

\* the threads a signal notifies, of the list ts
Signalled(ts) == IF ts = <<>> THEN {} ELSE {Head(ts)}

\* the list is popped and the task notified under the list's semaphore
__gthread_cond_signal(t) ==
    /\ at[t] = "signal"
    /\ waiting' = IF waiting = <<>> THEN waiting ELSE Tail(waiting)
    /\ notified' = [x \in Threads |->
                      IF x \in Signalled(waiting) THEN notified[x] + 1 ELSE notified[x]]
    /\ Goto(t, "idle")
    /\ UNCHANGED <<timed, owner, taken, items, produced>>

__gthread_cond_broadcast(t) ==
    /\ at[t] = "signal"
    /\ waiting' = <<>>
    /\ notified' = [x \in Threads |-> notified[x] + Cardinality({i \in DOMAIN waiting : waiting[i] = x})]
    /\ Goto(t, "idle")
    /\ UNCHANGED <<timed, owner, taken, items, produced>>

----------------------------------------------------------------------------
ConsumerStep(t) ==
    \/ __gthread_mutex_lock(t, "locking", "checking")
    \/ TakeItem(t)
    \/ __gthread_cond_wait(t)
    \/ __gthread_cond_timedwait(t)

ProducerStep(t) ==
    \/ __gthread_mutex_lock(t, "locking", "adding")
    \/ AddItem(t)
    \/ __gthread_cond_signal(t)
    \/ __gthread_cond_broadcast(t)

CondNext ==
    \/ \E t \in Threads : StartLock(t)
    \/ \E t \in Consumers : ConsumerStep(t)
    \/ \E t \in Producers : ProducerStep(t) \/ __gthread_mutex_timedlock(t)

CondSpec == CondInit /\ [][CondNext]_condVars

(***************************************************************************)
(* A thread that has been unlinked from a condition variable's list has been *)
(* notified: a thread that waits without a pending notification is still in *)
(* the list, so a later signal can reach it (push before the mutex is        *)
(* released, pop and notify under one lock, remove by the thread itself).    *)
(***************************************************************************)
WaitersAreListed ==
    \A t \in Consumers :
        at[t] \in {"queued", "blocked"} /\ notified[t] = 0 => \E i \in DOMAIN waiting : waiting[i] = t

(***************************************************************************)
(* Between threads that use only the untimed wait, no item is left while a  *)
(* consumer sleeps: a wait that begins while an item is being added is      *)
(* reached by its signal.                                                   *)
(***************************************************************************)
NoItemIsSlept ==
    \A t \in Consumers :
        (~timed /\ items > 0 /\ at[t] = "blocked") ~> (items = 0 \/ at[t] # "blocked")

-----------------------------------------------------------------------------
(***************************************************************************)
(* The life of a std::thread on FreeRTOS (lib/cpp/src/thread_gthread.h,     *)
(* thread.cpp, gthr_key.cpp): a handle object holds a task and an event     *)
(* group; the new task copies the handle from the address it was created    *)
(* at, and reports "started" and "join" through the group. A user creates   *)
(* threads, moves their handles and joins or detaches them; a task that has *)
(* deleted itself is freed when the idle task runs.                         *)
(***************************************************************************)

CONSTANTS
    Slots,        \* addresses of std::thread objects
    MaxThreads    \* bound: threads created in a behaviour

ASSUME ThreadAssumption == MaxThreads \in Nat

VARIABLES
    handle,    \* [slot |-> [task, ev, owner]], 0 is nullptr
    task,      \* [thread |-> state of its task]
    source,    \* [thread |-> slot whose address was passed to the task]
    local,     \* [thread |-> thread named by the copy the task made]
    tls,       \* threads whose local storage names their event group
    groups,    \* event groups that exist
    bits,      \* [thread |-> bits of its event group]
    value,     \* threads with a thread-specific value (Key::_specValue)
    user       \* what the user is doing: [op, from, to]

threadVars == <<handle, task, source, local, tls, groups, bits, value, user>>

Gens == 1..MaxThreads
NoHandle == [task |-> 0, ev |-> 0, owner |-> FALSE]
NoOp == [op |-> "idle", from |-> "none", to |-> "none"]
Stopped == {"none", "deleted", "freed"}

ThreadInit ==
    /\ handle = [s \in Slots |-> NoHandle]
    /\ task = [g \in Gens |-> "none"]
    /\ source = [g \in Gens |-> "none"]
    /\ local = [g \in Gens |-> 0]
    /\ tls = {}
    /\ groups = {}
    /\ bits = [g \in Gens |-> {}]
    /\ value = {}
    /\ user = NoOp

----------------------------------------------------------------------------
\* The user's thread

\* create_thread: group, then task, local storage and ownership in one
\* critical section
create_thread(s) ==
    /\ user = NoOp
    /\ handle[s] = NoHandle
    /\ \E g \in Gens :
         /\ task[g] = "none"
         /\ \A h \in 1..(g - 1) : task[h] # "none"
         /\ handle' = [handle EXCEPT ![s] = [task |-> g, ev |-> g, owner |-> TRUE]]
         /\ task' = [task EXCEPT ![g] = "fresh"]
         /\ source' = [source EXCEPT ![g] = s]
         /\ tls' = tls \cup {g}
         /\ groups' = groups \cup {g}
    /\ UNCHANGED <<local, bits, value, user>>

Begin(op, s, d) ==
    /\ user = NoOp
    /\ handle[s] # NoHandle
    /\ user' = [op |-> op, from |-> s, to |-> d]
    /\ UNCHANGED <<handle, task, source, local, tls, groups, bits, value>>

\* Plausible bug: the moved-from handle's task may not have started yet; join
\* returns when the task has started
StartedOrNot(g) == TRUE

\* wait_for_start, and the wait of join
Started(g) == "started" \in bits[g]
Joined(g) == {"started", "join"} \subseteq bits[g]

\* the move constructor: wait for the owner's task, then move
Move ==
    /\ user.op = "move"
    /\ handle[user.from].owner => Started(handle[user.from].ev)
    /\ handle' = [handle EXCEPT ![user.to] = handle[user.from], ![user.from] = NoHandle]
    /\ user' = NoOp
    /\ UNCHANGED <<task, source, local, tls, groups, bits, value>>

join ==
    /\ user.op = "join"
    /\ Joined(handle[user.from].ev)
    /\ user' = [user EXCEPT !.op = "assign"]
    /\ UNCHANGED <<handle, task, source, local, tls, groups, bits, value>>

\* eTaskGetState: of a task that was freed it reads recycled memory
MayReadDeleted(g) == task[g] \in {"deleted", "freed"}
MayReadAlive(g) == task[g] # "deleted"

\* the local storage after detach has cleared it
StorageCleared(g) == tls \ {g}

detach ==
    /\ user.op = "detach"
    /\ LET g == handle[user.from].task
       IN  /\ Started(handle[user.from].ev)
           /\ \/ /\ MayReadDeleted(g)
                 /\ UNCHANGED <<handle, tls, groups>>
              \/ /\ MayReadAlive(g)
                 /\ tls' = StorageCleared(g)
                 /\ groups' = groups \ {handle[user.from].ev}
                 /\ handle' = [handle EXCEPT ![user.from].owner = FALSE]
    /\ user' = [user EXCEPT !.op = "assign"]
    /\ UNCHANGED <<task, source, local, bits, value>>

\* the groups left when an owner is assigned over
GroupsAfterAssign(g) == groups \ {g}

\* operator= from an invalid handle, at the end of join and detach: an owner
\* deletes a task that still exists, and the group
Assign ==
    /\ user.op = "assign"
    /\ LET h == handle[user.from]
       IN  IF h.owner
           THEN /\ groups' = GroupsAfterAssign(h.ev)
                /\ \/ MayReadDeleted(h.task) /\ task' = task
                   \/ MayReadAlive(h.task)
                      /\ task' = IF task[h.task] = "freed" THEN task
                                 ELSE [task EXCEPT ![h.task] = "deleted"]
           ELSE UNCHANGED <<groups, task>>
    /\ handle' = [handle EXCEPT ![user.from] = NoHandle]
    /\ user' = NoOp
    /\ UNCHANGED <<source, local, tls, bits, value>>

UserStep == Move \/ join \/ detach \/ Assign

----------------------------------------------------------------------------
\* The thread's own task: __execute_native_thread_routine

SetTask(g, from, to) ==
    /\ task[g] = from
    /\ task' = [task EXCEPT ![g] = to]

CopyHandle(g) ==
    /\ SetTask(g, "fresh", "copied")
    /\ local' = [local EXCEPT ![g] = handle[source[g]].task]
    /\ UNCHANGED <<handle, source, tls, groups, bits, value, user>>

notify_started(g) ==
    /\ SetTask(g, "copied", "running")
    /\ bits' = IF local[g] = 0 THEN bits ELSE [bits EXCEPT ![local[g]] = @ \cup {"started"}]
    /\ UNCHANGED <<handle, source, local, tls, groups, value, user>>

freertos_gthread_setspecific(g) ==
    /\ task[g] = "running"
    /\ g \notin value
    /\ value' = value \cup {g}
    /\ UNCHANGED <<handle, task, source, local, tls, groups, bits, user>>

Return(g) ==
    /\ SetTask(g, "running", "returned")
    /\ UNCHANGED <<handle, source, local, tls, groups, bits, value, user>>

\* the thread-specific values left after Key::CallDestructor
ValuesLeft(g) == value \ {g}

CallDestructor(g) ==
    /\ SetTask(g, "returned", "cleaned")
    /\ value' = ValuesLeft(g)
    /\ UNCHANGED <<handle, source, local, tls, groups, bits, user>>

\* the group is taken from the local storage: detach may have deleted it
notify_joined(g) ==
    /\ SetTask(g, "cleaned", "joined")
    /\ bits' = IF g \in tls THEN [bits EXCEPT ![g] = @ \cup {"join"}] ELSE bits
    /\ UNCHANGED <<handle, source, local, tls, groups, value, user>>

DeleteSelf(g) ==
    /\ SetTask(g, "joined", "deleted")
    /\ UNCHANGED <<handle, source, local, tls, groups, bits, value, user>>

\* the idle task returns the memory of a deleted task
IdleFrees(g) ==
    /\ SetTask(g, "deleted", "freed")
    /\ UNCHANGED <<handle, source, local, tls, groups, bits, value, user>>

TaskStep(g) ==
    \/ CopyHandle(g)
    \/ notify_started(g)
    \/ Return(g)
    \/ CallDestructor(g)
    \/ notify_joined(g)
    \/ DeleteSelf(g)
    \/ IdleFrees(g)

ThreadWork == UserStep \/ \E g \in Gens : TaskStep(g)

ThreadNext ==
    \/ \E s \in Slots : create_thread(s)
    \/ \E s, d \in Slots : handle[d] = NoHandle /\ Begin("move", s, d)
    \/ \E s \in Slots, op \in {"join", "detach"} : Begin(op, s, s)
    \/ UserStep
    \/ \E g \in Gens : TaskStep(g) \/ freertos_gthread_setspecific(g)

ThreadSpec == ThreadInit /\ [][ThreadNext]_threadVars

(***************************************************************************)
(* The copy a task makes of its handle names the task itself: a handle is   *)
(* not moved away from the address the task reads before the task has made  *)
(* its copy (wait_for_start in the move operations).                        *)
(***************************************************************************)
CopiedHandleIsOwn == \A g \in Gens : task[g] \notin {"none", "fresh"} => local[g] = g

(***************************************************************************)
(* The group named by a task's local storage exists for as long as the task *)
(* may set its join bit, whoever detaches or joins it.                      *)
(***************************************************************************)
StorageNamesLiveGroup == \A g \in tls : task[g] \notin {"joined", "deleted", "freed"} => g \in groups

(***************************************************************************)
(* No event group outlives both its handle and its task, in every order of  *)
(* the end of the thread, join, detach and the assignment that follows.     *)
(***************************************************************************)
GroupsAreReclaimed ==
    \A g \in groups : task[g] \in Stopped => \E s \in Slots : handle[s].ev = g

(***************************************************************************)
(* When join has returned the thread's function has run to its end and its  *)
(* thread-specific value has been destroyed, so no later task at the same   *)
(* address inherits it.                                                     *)
(***************************************************************************)
JoinedThreadIsDone ==
    \A s \in Slots :
        user.op = "assign" /\ user.from = s /\ handle[s].owner =>
            /\ task[handle[s].task] \in {"joined", "deleted", "freed"}
            /\ handle[s].task \notin value

(***************************************************************************)
(* A join ends: the bits are set before the task deletes itself, and stay.  *)
(***************************************************************************)
JoinReturns == user.op = "join" ~> user.op # "join"

(***************************************************************************)
(* Whatever is moved, joined, detached or destroyed, a thread handle, its   *)
(* storage and its event group belong together, each group is reclaimed, a  *)
(* joined thread is done, and a thread that waits for a condition variable  *)
(* can be reached by a signal (lib/cpp/src/thread.cpp, thread_gthread.h).   *)
(***************************************************************************)
ThreadsAreSound ==
    /\ [](CopiedHandleIsOwn /\ StorageNamesLiveGroup /\ GroupsAreReclaimed /\ JoinedThreadIsDone)
    /\ []WaitersAreListed
=============================================================================
