---------------------------- MODULE KernelQueues ----------------------------
(***************************************************************************)
(* Queues, semaphores and mutexes of the kernel:                            *)
(* lib/freertos-teensy/src/queue.c.  A control block q has                  *)
(*   kind     "queue", "semaphore" or "mutex" (uxQueueType, uxItemSize)     *)
(*   items    the messages, oldest first; a semaphore's tokens              *)
(*   length   uxLength                                                      *)
(*   holder   xMutexHolder; recursion  uxRecursiveCallCount                 *)
(*   txLock, rxLock   cTxLock and cRxLock, Unlocked while not locked        *)
(***************************************************************************)
EXTENDS KernelTasks

NoTask == "NULL"
Token == "token"
Unlocked == 100         \* queueUNLOCKED, -1 in the code; 0 is queueLOCKED_UNMODIFIED

NewQueue(kind, length) ==
    [kind |-> kind, items |-> IF kind = "mutex" THEN <<Token>> ELSE <<>>, length |-> length,
     holder |-> NoTask, recursion |-> 0, txLock |-> Unlocked, rxLock |-> Unlocked]

prvIsQueueEmpty(k, q) == k.q[q].items = <<>>
prvIsQueueFull(k, q) == Len(k.q[q].items) = k.q[q].length

\* xQueueGenericReset of a queue in use: senders may go on, receivers keep waiting
xQueueGenericReset(k, q) ==
    WakeFirst([k EXCEPT !.q[q].items = <<>>, !.q[q].txLock = Unlocked, !.q[q].rxLock = Unlocked],
              SendList(q))

\* prvCopyDataToQueue: where the message goes; giving a mutex disinherits
prvCopyDataToQueue(k, q, item, position) ==
    LET c == k.q[q] IN
    CASE c.kind = "mutex" ->
            LET r == IF c.holder = NoTask THEN k ELSE xTaskPriorityDisinherit(k, c.holder) IN
            [r EXCEPT !.q[q].holder = NoTask, !.q[q].items = Append(@, Token)]
      [] c.kind = "semaphore" -> [k EXCEPT !.q[q].items = Append(@, Token)]
      [] c.kind = "queue" /\ position = "back" -> [k EXCEPT !.q[q].items = Append(@, item)]
      [] c.kind = "queue" /\ position = "front" -> [k EXCEPT !.q[q].items = <<item>> \o @]
      [] OTHER -> [k EXCEPT !.q[q].items = IF @ = <<>> THEN <<item>> ELSE <<item>> \o Tail(@)]

\* Whether giving the mutex lowered the giver, who then yields
GiveYields(k, q) ==
    LET c == k.q[q] IN
    c.kind = "mutex" /\ c.holder # NoTask /\ Disinherits(k, c.holder)

Room(k, q, position) == Len(k.q[q].items) < k.q[q].length \/ position = "overwrite"

\* The successful path of xQueueGenericSend
SendNow(k, q, item, position) ==
    LET r == prvCopyDataToQueue(k, q, item, position) IN
    IF k.evl[ReceiveList(q)] # <<>> THEN WakeFirst(r, ReceiveList(q))
    ELSE IF GiveYields(k, q) THEN Yield(r) ELSE r

\* ... of xQueueReceive
ReceiveNow(k, q) == WakeFirst([k EXCEPT !.q[q].items = Tail(@)], SendList(q))

\* ... of xQueuePeek: the message stays, so the next receiver may have it too
PeekNow(k, q) == WakeFirst(k, ReceiveList(q))

\* Mutant: the token stays in the mutex
TakeKeepsToken(k, q) ==
    IF k.q[q].kind = "mutex" THEN [pvTaskIncrementMutexHeldCount(k) EXCEPT !.q[q].holder = k.cur] ELSE k

\* ... of xQueueSemaphoreTake
TakeNow(k, q) ==
    LET r == [k EXCEPT !.q[q].items = Tail(@)]
        s == IF k.q[q].kind = "mutex"
             THEN [pvTaskIncrementMutexHeldCount(r) EXCEPT !.q[q].holder = k.cur] ELSE r
    IN  WakeFirst(s, SendList(q))

\* prvLockQueue: interrupts go on using the queue but leave its event lists alone
prvLockQueue(k, q) ==
    [k EXCEPT !.q[q].txLock = IF @ = Unlocked THEN 0 ELSE @,
              !.q[q].rxLock = IF @ = Unlocked THEN 0 ELSE @]

IncrementLock(k, lock) == IF lock < Cardinality(k.alive) THEN lock + 1 ELSE lock

\* Wake one waiter for each message posted or removed while the queue was
\* locked; vTaskMissedYield remembers that a more urgent task became ready
WakeMissed(k, list, n) ==
    FoldLeft(LAMBDA r, i : IF r.evl[list] = <<>> THEN r ELSE xTaskRemoveFromEventList(r, list),
             k, [i \in 1 .. n |-> i])

Missed(lock) == IF lock = Unlocked THEN 0 ELSE lock

\* Mutant: what interrupts posted while the queue was locked is forgotten
UnlockWithoutWaking(k, q) == [k EXCEPT !.q[q].txLock = Unlocked]

\* prvUnlockQueue: one critical section for what was posted and a second for
\* what was removed
UnlockTx(k, q) ==
    [WakeMissed(k, ReceiveList(q), Missed(k.q[q].txLock)) EXCEPT !.q[q].txLock = Unlocked]

UnlockRx(k, q) ==
    [WakeMissed(k, SendList(q), Missed(k.q[q].rxLock)) EXCEPT !.q[q].rxLock = Unlocked]

prvGetHighestPriorityOfWaitToReceiveList(k, q) ==
    LET w == k.evl[ReceiveList(q)] IN
    IF w = <<>> THEN 0 ELSE MaxPriorities - k.evValue[Head(w)]

\* A taker that gives up undoes the priority it lent to the holder
TakeTimedOut(k, q, inherited) ==
    IF inherited /\ k.q[q].holder # NoTask
    THEN vTaskPriorityDisinheritAfterTimeout(
             k, k.q[q].holder, prvGetHighestPriorityOfWaitToReceiveList(k, q))
    ELSE k

(***************************************************************************)
(* Calls from interrupts                                                    *)
(***************************************************************************)
\* The interrupt yields when it woke a task more urgent than the current one
WakeFromISR(k, list) ==
    IF k.evl[list] = <<>> THEN k
    ELSE YieldFor(xTaskRemoveFromEventList(k, list), Woken(k, list))

AfterPost(k, q) ==
    IF k.q[q].txLock = Unlocked THEN WakeFromISR(k, ReceiveList(q))
    ELSE [k EXCEPT !.q[q].txLock = IncrementLock(k, @)]

xQueueGenericSendFromISR(k, q, item, position) ==
    IF Room(k, q, position) THEN AfterPost(prvCopyDataToQueue(k, q, item, position), q) ELSE k

xQueueGiveFromISR(k, q) ==
    IF prvIsQueueFull(k, q) THEN k ELSE AfterPost([k EXCEPT !.q[q].items = Append(@, Token)], q)

xQueueReceiveFromISR(k, q) ==
    LET r == [k EXCEPT !.q[q].items = Tail(@)] IN
    IF prvIsQueueEmpty(k, q) THEN k
    ELSE IF k.q[q].rxLock = Unlocked THEN WakeFromISR(r, SendList(q))
    ELSE [r EXCEPT !.q[q].rxLock = IncrementLock(r, @)]
=============================================================================
