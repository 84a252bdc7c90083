--------------------------- MODULE KernelServices ---------------------------
(***************************************************************************)
(* The kernel services built on tasks and queues: event groups, stream and   *)
(* message buffers, and software timers with their daemon task               *)
(* (event_groups.c, stream_buffer.c, timers.c).                              *)
(***************************************************************************)
EXTENDS Kernel

CONSTANTS
    BufferCells,   \* xLength of the stream buffer
    Trigger,       \* xTriggerLevelBytes the buffer is created with
    Buffer,        \* mode -> the kind of buffer, "stream" or "message"
    Timers,        \* software timers
    TimerQueue,    \* xTimerQueue
    Period,        \* timer -> its period in ticks when created
    AutoReload     \* the timers created with tmrSTATUS_IS_AUTORELOAD

VARIABLES
    bits,     \* uxEventBits
    sb,       \* the stream buffer
    tm        \* the timer lists

svars == <<bits, sb, tm>>
allVars == <<vars, svars>>

NewBuffer(kind) ==
    [kind |-> kind, head |-> 0, tail |-> 0, cells |-> [i \in 0 .. BufferCells - 1 |-> 0],
     toReceive |-> NoTask, toSend |-> NoTask, trigger |-> Trigger,
     sent |-> 0, received |-> 0]        \* next byte written and next byte expected, mod 4

\* prvCheckForValidListAndQueue and prvInitialiseNewTimer
NewTimers ==
    [current |-> <<>>, overflowed |-> <<>>, active |-> {}, reload |-> AutoReload, last |-> 0, period |-> Period,
     expiry |-> [i \in Timers |-> 0],
     calls |-> [i \in Timers |-> 0]]      \* callbacks made by the latest step

ServiceInit ==
    /\ Init
    /\ bits = {}
    /\ sb = NewBuffer(Buffer[mode])
    /\ tm = NewTimers

(***************************************************************************)
(* Event groups.  c.obj is [bits, all, clear] of the call.                  *)
(***************************************************************************)
prvTestWaitCondition(current, wanted, all) ==
    IF all THEN wanted \subseteq current ELSE wanted \cap current # {}

GroupOps == {"evWait", "evSet", "evSync"}

StartGroupCall(t) ==
    /\ Running(t) /\ call[t].op = "none"
    /\ \E c \in Program[mode] :
         /\ c.task = t /\ c.op \in GroupOps
         /\ k' = vTaskSuspendAll(k)
         /\ call' = [call EXCEPT ![t] = [Started(c) EXCEPT !.phase = "suspended"]]
    /\ UNCHANGED <<mode, previous, svars>>

WaitFlags(c) == [bits |-> c.obj.bits, all |-> c.obj.all, clear |-> c.obj.clear, unblocked |-> FALSE]

\* Already satisfied, not to be waited for, or in the list of waiters
xEventGroupWaitBits(t) ==
    LET c == call[t]
        met == prvTestWaitCondition(bits, c.obj.bits, c.obj.all)
    IN
    /\ InPhase(t, "suspended") /\ c.op = "evWait"
    /\ bits' = IF met /\ c.obj.clear THEN bits \ c.obj.bits ELSE bits
    /\ IF met \/ c.ticks = 0
       THEN k' = xTaskResumeAll(k) /\ Return(t)
       ELSE /\ k' = ResumeAllAndYield(vTaskPlaceOnUnorderedEventList(k, GroupList, WaitFlags(c), c.ticks))
            /\ Goto(t, "evWoken")
    /\ UNCHANGED <<mode, previous, sb, tm>>

\* xEventGroupSetBits: every waiter is tested against the bits before any of
\* them is cleared on behalf of a waiter that asked for it
Satisfied(r, b) ==
    SelectSeq(r.evl[GroupList],
              LAMBDA t : prvTestWaitCondition(b, r.evFlags[t].bits, r.evFlags[t].all))

ClearedBy(r, b) ==
    UNION {r.evFlags[t].bits : t \in {x \in Range(Satisfied(r, b)) : r.evFlags[x].clear}}

SetBitsWake(r, b) ==
    FoldLeft(LAMBDA a, t : vTaskRemoveFromUnorderedEventList(a, t, [a.evFlags[t] EXCEPT !.unblocked = TRUE]),
             r, Satisfied(r, b))

xEventGroupSetBits(t) ==
    LET b == bits \cup call[t].obj.bits IN
    /\ InPhase(t, "suspended") /\ call[t].op = "evSet"
    /\ k' = xTaskResumeAll(SetBitsWake(k, b))
    /\ bits' = b \ ClearedBy(k, b)
    /\ Return(t)
    /\ UNCHANGED <<mode, previous, sb, tm>>

\* xEventGroupSync: c.obj.set is this task's bit, c.obj.bits the rendezvous
xEventGroupSync(t) ==
    LET c == call[t]
        b == bits \cup c.obj.set
        after == b \ ClearedBy(k, b)
        r == SetBitsWake(k, b)
        met == c.obj.bits \subseteq b
    IN
    /\ InPhase(t, "suspended") /\ c.op = "evSync"
    /\ bits' = IF met THEN after \ c.obj.bits ELSE after
    /\ IF met \/ c.ticks = 0 THEN k' = xTaskResumeAll(r) /\ Return(t)
       ELSE /\ k' = ResumeAllAndYield(vTaskPlaceOnUnorderedEventList(r, GroupList, WaitFlags(c), c.ticks))
            /\ Goto(t, "evWoken")
    /\ UNCHANGED <<mode, previous, sb, tm>>

\* Woken by the bits, or by the timeout, in which case they are tested once more
GroupWoken(t) ==
    LET c == call[t]
        met == prvTestWaitCondition(bits, c.obj.bits, c.obj.all)
    IN
    /\ InPhase(t, "evWoken")
    /\ k' = [uxTaskResetEventItemValue(k) EXCEPT !.evFlags[t] = NoFlags]
    /\ bits' = IF ~k.evFlags[t].unblocked /\ met /\ c.obj.clear THEN bits \ c.obj.bits ELSE bits
    /\ Return(t)
    /\ UNCHANGED <<mode, previous, sb, tm>>

xEventGroupClearBits(t) ==
    /\ Running(t) /\ call[t].op = "none"
    /\ \E c \in Program[mode] : c.task = t /\ c.op = "evClear" /\ bits' = bits \ c.obj.bits
    /\ UNCHANGED <<mode, k, call, previous, sb, tm>>

(***************************************************************************)
(* Stream and message buffers                                               *)
(***************************************************************************)
prvBytesIn(b) == (BufferCells + b.head - b.tail) % BufferCells
prvBytesInBuffer == prvBytesIn(sb)
xStreamBufferSpacesAvailable == (BufferCells + sb.tail - sb.head + BufferCells - 1) % BufferCells
LengthCells == IF sb.kind = "message" THEN 1 ELSE 0    \* sbBYTES_TO_STORE_MESSAGE_LENGTH

\* Cells needed, capped for a stream by what the buffer can ever hold
RequiredSpace(n) ==
    IF sb.kind = "message" THEN n + 1 ELSE IF n > BufferCells - 1 THEN BufferCells - 1 ELSE n

\* prvWriteBytesToBuffer: values v[1..n] from cell `from` on, wrapping
WriteCells(cells, from, n, v) ==
    [i \in DOMAIN cells |->
        LET d == (BufferCells + i - from) % BufferCells IN IF d < n THEN v[d + 1] ELSE cells[i]]

\* prvWriteMessageToBuffer: a message entirely or not at all, of a stream what fits
Written(n, space) ==
    IF sb.kind = "message" THEN IF space >= n + 1 THEN n ELSE 0 ELSE IF n < space THEN n ELSE space

prvWriteMessageToBuffer(n, space) ==
    LET w == Written(n, space)
        payload == [i \in 1 .. w |-> (sb.sent + i - 1) % 4]
        v == IF sb.kind = "message" THEN <<n>> \o payload ELSE payload
    IN  IF w = 0 THEN sb
        ELSE [sb EXCEPT !.cells = WriteCells(@, sb.head, Len(v), v),
                        !.head = (@ + Len(v)) % BufferCells, !.sent = (@ + w) % 4]

\* prvReadMessageFromBuffer: how many payload cells a read of at most n takes;
\* a cell that was read is not read again, so its content is forgotten
ReadCount(n, seen) ==
    LET available == seen - LengthCells
        wanted == IF sb.kind = "message" THEN IF sb.cells[sb.tail] > n THEN 0 ELSE sb.cells[sb.tail] ELSE n
    IN  IF wanted < available THEN wanted ELSE available

prvReadMessageFromBuffer(n, seen) ==
    LET c == ReadCount(n, seen) IN
    IF c = 0 THEN sb
    ELSE [sb EXCEPT !.cells = WriteCells(@, sb.tail, c + LengthCells, [i \in 1 .. c + 1 |-> 0]),
                    !.tail = (@ + c + LengthCells) % BufferCells, !.received = (@ + c) % 4]

\* sbSEND_COMPLETED and sbRECEIVE_COMPLETED: notify the task on the other side
SendCompleted(r, b) ==
    IF b.toReceive = NoTask THEN r
    ELSE xTaskResumeAll(xTaskGenericNotify(vTaskSuspendAll(r), b.toReceive, "eNoAction", 0))

ReceiveCompleted(r, b) ==
    IF b.toSend = NoTask THEN r
    ELSE xTaskResumeAll(xTaskGenericNotify(vTaskSuspendAll(r), b.toSend, "eNoAction", 0))

StreamOps == {"sbSend", "sbReceive"}

\* A message that can never fit is not waited for
StartStream(t) ==
    /\ Running(t) /\ call[t].op = "none"
    /\ \E c \in Program[mode] :
         LET hopeless == c.op = "sbSend" /\ sb.kind = "message" /\ RequiredSpace(c.obj) > BufferCells - 1
             d == [Started(c) EXCEPT !.ticks = IF hopeless THEN 0 ELSE @,
                                     !.item = IF c.op = "sbSend" THEN 0 ELSE prvBytesInBuffer,
                                     !.timeout = IF c.op = "sbSend" /\ ~hopeless /\ c.ticks > 0
                                                 THEN vTaskInternalSetTimeOutState(k) ELSE @]
         IN  /\ c.task = t /\ c.op \in StreamOps
             /\ call' = [call EXCEPT ![t] = [d EXCEPT !.phase = IF d.ticks = 0 THEN "sbCopy" ELSE "sbCheck"]]
    /\ UNCHANGED <<mode, k, previous, svars>>

Insufficient(c) ==
    IF c.op = "sbSend" THEN xStreamBufferSpacesAvailable < RequiredSpace(c.obj)
    ELSE prvBytesInBuffer <= LengthCells

\* What a call has last seen of the buffer: xSpace of a sender, xBytesAvailable
\* of a receiver
Seen(c) == IF c.op = "sbSend" THEN xStreamBufferSpacesAvailable ELSE prvBytesInBuffer

\* The critical section that registers the caller as the waiting task
StreamCheck(t) ==
    LET c == call[t] IN
    /\ InPhase(t, "sbCheck")
    /\ IF Insufficient(c)
       THEN /\ k' = xTaskGenericNotifyStateClear(k, t)
            /\ sb' = IF c.op = "sbSend" THEN [sb EXCEPT !.toSend = t] ELSE [sb EXCEPT !.toReceive = t]
       ELSE UNCHANGED <<k, sb>>
    /\ call' = [call EXCEPT ![t].item = Seen(c), ![t].phase = IF Insufficient(c) THEN "sbNotify" ELSE "sbCopy"]
    /\ UNCHANGED <<mode, previous, bits, tm>>

\* xTaskNotifyWaitIndexed, in the steps of Kernel's notification wait
StreamNotify(t) ==
    LET waiting == k.nstate[t] # "received" IN
    /\ InPhase(t, "sbNotify")
    /\ k' = IF waiting THEN vTaskSuspendAll(k) ELSE k
    /\ Goto(t, IF waiting THEN "sbSuspended" ELSE "sbNotified")
    /\ UNCHANGED <<mode, previous, svars>>

StreamMark(t) ==
    LET waiting == k.nstate[t] # "received" IN
    /\ InPhase(t, "sbSuspended")
    /\ k' = IF waiting THEN MarkWaiting(k) ELSE k
    /\ Goto(t, IF waiting THEN "sbBlock" ELSE "sbPass")
    /\ UNCHANGED <<mode, previous, svars>>

StreamBlock(t) ==
    /\ \/ InPhase(t, "sbBlock") /\ k' = ResumeAllAndYield(prvAddCurrentTaskToDelayedList(k, call[t].ticks, TRUE))
       \/ InPhase(t, "sbPass") /\ k' = xTaskResumeAll(k)
    /\ Goto(t, "sbNotified")
    /\ UNCHANGED <<mode, previous, svars>>

\* The wait is over; a sender checks the space again until its time is up
StreamWoken(t) ==
    LET c == call[t]
        o == xTaskCheckForTimeOut(k, c.timeout, c.ticks)
    IN
    /\ InPhase(t, "sbNotified")
    /\ sb' = IF c.op = "sbSend" THEN [sb EXCEPT !.toSend = NoTask] ELSE [sb EXCEPT !.toReceive = NoTask]
    /\ k' = xTaskGenericNotifyWait(IF c.op = "sbSend" THEN ConsumeAbort(k) ELSE k, FALSE)
    /\ call' = [call EXCEPT ![t] =
            IF c.op = "sbReceive" THEN [c EXCEPT !.phase = "sbCopy", !.item = prvBytesInBuffer]
            ELSE [c EXCEPT !.ticks = o.ticks, !.timeout = o.timeout,
                           !.phase = IF o.expired THEN "sbCopy" ELSE "sbCheck"]]
    /\ UNCHANGED <<mode, previous, bits, tm>>

\* Copy what there was room for, or what was there, when the call last looked;
\* a sender that saw no room at all looks again
StreamCopy(t) ==
    LET c == call[t]
        space == IF c.item = 0 THEN xStreamBufferSpacesAvailable ELSE c.item
        moved == IF c.op = "sbSend" THEN Written(c.obj, space)
                 ELSE IF c.item <= LengthCells THEN 0 ELSE ReadCount(c.obj, c.item)
    IN
    /\ InPhase(t, "sbCopy")
    /\ sb' = IF moved = 0 THEN sb
             ELSE IF c.op = "sbSend" THEN prvWriteMessageToBuffer(c.obj, space)
             ELSE prvReadMessageFromBuffer(c.obj, c.item)
    /\ IF moved = 0 THEN Return(t) ELSE call' = [call EXCEPT ![t].phase = "sbDone", ![t].item = Token]
    /\ UNCHANGED <<mode, k, previous, bits, tm>>

StreamDone(t) ==
    LET c == call[t] IN
    /\ InPhase(t, "sbDone")
    /\ IF c.op = "sbSend"
       THEN IF prvBytesInBuffer >= sb.trigger
            THEN k' = SendCompleted(k, sb) /\ sb' = [sb EXCEPT !.toReceive = NoTask]
            ELSE UNCHANGED <<k, sb>>
       ELSE k' = ReceiveCompleted(k, sb) /\ sb' = [sb EXCEPT !.toSend = NoTask]
    /\ Return(t)
    /\ UNCHANGED <<mode, previous, bits, tm>>

\* xStreamBufferReset and xStreamBufferResetFromISR: only while nobody waits
ResetBuffer ==
    IF sb.toReceive = NoTask /\ sb.toSend = NoTask
    THEN [NewBuffer(sb.kind) EXCEPT !.received = sb.sent, !.sent = sb.sent, !.trigger = sb.trigger]
    ELSE sb

xStreamBufferReset(t) ==
    /\ Running(t) /\ call[t].op = "none"
    /\ \E c \in Program[mode] : c.task = t /\ c.op = "sbReset"
    /\ sb' = ResetBuffer
    /\ UNCHANGED <<mode, k, call, previous, bits, tm>>

\* xStreamBufferSetTriggerLevel: at least one, and less than the length.  It does
\* not notify a receiver the new level would release, so the application makes
\* the change while none waits.
xStreamBufferSetTriggerLevel(t) ==
    /\ Running(t) /\ call[t].op = "none" /\ sb.toReceive = NoTask
    /\ \E c \in Program[mode] :
         LET level == IF c.obj = 0 THEN 1 ELSE c.obj IN
         /\ c.task = t /\ c.op = "sbTrigger"
         /\ sb' = IF level < BufferCells THEN [sb EXCEPT !.trigger = level] ELSE sb
    /\ UNCHANGED <<mode, k, call, previous, bits, tm>>

(***************************************************************************)
(* The buffer used from an interrupt                                        *)
(***************************************************************************)
\* xStreamBufferSendCompletedFromISR, and sbSEND_COMPLETE_FROM_ISR: b is the
\* buffer as written; its waiting receiver, if any, is notified and forgotten
SendCompletedFromISR(r, b) ==
    IF b.toReceive = NoTask THEN r ELSE xTaskGenericNotifyFromISR(r, b.toReceive, "eNoAction", 0)

ReceiveCompletedFromISR(r, b) ==
    IF b.toSend = NoTask THEN r ELSE xTaskGenericNotifyFromISR(r, b.toSend, "eNoAction", 0)

xStreamBufferSendFromISR(n) ==
    LET w == Written(n, xStreamBufferSpacesAvailable)
        b == prvWriteMessageToBuffer(n, xStreamBufferSpacesAvailable)
        notify == w > 0 /\ prvBytesIn(b) >= b.trigger
    IN
    /\ k' = IF notify THEN SendCompletedFromISR(k, b) ELSE k
    /\ sb' = IF notify THEN [b EXCEPT !.toReceive = NoTask] ELSE b

xStreamBufferReceiveFromISR(n) ==
    LET moved == IF prvBytesInBuffer <= LengthCells THEN 0 ELSE ReadCount(n, prvBytesInBuffer)
        b == prvReadMessageFromBuffer(n, prvBytesInBuffer)
    IN
    /\ k' = IF moved > 0 THEN ReceiveCompletedFromISR(k, b) ELSE k
    /\ sb' = IF moved > 0 THEN [b EXCEPT !.toSend = NoTask] ELSE sb

\* A reset while a task is copying would leave that task with a stale position;
\* keeping the two apart is left to the application
StreamInterrupt ==
    /\ \E i \in Interrupts[mode] :
         \/ i.op = "sbSend" /\ xStreamBufferSendFromISR(i.obj)
         \/ i.op = "sbReceive" /\ xStreamBufferReceiveFromISR(i.obj)
         \/ /\ i.op = "sbReset" /\ \A t \in Tasks : call[t].op \in StreamOps => call[t].phase # "sbCopy"
            /\ sb' = ResetBuffer /\ k' = k
    /\ UNCHANGED <<mode, call, previous, bits, tm>>

(***************************************************************************)
(* Software timers.  A command travels through the timer queue with the     *)
(* tick count of the caller; the daemon keeps active timers in two lists    *)
(* that change places when the tick count overflows.                        *)
(***************************************************************************)
\* xTimerGenericCommandFromTask: c.obj is [id, timer, value]; a start carries
\* the time it was issued, a change of period the new period
Command(c) == [id |-> c.id, timer |-> c.timer, value |-> IF c.id = "period" THEN c.value ELSE k.tick]

xTimerGenericCommandFromTask(t) ==
    /\ Running(t) /\ call[t].op = "none"
    /\ \E c \in Program[mode] :
         /\ c.task = t /\ c.op = "timer"
         /\ call' = [call EXCEPT ![t] =
                [Started(c) EXCEPT !.op = "send", !.obj = TimerQueue, !.item = Command(c.obj)]]
    /\ UNCHANGED <<mode, k, previous, svars>>

xTimerGenericCommandFromISR ==
    /\ \E i \in Interrupts[mode] :
         /\ i.op = "timer"
         /\ k' = xQueueGenericSendFromISR(k, TimerQueue, Command(i.obj), "back")
    /\ UNCHANGED <<mode, call, previous, svars>>

\* xTimerPendFunctionCall and xTimerPendFunctionCallFromISR: the daemon is to call
\* a function; here vEventGroupSetBitsCallback or vEventGroupClearBitsCallback
Pended(c) == [id |-> c.id, timer |-> "none", value |-> c.bits]

xTimerPendFunctionCall(t) ==
    /\ Running(t) /\ call[t].op = "none"
    /\ \E c \in Program[mode] :
         /\ c.task = t /\ c.op = "pend"
         /\ call' = [call EXCEPT ![t] =
                [Started(c) EXCEPT !.op = "send", !.obj = TimerQueue, !.item = Pended(c.obj)]]
    /\ UNCHANGED <<mode, k, previous, svars>>

\* xEventGroupSetBitsFromISR and xEventGroupClearBitsFromISR: an interrupt never
\* walks the waiters itself
xTimerPendFunctionCallFromISR ==
    /\ \E i \in Interrupts[mode] :
         /\ i.op = "pend"
         /\ k' = xQueueGenericSendFromISR(k, TimerQueue, Pended(i.obj), "back")
    /\ UNCHANGED <<mode, call, previous, svars>>

\* vTimerSetReloadMode takes effect at once, past the queue of commands
vTimerSetReloadMode(t) ==
    /\ Running(t) /\ call[t].op = "none"
    /\ \E c \in Program[mode] :
         /\ c.task = t /\ c.op = "reload"
         /\ tm' = [tm EXCEPT !.reload = IF c.obj.value THEN @ \cup {c.obj.timer} ELSE @ \ {c.obj.timer}]
    /\ UNCHANGED <<mode, k, call, previous, bits, sb>>

\* prvInsertTimerInActiveList: whether the timer has expired already ...
ProcessNow(m, i, expiry, now, command) ==
    IF expiry <= now THEN (now + TickMod - command) % TickMod >= m.period[i]
    ELSE now < command /\ expiry >= command

\* ... or else the list it is inserted in
prvInsertTimerInActiveList(m, i, expiry, now, command) ==
    LET r == [m EXCEPT !.expiry[i] = expiry] IN
    IF ProcessNow(m, i, expiry, now, command) THEN r
    ELSE IF expiry <= now THEN [r EXCEPT !.overflowed = vListInsert(@, i, r.expiry)]
    ELSE [r EXCEPT !.current = vListInsert(@, i, r.expiry)]

\* prvReloadTimer: a callback for every period that has passed meanwhile
Expiry(m, i, from, n) == (from + n * m.period[i]) % TickMod

Backlog(m, i, expired, now) ==
    CHOOSE n \in 0 .. TickMod :
        /\ ~ProcessNow(m, i, Expiry(m, i, expired, n + 1), now, Expiry(m, i, expired, n))
        /\ \A j \in 0 .. n - 1 : ProcessNow(m, i, Expiry(m, i, expired, j + 1), now, Expiry(m, i, expired, j))

prvReloadTimer(m, i, expired, now) ==
    LET n == Backlog(m, i, expired, now) IN
    prvInsertTimerInActiveList([m EXCEPT !.calls[i] = @ + n], i,
                               Expiry(m, i, expired, n + 1), now, Expiry(m, i, expired, n))

Deactivated(m, i) == [m EXCEPT !.active = @ \ {i}, !.expiry[i] = 0]

\* The end of an expiry: reload or deactivate, then the callback
ExpireTimer(m, i, expired, now) ==
    LET r == IF i \in m.reload THEN prvReloadTimer(m, i, expired, now)
             ELSE Deactivated(m, i)
    IN  [r EXCEPT !.calls[i] = @ + 1]

prvProcessExpiredTimer(m, expired, now) ==
    ExpireTimer([m EXCEPT !.current = Tail(@)], Head(m.current), expired, now)

\* Every timer left in the current list expires before the lists change places
prvSwitchTimerLists(m) ==
    LET r == FoldLeft(LAMBDA a, i : prvProcessExpiredTimer(a, a.expiry[i], TickMod - 1), m, m.current)
    IN  [r EXCEPT !.current = r.overflowed, !.overflowed = r.current]

Quiet(m) == [m EXCEPT !.calls = [i \in Timers |-> 0]]
TimeWrapped == k.tick < tm.last

prvSampleTimeNow(m) ==
    [IF TimeWrapped THEN prvSwitchTimerLists(m) ELSE m EXCEPT !.last = k.tick]

\* The effect of one command, after the timer left the list it was in
prvProcessReceivedCommands(m, c, now) ==
    LET i == c.timer
        due == (c.value + m.period[i]) % TickMod
        started == [m EXCEPT !.active = @ \cup {i}]
        changed == [started EXCEPT !.period[i] = c.value]
    IN  CASE c.id = "start" ->
                 IF ProcessNow(started, i, due, now, c.value)
                 THEN ExpireTimer([started EXCEPT !.expiry[i] = due], i, due, now)
                 ELSE prvInsertTimerInActiveList(started, i, due, now, c.value)
          [] c.id = "period" ->
                 prvInsertTimerInActiveList(changed, i, (now + c.value) % TickMod, now, now)
          [] c.id \in {"stop", "delete"} -> Deactivated(m, i)

Unlisted(m, i) == [m EXCEPT !.current = uxListRemove(@, i), !.overflowed = uxListRemove(@, i)]

\* The daemon moves on and forgets its local variables
DaemonGoto(t, ph) ==
    call' = [call EXCEPT ![t].phase = ph, ![t].item = Token, ![t].ticks = 0, ![t].timed = FALSE, ![t].inherited = FALSE]

\* prvTimerTask: the next expiry is looked up, then the scheduler suspended
StartDaemon(t) ==
    /\ Running(t) /\ call[t].op = "none"
    /\ \E c \in Program[mode] :
         c.task = t /\ c.op = "daemon" /\ call' = [call EXCEPT ![t] = [Started(c) EXCEPT !.phase = "tmLook"]]
    /\ UNCHANGED <<mode, k, previous, svars>>

prvGetNextExpireTime(t) ==
    /\ InPhase(t, "tmLook")
    /\ k' = vTaskSuspendAll(k)
    /\ call' = [call EXCEPT ![t].phase = "tmSuspended", ![t].timed = tm.current = <<>>,
                            ![t].ticks = IF tm.current = <<>> THEN 0 ELSE tm.expiry[Head(tm.current)]]
    /\ UNCHANGED <<mode, previous, svars>>

\* Time wrapped, a timer expired, or nothing to do but wait
prvProcessTimerOrBlockTask(t) ==
    LET c == call[t]
        expired == ~c.timed /\ c.ticks <= k.tick
    IN
    /\ InPhase(t, "tmSuspended")
    /\ tm' = prvSampleTimeNow(Quiet(tm))
    /\ k' = IF TimeWrapped \/ expired THEN xTaskResumeAll(k) ELSE prvLockQueue(k, TimerQueue)
    /\ IF TimeWrapped THEN DaemonGoto(t, "tmReceive")
       ELSE call' = [call EXCEPT ![t].phase = IF expired THEN "tmExpired" ELSE "tmWait",
                                 ![t].item = k.tick,
                                 ![t].inherited = tm.current = <<>> /\ tm.overflowed = <<>>]
    /\ UNCHANGED <<mode, previous, bits, sb>>

TimerExpired(t) ==
    /\ InPhase(t, "tmExpired")
    /\ tm' = prvProcessExpiredTimer(Quiet(tm), call[t].ticks, call[t].item)
    /\ DaemonGoto(t, "tmReceive")
    /\ UNCHANGED <<mode, k, previous, bits, sb>>

\* vQueueWaitForMessageRestricted: until a command or the next expiry
vQueueWaitForMessageRestricted(t) ==
    LET c == call[t]
        ticks == (c.ticks + TickMod - c.item) % TickMod
    IN
    /\ InPhase(t, "tmWait")
    /\ k' = IF prvIsQueueEmpty(k, TimerQueue)
            THEN vTaskPlaceOnEventListRestricted(k, ReceiveList(TimerQueue), ticks, c.inherited)
            ELSE k
    /\ Goto(t, "tmUnlock")
    /\ UNCHANGED <<mode, previous, svars>>

DaemonUnlocks(t) ==
    /\ \/ InPhase(t, "tmUnlock") /\ k' = UnlockTx(k, TimerQueue) /\ Goto(t, "tmUnlockRx")
       \/ InPhase(t, "tmUnlockRx") /\ k' = UnlockRx(k, TimerQueue) /\ Goto(t, "tmYield")
    /\ UNCHANGED <<mode, previous, svars>>

DaemonYields(t) ==
    /\ InPhase(t, "tmYield")
    /\ k' = ResumeAllAndYield(k)
    /\ DaemonGoto(t, "tmReceive")
    /\ UNCHANGED <<mode, previous, svars>>

DaemonReceives(t) ==
    LET empty == prvIsQueueEmpty(k, TimerQueue) IN
    /\ InPhase(t, "tmReceive")
    /\ k' = IF empty THEN k ELSE ReceiveNow(k, TimerQueue)
    /\ IF empty THEN DaemonGoto(t, "tmLook")
       ELSE call' = [call EXCEPT ![t].phase = "tmApply", ![t].item = Head(k.q[TimerQueue].items)]
    /\ tm' = Quiet(tm)
    /\ UNCHANGED <<mode, previous, bits, sb>>

PendedCalls == {"setBits", "clearBits"}

DaemonApplies(t) ==
    LET m == call[t].item IN
    /\ InPhase(t, "tmApply") /\ m.id \notin PendedCalls
    /\ tm' = prvProcessReceivedCommands(prvSampleTimeNow(Unlisted(Quiet(tm), m.timer)), m, k.tick)
    /\ DaemonGoto(t, "tmReceive")
    /\ UNCHANGED <<mode, k, previous, bits, sb>>

\* A pended function call; it may be in the queue behind commands to timers, and
\* does not look at the time
DaemonCalls(t) ==
    /\ InPhase(t, "tmApply")
    /\ \/ /\ call[t].item.id = "setBits" /\ k' = vTaskSuspendAll(k)
          /\ Goto(t, "tmSetBits") /\ UNCHANGED bits
       \/ /\ call[t].item.id = "clearBits" /\ bits' = bits \ call[t].item.value
          /\ DaemonGoto(t, "tmReceive") /\ UNCHANGED k
    /\ UNCHANGED <<mode, previous, sb, tm>>

vEventGroupSetBitsCallback(t) ==
    LET b == bits \cup call[t].item.value IN
    /\ InPhase(t, "tmSetBits")
    /\ k' = xTaskResumeAll(SetBitsWake(k, b))
    /\ bits' = b \ ClearedBy(k, b)
    /\ DaemonGoto(t, "tmReceive")
    /\ UNCHANGED <<mode, previous, sb, tm>>

ServiceStep(t) ==
    \/ StartGroupCall(t) \/ xEventGroupWaitBits(t) \/ xEventGroupSetBits(t) \/ xEventGroupSync(t)
    \/ GroupWoken(t) \/ xEventGroupClearBits(t)
    \/ StartStream(t) \/ StreamCheck(t) \/ StreamNotify(t) \/ StreamMark(t) \/ StreamBlock(t) \/ StreamWoken(t)
    \/ StreamCopy(t) \/ StreamDone(t) \/ xStreamBufferReset(t)
    \/ xTimerGenericCommandFromTask(t) \/ StartDaemon(t) \/ prvGetNextExpireTime(t)
    \/ prvProcessTimerOrBlockTask(t) \/ TimerExpired(t) \/ vQueueWaitForMessageRestricted(t)
    \/ DaemonUnlocks(t) \/ DaemonYields(t) \/ DaemonReceives(t) \/ DaemonApplies(t)
    \/ DaemonCalls(t) \/ vEventGroupSetBitsCallback(t) \/ xTimerPendFunctionCall(t) \/ vTimerSetReloadMode(t)
    \/ xStreamBufferSetTriggerLevel(t)

ServiceNext ==
    \/ Next /\ UNCHANGED svars
    \/ xTimerGenericCommandFromISR \/ xTimerPendFunctionCallFromISR
    \/ StreamInterrupt
    \/ \E t \in Tasks : ServiceStep(t)

ServiceSpec == ServiceInit /\ [][ServiceNext]_allVars

(***************************************************************************)
(* Properties                                                               *)
(***************************************************************************)
\* No task goes on waiting for event bits that are set: a change of the bits
\* and the release of every waiter they satisfy are one step of the group.
NoMissedEvent ==
    \A t \in Range(k.evl[GroupList]) :
        ~prvTestWaitCondition(bits, k.evFlags[t].bits, k.evFlags[t].all)

\* The bytes between tail and head are those sent and not yet received, in
\* order, across the wrap of the ring and reads that stop short; in a message
\* buffer the length written first is that of the message that follows.
StreamFifo ==
    /\ sb.kind = "stream" =>
         \A i \in 0 .. prvBytesInBuffer - 1 :
             sb.cells[(sb.tail + i) % BufferCells] = (sb.received + i) % 4
    /\ (sb.kind = "message" /\ prvBytesInBuffer > 0) =>
         LET n == sb.cells[sb.tail] IN
         /\ n + 1 <= prvBytesInBuffer
         /\ \A i \in 1 .. n : sb.cells[(sb.tail + i) % BufferCells] = (sb.received + i - 1) % 4

\* A task blocked on the buffer cannot proceed, unless the task on the other
\* side is about to notify it (sbSEND_COMPLETED, sbRECEIVE_COMPLETED).
NoStuckStream ==
    \A t \in k.alive :
        (call[t].op \in StreamOps /\ k.nstate[t] = "waiting" /\ k.susp = 0) =>
            \/ Insufficient(call[t])
            \/ call[t].op = "sbReceive" /\ prvBytesInBuffer < sb.trigger
            \/ \E o \in k.alive : call[o].op \in StreamOps \ {call[t].op} /\ call[o].phase = "sbDone"
=============================================================================
