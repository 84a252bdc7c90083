------------------------------- MODULE ErrorRecords -------------------------------
EXTENDS Naturals, Sequences, FiniteSets

(***************************************************************************)
(* The deduplicated error journal: safety::ErrorJournal (error_journal.cpp),  *)
(* fed by noteError() from every task inside a critical section and drained   *)
(* to the radio downlink by controlTask (app/tasks.cpp).  What noteError()    *)
(* also pushes for the event log is the event log below.                      *)
(*                                                                           *)
(* An error's identity (code, detail) is a member of Keys.  The clock is      *)
(* absolute and bounded by MaxTime.  Occurrence counts and announcement       *)
(* sequence numbers are what the operator reads beside an error; nothing      *)
(* branches on them, and they are left out.                                   *)
(***************************************************************************)

CONSTANTS Keys,       \* the errors that occur
          SevOf,      \* [Keys -> 0..3]: Info, Warning, Error, Critical
          Slots,      \* kMaxErrorEntries
          Repeat,     \* kRepeatIntervalMs
          ClearAfter, \* kClearAfterMs
          DrainEvery, \* kCrsfStatusBoostPeriodMs
          MaxTime     \* bound on the clock

ASSUME JournalBounds ==
    /\ Slots \in Nat \ {0}
    /\ Repeat \in Nat \ {0} /\ ClearAfter \in Nat /\ ClearAfter > Repeat
    /\ SevOf \in [Keys -> 0..3]

VARIABLES now,      \* millis()
          table,    \* entries_[0..count_-1], each with its pending_ flag
          latest,   \* the key the downlink shows, or the empty set
          drainAt,  \* earliest time of the next drain
          told      \* [Keys -> time of the last announcement + 1, 0 if none]

journalVars == <<now, table, latest, drainAt, told>>

-----------------------------------------------------------------------------
Critical == 3

Entry(k, first, last, p) == [key |-> k, first |-> first, last |-> last, pending |-> p]

\* find(): the slot of a key, 0 when it is not tracked
find(k) ==
    IF \E i \in DOMAIN table : table[i].key = k THEN CHOOSE i \in DOMAIN table : table[i].key = k ELSE 0

\* the slots an incoming severity may recycle: an error not yet sent gives way
\* only to a strictly more severe one
Recyclable(sev) == {i \in DOMAIN table : ~(table[i].pending /\ SevOf[table[i].key] >= sev)}

\* recycleSlot(): least severe, then least recently seen, then first in the table
recycleSlot(sev) ==
    LET C == Recyclable(sev)
        Rank(i) == SevOf[table[i].key]
        Better(i, j) == \/ Rank(i) < Rank(j)
                        \/ Rank(i) = Rank(j) /\ table[i].last < table[j].last
                        \/ Rank(i) = Rank(j) /\ table[i].last = table[j].last /\ i <= j
    IN  IF C = {} THEN 0 ELSE CHOOSE i \in C : \A j \in C : Better(i, j)

\* the slot note() records an occurrence in, 0 when it only counts the loss
SlotFor(k) ==
    LET s == find(k) IN
        IF s # 0 THEN s
        ELSE IF Len(table) < Slots THEN Len(table) + 1
        ELSE recycleSlot(SevOf[k])

\* an occurrence is news when the key is not tracked, was quiet long enough to
\* count as resolved, or still fails an interval after it was last announced
Announces(k) ==
    LET s == find(k) IN
        \/ s = 0
        \/ now - table[s].last >= ClearAfter
        \/ now - table[s].first >= Repeat /\ ~table[s].pending

\* note(): the table after an occurrence of k
note(k) ==
    LET s == SlotFor(k)
        e == IF Announces(k) THEN Entry(k, now, now, TRUE)
             ELSE Entry(k, table[s].first, now, table[s].pending)
    IN  IF s = 0 THEN table
        ELSE IF s > Len(table) THEN Append(table, e) ELSE [table EXCEPT ![s] = e]

-----------------------------------------------------------------------------
\* noteError(): one occurrence, inside a critical section
noteError(k) ==
    /\ table' = note(k)
    /\ told' = IF SlotFor(k) # 0 /\ Announces(k) THEN [told EXCEPT ![k] = now + 1] ELSE told
    /\ UNCHANGED <<now, latest, drainAt>>

\* takePending(): most severe, then oldest incident, then first in the table
takePending ==
    LET P == {i \in DOMAIN table : table[i].pending}
        Rank(i) == SevOf[table[i].key]
        Before(i, j) == \/ Rank(i) > Rank(j)
                        \/ Rank(i) = Rank(j) /\ table[i].first < table[j].first
                        \/ Rank(i) = Rank(j) /\ table[i].first = table[j].first /\ i <= j
    IN  IF P = {} THEN 0 ELSE CHOOSE i \in P : \A j \in P : Before(i, j)

\* controlTask: advance to the next announced error once per downlink period
Drain ==
    LET i == takePending IN
        /\ now >= drainAt
        /\ drainAt' = now + DrainEvery
        /\ table' = IF i = 0 THEN table ELSE [table EXCEPT ![i].pending = FALSE]
        /\ latest' = IF i = 0 THEN latest ELSE {table[i].key}
        /\ UNCHANGED <<now, told>>

JournalTick ==
    /\ now < MaxTime
    /\ now' = now + 1
    /\ UNCHANGED <<table, latest, drainAt, told>>

JournalInit ==
    /\ now = 0 /\ table = <<>> /\ latest = {} /\ drainAt = 0
    /\ told = [k \in Keys |-> 0]

JournalNext ==
    \/ \E k \in Keys : noteError(k)
    \/ Drain
    \/ JournalTick

JournalSpec == JournalInit /\ [][JournalNext]_journalVars

-----------------------------------------------------------------------------
(* An announced critical error stays in the journal until the downlink has   *)
(* shown it: no flood of lesser errors, and no drain order, makes it         *)
(* disappear or lets a lesser error be shown first (recycleSlot, takePending).*)
CriticalIsShownFirst ==
    [][\A i \in DOMAIN table : table[i].pending /\ SevOf[table[i].key] = Critical =>
          \/ latest' = {table[i].key}
          \/ /\ \E j \in DOMAIN table' : table'[j].key = table[i].key /\ table'[j].pending
             /\ \A k \in latest' \ latest : SevOf[k] = Critical]_journalVars

(* While a key stays in the table it is announced at most once per           *)
(* kRepeatIntervalMs, however often it occurs (note).                         *)
TrackedRepeatsAreSpaced ==
    [][\A k \in Keys : told'[k] # told[k] /\ told[k] # 0 /\ find(k) # 0 =>
          now + 1 - told[k] >= Repeat]_journalVars

-----------------------------------------------------------------------------
(***************************************************************************)
(* The event log that survives a power cycle: warnings and errors announced   *)
(* by noteError(), and the start of arming, wait in the bounded               *)
(* PersistentEventQueue (event_log.cpp) until i2cTask has appended each to    *)
(* EVENTS.LOG and seen the file grow (appendOpenLogLine, app/tasks.cpp).      *)
(* Producers run between the writer's two critical sections.                  *)
(*                                                                           *)
(* Events are numbered in the order they are pushed; a line's text is left    *)
(* out.  The card may lose a line, keep it, or keep it although the transfer  *)
(* that wrote, synchronised or measured it is reported failed.                *)
(***************************************************************************)

CONSTANTS Capacity,   \* PersistentEventQueue::kCapacity
          RetryAfter, \* passes until the writer tries again after a failure
          MaxPushes   \* bound on the events of a behaviour

ASSUME EventLogBounds == Capacity \in Nat \ {0} /\ RetryAfter \in Nat

VARIABLES queue,   \* events_, oldest first
          taken,   \* the writer's copy of the head, or <<>> between attempts
          hold,    \* passes until next_log_attempt_ms
          \* history
          pushed,  \* number of events pushed
          refused, \* events a full queue refused
          onCard,  \* events with a line in EVENTS.LOG
          ordered  \* the lines have been appended in order so far

logVars == <<queue, taken, hold, pushed, refused, onCard, ordered>>

\* PersistentEventQueue::push(): a full queue refuses the newest event
push(q, e) == IF Len(q) >= Capacity THEN q ELSE Append(q, e)

\* count_ is reset: the events behind the head go with it
popEverything(q) == <<>>

\* PersistentEventQueue::pop()
pop(q) == IF q = <<>> THEN q ELSE Tail(q)

\* a producer, in a critical section: noteError() for an announcement more
\* severe than Info, dxlTask for the start of arming
LogAnnounce ==
    /\ pushed < MaxPushes
    /\ pushed' = pushed + 1
    /\ queue' = push(queue, pushed + 1)
    /\ refused' = IF Len(queue) >= Capacity THEN refused \cup {pushed + 1} ELSE refused
    /\ UNCHANGED <<taken, hold, onCard, ordered>>

\* i2cTask reaches the writer: the retry pause runs down, or the head is copied
LogPeek ==
    /\ taken = <<>>
    /\ IF hold > 0 THEN hold' = hold - 1 /\ UNCHANGED taken
       ELSE queue # <<>> /\ taken' = <<Head(queue)>> /\ UNCHANGED hold
    /\ UNCHANGED <<queue, pushed, refused, onCard, ordered>>

\* appendOpenLogLine(): the line is kept by the card (landed), and the append
\* counts (seen) only when every transfer succeeded and the file has grown
Written(landed, transfers) == landed /\ transfers

\* the head leaves the queue only when its line is known to be in the file
LogAppend ==
    \E landed, transfers \in BOOLEAN :
        LET done == Written(landed, transfers) IN
            /\ taken # <<>>
            /\ onCard' = IF landed THEN onCard \cup {taken[1]} ELSE onCard
            /\ ordered' = (ordered /\ (landed => \A e \in onCard : e <= taken[1]))
            /\ queue' = IF done THEN pop(queue) ELSE queue
            /\ hold' = IF done THEN 0 ELSE RetryAfter
            /\ taken' = <<>>
            /\ UNCHANGED <<pushed, refused>>

EventLogInit ==
    /\ queue = <<>> /\ taken = <<>> /\ hold = 0
    /\ pushed = 0 /\ refused = {} /\ onCard = {} /\ ordered = TRUE

EventLogNext == LogAnnounce \/ LogPeek \/ LogAppend

EventLogSpec == EventLogInit /\ [][EventLogNext]_logVars

-----------------------------------------------------------------------------
QueuedEvents == {queue[i] : i \in DOMAIN queue}

(* EVENTS.LOG holds the accepted events in the order they were announced and *)
(* without a gap: whatever fails between the peek and the pop, and whoever    *)
(* pushes meanwhile, an event is in the file, still queued, or counted as     *)
(* refused by a full queue.                                                   *)
LogHasNoGap ==
    /\ ordered
    /\ onCard \cup QueuedEvents \cup refused = 1..pushed
    /\ refused \cap onCard = {}

(* An accepted event reaches the file although appends fail and are retried. *)
AcceptedEventsAreFiled ==
    \A e \in 1..MaxPushes : e \in QueuedEvents ~> e \in onCard
=============================================================================
