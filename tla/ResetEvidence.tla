----------------------------- MODULE ResetEvidence -----------------------------
(***************************************************************************)
(* What a reset leaves behind and what the next boot makes of it: the task    *)
(* watchdog and its hardware backstop (safety/watchdog.cpp), the fatal-fault  *)
(* record (safety/fault_capture.cpp), both kept in SRAM that a reset does not *)
(* clear, and the boot of i2cTask that writes them to EVENTS.LOG before it    *)
(* loads the configuration (app/tasks.cpp).                                   *)
(*                                                                           *)
(* Heartbeat counters are abstracted to "advanced since the last window".     *)
(* Time advances in ticks; a live task beats in every tick.  A task may hang  *)
(* and never run again; Control is the more urgent of the two critical tasks, *)
(* so when it spins Dxl stays wherever it was preempted.                      *)
(***************************************************************************)
EXTENDS Naturals

CONSTANTS Window,     \* ticks between two evaluations (500 ms)
          Timeout,    \* ticks until an unfed hardware watchdog resets (2 s)
          Hangs,      \* bound: the sets of tasks that hang in one run
          MaxResets   \* bound on the resets of a behaviour

ASSUME WatchdogBounds == Window \in Nat \ {0} /\ Timeout \in Nat /\ Timeout > 2 * Window

Tasks == {"Control", "Dxl", "I2c", "Health"}
CriticalTasks == {"Control", "Dxl"}   \* kCriticalMask

VARIABLES
    \* the running firmware
    hung,      \* tasks that no longer run
    beats,     \* tasks that beat since the last evaluation
    primed,    \* g_windowPrimed
    armed,     \* g_hwArmed
    wait,      \* ticks since the last evaluation
    dog,       \* ticks since the hardware watchdog was last fed
    fed,       \* the last feed was accepted, not lost to SYNCBUSY
    judging,   \* healthTask stands between two stores of evaluate()
    stalled,   \* history: ticks since a watched task hung
    \* retained memory
    kept,      \* RetainedWatchdogState: the missed mask and its inverse, and whether
               \* the progress marker agrees with its own
    fatal,     \* RetainedFaultRecord: magic, body, checksum
    writing,   \* steps of writeRecord() done, 0 outside a fatal handler
    \* what this boot found
    snapshot,  \* g_lastSnapshot: the number of the fault, 0 for none
    named,     \* g_lastResetMissedMask
    crashDue,  \* g_retainedCrashLogPending
    dogDue,    \* g_watchdogResetLogPending
    verified,  \* i2cTask saw the crash line in the file and is to acknowledge it
    storage,   \* g_configStorageAvailable
    loaded,    \* the configuration was bootstrapped
    \* history
    resets,    \* resets so far; a fault is numbered by the reset it causes
    captured,  \* the last fault whose record was completed and not overwritten since
    filed,     \* faults with a line in EVENTS.LOG
    acknowledged \* faults whose record was withdrawn because of that line

watchVars == <<hung, beats, primed, armed, wait, dog, fed, judging, stalled>>
bootVars == <<snapshot, named, crashDue, dogDue, verified, storage, loaded>>
recordVars == <<captured, filed, acknowledged>>
evidenceVars == <<watchVars, kept, fatal, writing, bootVars, resets, recordVars>>

-----------------------------------------------------------------------------
CleanKept == [missed |-> {}, missedInverse |-> {}, marked |-> TRUE]

\* the retained watchdog state is believed only when both inverses agree; the
\* inverse of a mask is represented by the mask it is the inverse of
KeptValid == kept.missed = kept.missedInverse /\ kept.marked

NoRecord == [magic |-> FALSE, body |-> 0, sum |-> 0]

\* retainedValid(): the magic, written last, and a checksum over the body
RetainedValid == fatal.magic /\ fatal.sum = fatal.body

\* a reset and the boot that follows: fault_capture::init(), watchdog::init()
\* and the first lines of i2cTask, which finds an OpenLog or does not
Adopted == IF RetainedValid THEN fatal.body ELSE 0

Restart(why) ==
    /\ resets < MaxResets
    /\ resets' = resets + 1
    /\ hung' = {} /\ beats' = {} /\ primed' = FALSE /\ armed' = FALSE
    /\ wait' = Window /\ dog' = 0 /\ fed' = TRUE /\ judging' = FALSE /\ stalled' = 0
    /\ snapshot' = Adopted
    /\ named' = IF why = "watchdog" /\ KeptValid THEN kept.missed ELSE {}
    /\ kept' = CleanKept
    /\ crashDue' = (Adopted # 0)
    /\ verified' = FALSE
    /\ dogDue' = (why = "watchdog")
    /\ storage' \in BOOLEAN
    /\ loaded' = FALSE
    /\ writing' = 0
    /\ captured' = IF why = "fatal" THEN resets + 1 ELSE captured
    /\ UNCHANGED <<fatal, filed, acknowledged>>

-----------------------------------------------------------------------------
Running == writing = 0
Live(t) == Running /\ t \notin hung

\* markProgress() by dxlTask: two stores, and a reset may fall between them
MarkFirst ==
    /\ Live("Dxl") /\ Live("Control") /\ kept.marked
    /\ kept' = [kept EXCEPT !.marked = FALSE]
    /\ UNCHANGED <<watchVars, fatal, writing, bootVars, resets, recordVars>>

MarkSecond ==
    /\ Live("Dxl") /\ Live("Control") /\ ~kept.marked
    /\ kept' = [kept EXCEPT !.marked = TRUE]
    /\ UNCHANGED <<watchVars, fatal, writing, bootVars, resets, recordVars>>

Hang(t) ==
    /\ Live(t) /\ ~judging /\ resets < MaxResets
    /\ \E together \in Hangs : hung \cup {t} \subseteq together
    /\ hung' = hung \cup {t}
    /\ UNCHANGED <<beats, primed, armed, wait, dog, fed, judging, stalled, kept, fatal, writing, bootVars, resets, recordVars>>

\* a tick: live tasks check in and the hardware watchdog counts; a live health
\* task never lets the evaluation become overdue
EvidenceTick ==
    /\ Running /\ ~judging /\ dog < Timeout
    /\ wait < Window \/ "Health" \in hung
    /\ beats' = beats \cup (Tasks \ hung)
    /\ wait' = IF wait < Window THEN wait + 1 ELSE wait
    /\ dog' = IF armed THEN dog + 1 ELSE 0
    /\ stalled' = IF armed /\ hung \cap (CriticalTasks \cup {"Health"}) # {} THEN stalled + 1 ELSE 0
    /\ UNCHANGED <<hung, primed, armed, fed, judging, kept, fatal, writing, bootVars, resets, recordVars>>

\* evaluate() by healthTask, every Window: what the window misses goes into the
\* retained mask first, and into its inverse by a second store.  The first call
\* takes a baseline and misses nothing.  healthTask is the most urgent task, so
\* no task hangs and no tick passes between the stores, but a reset may come.
evaluate ==
    /\ Live("Health") /\ ~judging /\ wait = Window
    /\ kept' = [kept EXCEPT !.missed = IF primed THEN Tasks \ beats ELSE {}]
    /\ beats' = {} /\ wait' = 0 /\ judging' = TRUE
    /\ UNCHANGED <<hung, primed, armed, dog, fed, stalled, fatal, writing, bootVars, resets, recordVars>>

HealthyAnyCritical(missed) == ~(CriticalTasks \subseteq missed)

\* a window without a missing critical task arms the hardware watchdog once and
\* feeds it ever after
HealthyWindow(missed) == missed \cap CriticalTasks = {}

\* hwPet(), hwEnable(): a feed or an arming attempt during a register
\* synchronisation is lost; the hardware is not busy twice in a row
Judge(accepted) ==
    /\ accepted \/ fed
    /\ armed' = (armed \/ (HealthyWindow(kept.missed) /\ accepted))
    /\ dog' = IF HealthyWindow(kept.missed) /\ accepted THEN 0 ELSE dog
    /\ fed' = accepted
    /\ UNCHANGED primed

Prime == primed' = TRUE /\ UNCHANGED <<armed, dog, fed>>

evaluateEnds ==
    /\ Running /\ judging
    /\ kept' = [kept EXCEPT !.missedInverse = kept.missed]
    /\ judging' = FALSE
    /\ IF primed THEN \E accepted \in BOOLEAN : Judge(accepted) ELSE Prime
    /\ UNCHANGED <<hung, beats, wait, stalled, fatal, writing, bootVars, resets, recordVars>>

\* the hardware watchdog, the reset button
WatchdogReset == Running /\ dog = Timeout /\ Restart("watchdog")
ButtonReset == Running /\ dog < Timeout /\ Restart("button")

-----------------------------------------------------------------------------
\* writeRecord() from a fatal hook: withdraw the magic, then body, checksum, magic
FatalFault ==
    /\ Running /\ resets < MaxResets /\ dog < Timeout
    /\ fatal' = [fatal EXCEPT !.magic = FALSE]
    /\ writing' = 1
    /\ captured' = 0
    /\ UNCHANGED <<watchVars, kept, bootVars, resets, filed, acknowledged>>

WriteStep ==
    CASE writing = 1 -> [fatal EXCEPT !.body = resets + 1]
      [] writing = 2 -> [fatal EXCEPT !.sum = fatal.body]
      [] writing = 3 -> [fatal EXCEPT !.magic = TRUE]

WriteRecord ==
    /\ writing \in 1..3
    /\ fatal' = WriteStep
    /\ writing' = writing + 1
    /\ UNCHANGED <<watchVars, kept, bootVars, resets, recordVars>>

\* resetAfterCapture(); an unfed watchdog or a hand on the button may be faster
CaptureReset == writing = 4 /\ Restart("fatal")
CaptureCut == writing \in 1..3 /\ \E why \in {"watchdog", "button"} : Restart(why)

-----------------------------------------------------------------------------

\* acknowledgePersisted()
acknowledgePersisted == [fatal EXCEPT !.magic = FALSE]

\* tryPersistRetainedCrash(), the line: it counts only when the file was then
\* seen to have grown, but one that is not seen may be in the file all the same
CrashAppend(grew) ==
    /\ Live("I2c") /\ storage /\ crashDue /\ ~verified
    /\ verified' = grew
    /\ \E landed \in {grew, TRUE} : filed' = IF landed THEN filed \cup {snapshot} ELSE filed
    /\ UNCHANGED <<watchVars, kept, fatal, writing, snapshot, named, crashDue, dogDue, storage, loaded,
                   resets, captured, acknowledged>>

\* the acknowledgement: the size is asked for once more, and without an answer
\* the whole attempt is repeated later, line and all
CrashAcknowledge(answered) ==
    /\ Live("I2c") /\ verified
    /\ verified' = FALSE
    /\ crashDue' = ~answered
    /\ fatal' = IF answered THEN acknowledgePersisted ELSE fatal
    /\ acknowledged' = IF answered THEN acknowledged \cup {snapshot} ELSE acknowledged
    /\ UNCHANGED <<watchVars, kept, writing, snapshot, named, dogDue, storage, loaded, resets, captured, filed>>

\* tryPersistWatchdogReset(): after the crash line
tryPersistWatchdogReset(seen) ==
    /\ Live("I2c") /\ storage /\ ~crashDue /\ dogDue
    /\ dogDue' = ~seen
    /\ UNCHANGED <<watchVars, kept, fatal, writing, snapshot, named, crashDue, verified, storage, loaded, resets, recordVars>>

\* tryBootstrapConfig(): after both
BootstrapConfig(seen) ==
    /\ Live("I2c") /\ storage /\ ~crashDue /\ ~dogDue /\ ~loaded
    /\ loaded' = seen
    /\ UNCHANGED <<watchVars, kept, fatal, writing, snapshot, named, crashDue, dogDue, verified, storage, resets, recordVars>>

BootStorage(ok) == CrashAppend(ok) \/ CrashAcknowledge(ok) \/ tryPersistWatchdogReset(ok) \/ BootstrapConfig(ok)

\* power-on: the retained memory holds nothing valid
EvidenceInit ==
    /\ hung = {} /\ beats = {} /\ primed = FALSE /\ armed = FALSE
    /\ wait = Window /\ dog = 0 /\ fed = TRUE /\ judging = FALSE /\ stalled = 0
    /\ kept = CleanKept /\ fatal = NoRecord /\ writing = 0
    /\ snapshot = 0 /\ named = {} /\ crashDue = FALSE /\ dogDue = FALSE /\ verified = FALSE
    /\ storage \in BOOLEAN /\ loaded = FALSE
    /\ resets = 0 /\ captured = 0 /\ filed = {} /\ acknowledged = {}

EvidenceNext ==
    \/ MarkFirst \/ MarkSecond
    \/ \E t \in Tasks : Hang(t)
    \/ EvidenceTick \/ evaluate \/ evaluateEnds \/ WatchdogReset \/ ButtonReset
    \/ FatalFault \/ WriteRecord \/ CaptureReset \/ CaptureCut
    \/ \E ok \in BOOLEAN : BootStorage(ok)

EvidenceSpec == EvidenceInit /\ [][EvidenceNext]_evidenceVars

-----------------------------------------------------------------------------
(* Once the hardware watchdog is armed, a critical or health task that stops *)
(* resets the processor within one evaluation window and one timeout, even    *)
(* when it stops right after beating (watchdog::evaluate, hwPet).             *)
StallIsBounded == stalled <= Window + Timeout

(* The hardware watchdog never resets a processor whose critical tasks and    *)
(* health task all run, although feeds are lost to register synchronisation.  *)
HealthyIsNotReset == dog = Timeout => hung \cap (CriticalTasks \cup {"Health"}) # {}

(* The boot after a watchdog reset names only tasks that really hung, and at  *)
(* least one when the health task lived to see it, unless the reset fell      *)
(* between the two stores of a pair: watchdog::init then discards all of the  *)
(* evidence (watchdog::evaluate, markProgress).                               *)
ResetNamesCulprit ==
    [][WatchdogReset => /\ named' \subseteq hung
                        /\ "Health" \notin hung => named' # {} \/ ~KeptValid]_evidenceVars

(* A fatal fault whose record was completed is reported by every boot until   *)
(* its line, on the card, has been acknowledged: no reset, however timed, no  *)
(* failed write or query and no absent card loses it.                         *)
CrashSurvives ==
    /\ captured # 0 /\ captured \notin acknowledged /\ Running =>
          RetainedValid /\ fatal.body = captured /\ snapshot = captured /\ crashDue
    /\ acknowledged \subseteq filed

(* A fault that was acknowledged is not reported by a later boot.  Until then *)
(* it is reported and filed again, although a line of it may be in the file.  *)
AcknowledgedOnce == [][resets' # resets => snapshot' \notin acknowledged]_evidenceVars

(* Whatever was retained, a boot with a working card that no reset or hang    *)
(* cuts short loads the configuration after the evidence is filed.            *)
ConfigIsLoaded == <>[](Live("I2c") /\ storage) => <>loaded

(***************************************************************************)
(* A task that stops is caught in time, a healthy robot is never reset, and *)
(* what stopped it survives the reset, names the culprit and is filed, and  *)
(* no longer reported once that is acknowledged.                            *)
(***************************************************************************)
StallsAreCaught ==
    /\ [](StallIsBounded /\ HealthyIsNotReset /\ CrashSurvives)
    /\ ResetNamesCulprit /\ AcknowledgedOnce
=============================================================================
