------------------------------- MODULE SensorBus -------------------------------
(***************************************************************************)
(* The sensor bus that i2cTask owns (app/tasks.cpp): the foot boards behind   *)
(* the one-hot multiplexer (sensors/i2c_bus.cpp, i2c_topology.cpp), their     *)
(* discovery, lazy power-up and round-robin polling (finger_sensor.cpp), and  *)
(* the orientation sensor (bno085.cpp).                                       *)
(*                                                                           *)
(* All six boards answer at the same two addresses, so what a transfer        *)
(* reaches depends on the multiplexer's register alone.  A transfer succeeds, *)
(* or fails with its effect on the device made or not made; a failure that    *)
(* needs the bus recovered costs time and nothing else.  Boards are unplugged *)
(* and reseated at any time; a reseated board answers but is powered down.    *)
(***************************************************************************)
EXTENDS Integers, FiniteSets

CONSTANTS Feet,      \* number of foot channels (6)
          MaxFaults, \* bound on failed transfers
          MaxReseats,\* bound on boards unplugged
          MaxScans   \* bound on scans the host requests

ASSUME BusBounds == Feet \in Nat \ {0}

VARIABLES
    \* the devices
    route,      \* channels the multiplexer connects
    plugged,    \* channels with a board that answers
    powered,    \* channels whose board is powered up
    hub,        \* the orientation hub: "reporting", "reset" (not yet told), "silent"
    \* i2cTask
    job,        \* what the pass is in the middle of, and for which channel
    muxThere,   \* topology.mux_present
    footMask,   \* g_footPresentMask
    configured, \* configured_mask
    pollCh,     \* poll_ch
    imuValid,   \* g_imuSnapshot.valid
    scanAsked,  \* scanSeq() differs from applied_scan_seq
    \* history
    evidence,   \* the last result attributed to a foot, and where it came from
    found,      \* the channels each foot's classification came from
    unnoticed,  \* boards reseated without a failed read in between
    enableLost, \* the hub's feature request failed
    faults, reseats, scans

deviceVars == <<route, plugged, powered>>
imuVars == <<hub, imuValid, enableLost>>
busVars == <<deviceVars, imuVars, job, muxThere, footMask, configured, pollCh, scanAsked,
             evidence, found, unnoticed, faults, reseats, scans>>

Channels == 0..(Feet - 1)
Idle == [at |-> "idle", ch |-> 0]
NoEvidence == [foot |-> 0, ok |-> FALSE, from |-> {}]

-----------------------------------------------------------------------------
\* a transfer that failed, within the bound
Transfer(ok) == /\ ok \/ faults < MaxFaults
                /\ faults' = IF ok THEN faults ELSE faults + 1

\* selectChannel(), selectNone(): one write replaces the whole register
Select(mask, ok) ==
    /\ Transfer(ok)
    /\ IF ok THEN route' = mask ELSE route' \in {route, mask}

\* the boards a transfer to a foot address reaches
Reached == route \cap plugged

-----------------------------------------------------------------------------

\* the poll of one foot, when no other work of this pass is open
PollChannel(ch, ok) ==
    /\ Select({ch}, ok)
    /\ IF ok THEN job' = [at |-> "read", ch |-> ch] /\ UNCHANGED <<configured, evidence>>
       ELSE /\ job' = [at |-> "release", ch |-> ch]
            /\ configured' = configured \ {ch}
            /\ evidence' = [foot |-> ch, ok |-> FALSE, from |-> {}]

PollBegin ==
    /\ job.at = "idle" /\ ~scanAsked /\ muxThere
    /\ pollCh' = (pollCh + 1) % Feet
    /\ IF pollCh \in footMask THEN \E ok \in BOOLEAN : PollChannel(pollCh, ok)
       ELSE UNCHANGED <<route, job, configured, evidence, faults>>
    /\ UNCHANGED <<plugged, powered, imuVars, muxThere, footMask, scanAsked, found, unnoticed, reseats, scans>>

\* configureChannel() on the first visit, then readFoot(); a board that answers
\* powered down reads as well as one that was set up
Configures(ch, setUp) == ch \notin configured /\ setUp

StaysConfigured(ch, setUp, ok) == ok /\ (ch \in configured \/ Configures(ch, setUp))

PollRead ==
    /\ job.at = "read"
    /\ \E setUp, ok \in BOOLEAN :
        LET ch == job.ch IN
            /\ (Configures(ch, setUp) \/ ok) => Reached # {}
            /\ ch \in configured => setUp
            /\ Reached # {} => Transfer(setUp /\ ok)
            /\ Reached = {} => UNCHANGED faults
            /\ powered' = IF Configures(ch, setUp) THEN powered \cup Reached ELSE powered
            /\ configured' = IF StaysConfigured(ch, setUp, ok) THEN configured \cup {ch} ELSE configured \ {ch}
            /\ evidence' = [foot |-> ch, ok |-> ok, from |-> Reached]
            /\ unnoticed' = IF ok THEN unnoticed ELSE unnoticed \ {ch}
            /\ job' = [at |-> "release", ch |-> ch]
    /\ UNCHANGED <<route, plugged, imuVars, muxThere, footMask, pollCh, scanAsked, found, reseats, scans>>

PollRelease ==
    /\ job.at = "release"
    /\ \E ok \in BOOLEAN : Select({}, ok)
    /\ job' = Idle
    /\ UNCHANGED <<plugged, powered, imuVars, muxThere, footMask, configured, pollCh, scanAsked,
                   evidence, found, unnoticed, reseats, scans>>

-----------------------------------------------------------------------------
\* initTopology(), scanRoot(): the multiplexer is probed and released
ScanRoot ==
    /\ job.at = "idle" /\ scanAsked
    /\ \E there, ok \in BOOLEAN :
        /\ there \/ faults < MaxFaults
        /\ IF ok THEN route' = {} ELSE route' \in {route, {}} /\ faults < MaxFaults
        /\ faults' = IF there /\ ok THEN faults ELSE faults + 1
        /\ muxThere' = there
        /\ job' = IF there THEN [at |-> "scan", ch |-> 0] ELSE Idle
    /\ footMask' = {} /\ configured' = {}
    /\ found' = [c \in Channels |-> {}]
    /\ scanAsked' = FALSE
    /\ UNCHANGED <<plugged, powered, imuVars, pollCh, evidence, unnoticed, reseats, scans>>

\* scanChannels(): a channel that cannot be selected counts as missing
Classified(ch, ok) == IF ok /\ Reached' # {} THEN footMask \cup {ch} ELSE footMask

ScanChannel ==
    /\ job.at = "scan"
    /\ \E ok \in BOOLEAN :
        /\ Select({job.ch}, ok)
        /\ UNCHANGED plugged
        /\ footMask' = Classified(job.ch, ok)
        /\ found' = [found EXCEPT ![job.ch] = Reached']
    /\ job' = IF job.ch + 1 = Feet THEN [at |-> "release", ch |-> job.ch] ELSE [job EXCEPT !.ch = @ + 1]
    /\ UNCHANGED <<powered, imuVars, muxThere, configured, pollCh, scanAsked, evidence, unnoticed, reseats, scans>>

HostScan ==
    /\ ~scanAsked /\ scans < MaxScans
    /\ scanAsked' = TRUE /\ scans' = scans + 1
    /\ UNCHANGED <<deviceVars, imuVars, job, muxThere, footMask, configured, pollCh, evidence, found,
                   unnoticed, faults, reseats>>

-----------------------------------------------------------------------------

\* Bno085::read(): the report of a reset makes it request the feature again, once
ReadHub(ok) ==
    /\ Transfer(ok)
    /\ hub' = IF hub = "reset" THEN (IF ok THEN "reporting" ELSE "silent") ELSE hub
    /\ imuValid' = (hub = "reporting" /\ ok)
    /\ enableLost' = (enableLost \/ (hub = "reset" /\ ~ok))

ReadImu ==
    /\ job.at = "idle"
    /\ \E ok \in BOOLEAN : ReadHub(ok)
    /\ UNCHANGED <<deviceVars, job, muxThere, footMask, configured, pollCh, scanAsked, evidence, found,
                   unnoticed, reseats, scans>>

HubReset ==
    /\ hub = "reporting" /\ reseats < MaxReseats
    /\ hub' = "reset" /\ reseats' = reseats + 1
    /\ UNCHANGED <<deviceVars, imuValid, enableLost, job, muxThere, footMask, configured, pollCh, scanAsked,
                   evidence, found, unnoticed, faults, scans>>

\* a board leaves, and comes back powered down
Unplug(ch) ==
    /\ ch \in plugged /\ reseats < MaxReseats
    /\ plugged' = plugged \ {ch} /\ powered' = powered \ {ch}
    /\ unnoticed' = unnoticed \cup {ch}
    /\ reseats' = reseats + 1
    /\ UNCHANGED <<route, imuVars, job, muxThere, footMask, configured, pollCh, scanAsked, evidence, found,
                   faults, scans>>

Reseat(ch) ==
    /\ ch \in Channels \ plugged
    /\ plugged' = plugged \cup {ch}
    /\ UNCHANGED <<route, powered, imuVars, job, muxThere, footMask, configured, pollCh, scanAsked, evidence,
                   found, unnoticed, faults, reseats, scans>>

\* boot: the task begins with a scan, and the hub was enabled by begin()
BusInit ==
    /\ route = {} /\ plugged = Channels /\ powered = {} /\ hub = "reporting"
    /\ job = Idle /\ muxThere = FALSE /\ footMask = {} /\ configured = {} /\ pollCh = 0
    /\ imuValid = FALSE /\ scanAsked = TRUE
    /\ evidence = NoEvidence /\ found = [c \in Channels |-> {}] /\ unnoticed = {}
    /\ enableLost = FALSE /\ faults = 0 /\ reseats = 0 /\ scans = 0

BusWork == PollBegin \/ PollRead \/ PollRelease \/ ScanRoot \/ ScanChannel

BusNext ==
    \/ BusWork \/ ReadImu
    \/ HostScan \/ HubReset
    \/ \E ch \in Channels : Unplug(ch) \/ Reseat(ch)

BusSpec == BusInit /\ [][BusNext]_busVars

-----------------------------------------------------------------------------
(* What is attributed to a foot came from that foot's board and no other:     *)
(* neither a sample nor the classification of a scan is read through the      *)
(* channel an earlier transfer left selected, although any write to the       *)
(* multiplexer may fail, with or without effect (selectChannel, i2cTask).     *)
SampleIsOwn ==
    /\ evidence.ok => evidence.from = {evidence.foot}
    /\ \A ch \in footMask : found[ch] = {ch}

(* A foot that is present and stays plugged in is powered up in the end,      *)
(* after failed reads, failed selections and any reseating that a failed read *)
(* noticed (configured_mask).                                                 *)
ReseatedIsPowered ==
    \A ch \in Channels :
        <>[](muxThere /\ ch \in footMask /\ ch \in plugged) => <>[](ch \in powered \/ ch \in unnoticed)

(* After the hub resets itself its orientation becomes valid again, unless    *)
(* the one request that re-enables it was lost (Bno085::read).                *)
OrientationResumes == hub = "reset" ~> (hub = "reporting" /\ imuValid) \/ enableLost

-----------------------------------------------------------------------------
(***************************************************************************)
(* The contact estimator of one foot (sensors/contact_estimator.cpp): the     *)
(* debounced classification of proximity and pressure samples, its fault and  *)
(* staleness paths, and the calibration that i2cTask re-applies at run time   *)
(* (app/tasks.cpp).  The six feet are independent.                            *)
(*                                                                           *)
(* Pressure is a small integer, a delta against the tracked baseline as in    *)
(* the code.  Time is counted in ticks of the staleness check.                *)
(***************************************************************************)

CONSTANTS Debounce,   \* touch_debounce = load_debounce = release_debounce
          FaultLimit, \* fault_limit
          StaleAfter, \* stale_timeout_ms
          Pressures,  \* raw pressure readings
          Thresholds, \* the <<touch, load>> pairs a configuration or the host may give
          MaxConfigs  \* bound on calibrations, captures and configurations

ASSUME ContactBounds == Debounce \in Nat \ {0} /\ FaultLimit \in Nat \ {0} /\ StaleAfter \in Nat \ {0}

VARIABLES contact,   \* st.state
          baseline,  \* st.pressure_baseline
          raw,       \* st.pressure_raw
          enabled,   \* c.enabled
          thresh,    \* <<c.touch_thresh, c.load_thresh>>
          staged,    \* what SensorApi holds for this foot, zero until the host sets it
          moved,     \* thresholdSeq() is ahead of applied_threshold_seq
          count,     \* the debounce and fault counters
          age,       \* ticks since last_ok_ms
          seen,      \* c.seen
          \* history
          pressed,   \* how many samples in a row reached the touch or the load threshold
          lifted,    \* how many samples in a row were released
          silent,    \* ticks since a valid sample of this foot, over configurations
          configs    \* configurations, captures and threshold changes so far

contactVars == <<contact, baseline, raw, enabled, thresh, staged, moved, count, age, seen, pressed, lifted, silent, configs>>

Claims == {"Touch", "Loaded"}

NoCounts == [touch |-> 0, load |-> 0, release |-> 0, fault |-> 0]

-----------------------------------------------------------------------------
\* saturating counters
UpTo(n, limit) == IF n < limit THEN n + 1 ELSE n

\* release_thresh: half of the touch threshold
ReleaseThresh == thresh[1] \div 2

CountedOnlyUp(delta, near) ==
    [touch   |-> IF delta >= thresh[1] THEN UpTo(count.touch, Debounce) ELSE count.touch,
     load    |-> IF delta >= thresh[2] THEN UpTo(count.load, Debounce) ELSE 0,
     release |-> IF delta <= ReleaseThresh /\ ~near
                THEN UpTo(IF delta >= thresh[1] THEN 0 ELSE count.release, Debounce) ELSE 0,
     fault   |-> 0]

\* update(): the counters after a valid sample
Counted(delta, near) ==
    [touch   |-> IF delta >= thresh[1] THEN UpTo(count.touch, Debounce) ELSE 0,
     load    |-> IF delta >= thresh[2] THEN UpTo(count.load, Debounce) ELSE 0,
     release |-> IF delta <= ReleaseThresh /\ ~near
                THEN UpTo(IF delta >= thresh[1] THEN 0 ELSE count.release, Debounce) ELSE 0,
     fault   |-> 0]

\* update(): the state machine
Pressed(n, otherwise) ==
    IF n.load >= Debounce THEN "Loaded" ELSE IF n.touch >= Debounce THEN "Touch" ELSE otherwise

NextContact(n, near) ==
    CASE contact \in {"Air", "Stale", "Fault", "Release"} -> Pressed(n, IF near THEN "Near" ELSE "Air")
      [] contact = "Near" -> Pressed(n, IF near THEN "Near" ELSE "Air")
      [] contact = "Touch" -> IF n.load >= Debounce THEN "Loaded"
                              ELSE IF n.release >= Debounce THEN "Release" ELSE "Touch"
      [] contact = "Loaded" -> IF n.release >= Debounce THEN "Release" ELSE "Loaded"

\* baseline tracking: an unloaded foot drifts one count towards the reading
Tracked(state, p) ==
    IF state \notin {"Air", "Near"} THEN baseline
    ELSE IF p > baseline THEN baseline + 1
    ELSE IF p < baseline THEN baseline - 1 ELSE baseline

\* update() with a valid sample
Sample(p, near) ==
    LET delta == p - baseline
        n == Counted(delta, near)
    IN  /\ raw' = p
        /\ age' = 0 /\ seen' = TRUE /\ silent' = 0
        /\ IF enabled
           THEN /\ count' = n
                /\ contact' = NextContact(n, near)
                /\ baseline' = Tracked(NextContact(n, near), p)
                /\ pressed' = IF delta >= thresh[1] \/ delta >= thresh[2] THEN UpTo(pressed, Debounce) ELSE 0
                /\ lifted' = IF delta <= ReleaseThresh /\ ~near THEN UpTo(lifted, Debounce) ELSE 0
           ELSE /\ count' = [count EXCEPT !.fault = 0]
                /\ contact' = "Air"
                /\ UNCHANGED <<baseline, pressed, lifted>>
        /\ UNCHANGED <<enabled, thresh, staged, moved, configs>>

\* update() with a failed read
SampleFailed ==
    LET f == UpTo(count.fault, FaultLimit) IN
        /\ count' = [count EXCEPT !.fault = f]
        /\ contact' = IF f >= FaultLimit THEN "Fault" ELSE contact
        /\ UNCHANGED <<baseline, raw, enabled, thresh, staged, moved, age, seen, pressed, lifted, silent, configs>>

\* tickStaleness(), once per pass
GoesStale(a) == contact # "Fault" /\ seen /\ a >= StaleAfter

tickStaleness ==
    LET a == UpTo(age, StaleAfter) IN
        /\ age' = a
        /\ contact' = IF GoesStale(a) THEN "Stale" ELSE contact
        /\ silent' = UpTo(silent, StaleAfter)
        /\ UNCHANGED <<baseline, raw, enabled, thresh, staged, moved, count, seen, pressed, lifted, configs>>

\* thresholds that can classify
Usable(t) == t[1] > 0 /\ t[2] >= t[1]

\* configure(), on every configuration revision: counters restart, the published
\* state is left as it was; a valid configuration enables only usable feet
configure ==
    /\ configs < MaxConfigs
    /\ \E t \in Thresholds, e \in BOOLEAN, b \in Pressures :
        (e => Usable(t)) /\ thresh' = t /\ enabled' = e /\ baseline' = b
    /\ count' = NoCounts
    /\ age' = 0 /\ seen' = FALSE
    /\ pressed' = 0 /\ lifted' = 0
    /\ configs' = configs + 1
    /\ UNCHANGED <<contact, raw, staged, moved, silent>>

\* CONTACT_SET_THRESHOLDS for this foot (own) or for another one: apiTask stages it
StageThresholds(own) ==
    /\ configs < MaxConfigs
    /\ IF own THEN \E t \in Thresholds : staged' = t ELSE UNCHANGED staged
    /\ moved' = TRUE
    /\ configs' = configs + 1
    /\ UNCHANGED <<contact, baseline, raw, enabled, thresh, count, age, seen, pressed, lifted, silent>>

\* i2cTask applies the staged thresholds of all six feet; live state and counters stay
SetThresholds ==
    /\ moved /\ moved' = FALSE
    /\ thresh' = staged
    /\ UNCHANGED <<contact, baseline, raw, enabled, staged, count, age, seen, pressed, lifted, silent, configs>>

\* a calibration request: captureBaseline(), then setEnabled(TRUE), which
\* refuses thresholds that cannot classify
Calibrate ==
    /\ configs < MaxConfigs
    /\ baseline' = raw
    /\ enabled' = (enabled \/ Usable(thresh))
    /\ configs' = configs + 1
    /\ UNCHANGED <<contact, raw, thresh, staged, moved, count, age, seen, pressed, lifted, silent>>

ContactInit ==
    /\ contact = "Air" /\ baseline = 0 /\ raw = 0 /\ enabled = FALSE /\ thresh = <<0, 0>>
    /\ staged = <<0, 0>> /\ moved = FALSE
    /\ count = NoCounts /\ age = 0 /\ seen = FALSE
    /\ pressed = 0 /\ lifted = 0 /\ silent = 0 /\ configs = 0

ContactNext ==
    \/ \E p \in Pressures, near \in BOOLEAN : Sample(p, near)
    \/ SampleFailed \/ tickStaleness
    \/ configure \/ Calibrate
    \/ SetThresholds \/ \E own \in BOOLEAN : StageThresholds(own)

ContactSpec == ContactInit /\ [][ContactNext]_contactVars

-----------------------------------------------------------------------------
(* A foot newly claims contact only after Debounce consecutive valid samples  *)
(* over a threshold in force, also when it recovers from a fault or from      *)
(* silence and when thresholds change in between.  The load threshold counts  *)
(* as well as the touch threshold: setThresholds() takes the host's pair      *)
(* unchecked, and the load threshold may be the lower one.                    *)
ContactIsDebounced == [][contact \notin Claims /\ contact' \in Claims => pressed' >= Debounce]_contactVars

(* A claim of contact ends only by a debounced release, a fault, silence or a *)
(* foot that no longer classifies: one light sample never lifts a loaded foot.*)
ReleaseIsDebounced ==
    [][(contact \in Claims /\ contact' \notin Claims) =>
          \/ lifted' >= Debounce
          \/ contact' \in {"Fault", "Stale"}
          \/ enabled' = FALSE]_contactVars

(* A claim of contact rests on a sample younger than the stale timeout, or on *)
(* a configuration newer than any sample.                                     *)
ContactIsFreshOnceSeen == contact \in Claims /\ seen => silent < StaleAfter

(***************************************************************************)
(* A foot's contact is that foot's: read through its own multiplexer        *)
(* channel, debounced both ways and never older than its timeout.           *)
(***************************************************************************)
ContactIsTrue ==
    /\ [](SampleIsOwn /\ ContactIsFreshOnceSeen)
    /\ ContactIsDebounced /\ ReleaseIsDebounced
=============================================================================
