------------------------------- MODULE HostSettings -------------------------------
EXTENDS FiniteSets, Integers, Sequences

(***************************************************************************)
(* Host requests that other tasks carry out later: the motion intent, the    *)
(* feature switches, and the sensor requests i2cTask serves between polls   *)
(* (protocol/motion_api.cpp, feature_api.cpp, sensor_api.cpp; the consumers  *)
(* in controlTask and i2cTask of app/tasks.cpp).  apiTask preempts i2cTask   *)
(* and controlTask preempts both.                                            *)
(*                                                                         *)
(* A scan and a calibration are carried out over several steps of i2cTask;   *)
(* their request counters are 32 bits and are kept modulo CountMod.            *)
(***************************************************************************)

CONSTANTS
    Feet,       \* feet with a sensor channel
    CountMod,     \* range of a request counter
    MaxAsked    \* bound on the requests of a behaviour

\* fewer requests reach i2cTask than a 32-bit counter can tell apart
ASSUME RequestsAssumption ==
    CountMod \in Nat \ {0, 1} /\ MaxAsked \in Nat /\ MaxAsked < CountMod /\ IsFiniteSet(Feet)

Features == {"SensorPolling", "FootContact", "TerrainLeveling"}

\* kFeatureDefaultEnabled
DefaultEnabled == [f \in Features |-> f = "SensorPolling"]

VARIABLES
    requested,     \* requests so far
    intent,    \* MotionIntent: twist, gait
    driven,    \* the twist of the last control cycle
    stopped,   \* the host was told Ok for STOP_MOTION, and for no twist since
    passive,   \* PassivePoseStream holds
    desired, available,  \* FeatureApi, per feature
    sensing,   \* what i2cTask last published: mux and feet present, or stale
    polling,   \* g_sensorPollingEnabled
    revised,   \* the configuration changed and i2cTask has not applied it
    scan, cal, \* SensorApi: request counters, mask of the latest calibration
    i2c,       \* i2cTask: its place, and the counters it read and applied
    owed       \* of the latest requests: is a scan owed, and feet owed a baseline

requestVars == <<requested, intent, driven, stopped, passive, desired, available,
                 sensing, polling, revised, scan, cal, i2c, owed>>
motionVars == <<intent, driven, stopped, passive>>
featureVars == <<desired, available, polling>>
stageVars == <<scan, cal, i2c, owed>>

RequestsInit ==
    /\ requested = 0
    /\ intent = [twist |-> 0, gait |-> "Stand"] /\ driven = 0 /\ stopped = FALSE /\ passive = FALSE
    /\ desired = DefaultEnabled
    /\ available = [f \in Features |-> FALSE]
    /\ sensing = [fresh |-> FALSE, mux |-> FALSE, feet |-> {}] /\ polling = FALSE
    /\ revised = FALSE
    /\ scan = 0 /\ cal = [seq |-> 0, mask |-> {}]
    /\ i2c = [pc |-> "config", want |-> 0, scanned |-> 0, calibrated |-> 0, feet |-> {}]
    /\ owed = [scan |-> FALSE, feet |-> {}]

Ask == requested < MaxAsked /\ requested' = requested + 1

-----------------------------------------------------------------------------
(* apiTask: motion.  In the passive stream only STOP_MOTION is taken. *)

SetBodyTwist(v) ==
    /\ Ask /\ ~passive
    /\ intent' = [intent EXCEPT !.twist = v] /\ stopped' = FALSE
    /\ UNCHANGED <<driven, passive, sensing, revised>> /\ UNCHANGED featureVars /\ UNCHANGED stageVars

SetGait(g) ==
    /\ Ask /\ ~passive
    /\ intent' = [intent EXCEPT !.gait = g]
    /\ UNCHANGED <<driven, stopped, passive, sensing, revised>> /\ UNCHANGED featureVars /\ UNCHANGED stageVars

StopMotion ==
    /\ Ask
    /\ intent' = [twist |-> 0, gait |-> "Stand"] /\ stopped' = TRUE
    /\ UNCHANGED <<driven, passive, sensing, revised>> /\ UNCHANGED featureVars /\ UNCHANGED stageVars

(* features: enabling needs the feature available, disabling does not *)

applyDesired(f, on) ==
    /\ on => available[f]
    /\ desired' = [desired EXCEPT ![f] = on]

FeatureRequest ==
    /\ Ask
    /\ UNCHANGED <<available, sensing, polling, revised>> /\ UNCHANGED motionVars /\ UNCHANGED stageVars

\* FEATURE_SET, for any feature
FeatureSet(f, on) == FeatureRequest /\ applyDesired(f, on)

\* CONTACT_ENABLE, CONTACT_DISABLE, LEVELING_ENABLE and LEVELING_DISABLE switch the same
\* features under message ids of their own
applyFeature(f, on) == FeatureRequest /\ applyDesired(f, on)
SensorSwitch(on) == applyFeature("FootContact", on) \/ applyFeature("TerrainLeveling", on)

FeatureResetDefaults == FeatureRequest /\ desired' = DefaultEnabled

(* sensor requests *)

I2cScan ==
    /\ Ask
    /\ scan' = (scan + 1) % CountMod /\ owed' = [owed EXCEPT !.scan = TRUE]
    /\ UNCHANGED <<cal, i2c, sensing, revised>> /\ UNCHANGED motionVars /\ UNCHANGED featureVars

\* Refused when none of the feet is present; replaces the mask of a request that
\* i2cTask has not served
stageCalibrate(mask) ==
    /\ Ask
    /\ sensing.feet \cap mask # {}
    /\ cal' = [seq |-> (cal.seq + 1) % CountMod, mask |-> mask]
    /\ owed' = [owed EXCEPT !.feet = mask]
    /\ UNCHANGED <<scan, i2c, sensing, revised>> /\ UNCHANGED motionVars /\ UNCHANGED featureVars

\* CONTACT_CALIBRATE of one foot or of all (0xFF); SENSOR_CALIBRATE always means all
ContactCalibrate(feet) == stageCalibrate(feet)
SensorCalibrate == stageCalibrate(Feet)

CommitConfig ==
    /\ Ask /\ ~revised /\ revised' = TRUE
    /\ UNCHANGED sensing /\ UNCHANGED motionVars /\ UNCHANGED featureVars /\ UNCHANGED stageVars

-----------------------------------------------------------------------------
(* controlTask: takes the intent, then refreshes the features *)

EffectiveOf(d, a, f) == d[f] /\ a[f]

AvailableNow(mux, foot) ==
    [f \in Features |->
        CASE f = "SensorPolling" -> mux
          [] f = "FootContact" -> mux /\ foot /\ desired["SensorPolling"]
          [] f = "TerrainLeveling" -> FALSE]

updateFeatureFlags ==
    /\ available' = AvailableNow(sensing.fresh /\ sensing.mux, sensing.fresh /\ sensing.feet # {})
    /\ polling' = EffectiveOf(desired, available', "SensorPolling")

ControlCycleRuns(toPassive) ==
    /\ driven' = IF toPassive THEN 0 ELSE intent.twist
    /\ passive' = toPassive
    /\ updateFeatureFlags
    /\ UNCHANGED <<requested, intent, stopped, desired, sensing, revised>> /\ UNCHANGED stageVars

-----------------------------------------------------------------------------
(* i2cTask, one pass per cycle *)

I2cAt(p, q) == i2c.pc = p /\ i2c' = [i2c EXCEPT !.pc = q]

setDefaults(gait) == [intent EXCEPT !.gait = gait]
applyDefaults(mask) == [f \in Features |-> f \in mask]

\* A configuration change reseeds the gait of the intent, which keeps its twist, and
\* the features
I2cAppliesConfig(gait, mask) ==
    /\ I2cAt("config", "scan")
    /\ intent' = IF revised THEN setDefaults(gait) ELSE intent
    /\ desired' = IF revised THEN applyDefaults(mask) ELSE desired
    /\ revised' = FALSE
    /\ UNCHANGED <<requested, driven, stopped, passive, available, sensing, polling, scan, cal, owed>>

I2cReadsScan ==
    /\ i2c.pc = "scan"
    /\ i2c' = [i2c EXCEPT !.pc = IF scan # i2c.scanned THEN "scanning" ELSE "cal", !.want = scan]
    /\ owed' = IF scan # i2c.scanned THEN [owed EXCEPT !.scan = FALSE] ELSE owed
    /\ UNCHANGED <<requested, scan, cal, sensing, revised>> /\ UNCHANGED motionVars /\ UNCHANGED featureVars

\* The scan is over: the count it was started for is the one it answers
AnswersPresentCount == i2c' = [i2c EXCEPT !.pc = "cal", !.scanned = scan]
AnswersOwnCount == i2c' = [i2c EXCEPT !.pc = "cal", !.scanned = i2c.want]
I2cScanned(mux, feet) ==
    /\ i2c.pc = "scanning" /\ AnswersOwnCount
    /\ sensing' = [sensing EXCEPT !.mux = mux, !.feet = IF mux THEN feet ELSE {}]
    /\ UNCHANGED <<requested, scan, cal, owed, revised>> /\ UNCHANGED motionVars /\ UNCHANGED featureVars

I2cReadsCal ==
    /\ i2c.pc = "cal"
    /\ i2c' = [i2c EXCEPT !.pc = IF cal.seq # i2c.calibrated THEN "mask" ELSE "publish", !.want = cal.seq]
    /\ UNCHANGED <<requested, scan, cal, owed, sensing, revised>> /\ UNCHANGED motionVars /\ UNCHANGED featureVars

I2cReadsMask ==
    /\ i2c.pc = "mask"
    /\ i2c' = [i2c EXCEPT !.pc = "capture", !.feet = cal.mask]
    /\ UNCHANGED <<requested, scan, cal, owed, sensing, revised>> /\ UNCHANGED motionVars /\ UNCHANGED featureVars

I2cCaptures ==
    /\ i2c.pc = "capture"
    /\ IF i2c.feet = {} THEN i2c' = [i2c EXCEPT !.pc = "publish", !.calibrated = i2c.want] /\ owed' = owed
       ELSE \E x \in i2c.feet : /\ i2c' = [i2c EXCEPT !.feet = @ \ {x}]
                                /\ owed' = [owed EXCEPT !.feet = @ \ {x}]
    /\ UNCHANGED <<requested, scan, cal, sensing, revised>> /\ UNCHANGED motionVars /\ UNCHANGED featureVars

I2cPublishes ==
    /\ I2cAt("publish", "config")
    /\ sensing' = [sensing EXCEPT !.fresh = TRUE]
    /\ UNCHANGED <<requested, scan, cal, owed, revised>> /\ UNCHANGED motionVars /\ UNCHANGED featureVars

\* i2cTask is held up long enough for its readings to be stale
SensingAges ==
    /\ sensing.fresh /\ sensing' = [sensing EXCEPT !.fresh = FALSE]
    /\ UNCHANGED <<requested, revised>> /\ UNCHANGED motionVars /\ UNCHANGED featureVars /\ UNCHANGED stageVars

I2cStep ==
    \/ \E mask \in {{"SensorPolling"}, {"FootContact", "TerrainLeveling"}} : I2cAppliesConfig("Tripod", mask)
    \/ I2cReadsScan \/ I2cReadsCal \/ I2cReadsMask \/ I2cCaptures \/ I2cPublishes
    \/ \E m \in BOOLEAN, s \in SUBSET Feet : I2cScanned(m, s)

RequestsNext ==
    \/ SetBodyTwist(1) \/ SetGait("Tripod") \/ StopMotion
    \/ \E f \in Features, on \in BOOLEAN : FeatureSet(f, on)
    \/ (\E on \in BOOLEAN : SensorSwitch(on)) \/ FeatureResetDefaults
    \/ I2cScan \/ CommitConfig \/ SensingAges \/ I2cStep
    \/ (\E m \in {{x} : x \in Feet} \cup {Feet} : ContactCalibrate(m)) \/ SensorCalibrate
    \/ \E p \in BOOLEAN : ControlCycleRuns(p)

RequestsSpec == RequestsInit /\ [][RequestsNext]_requestVars

-----------------------------------------------------------------------------
(* Properties *)

\* Once STOP_MOTION was answered, no control cycle after it drives a twist until
\* the host commands one: a reseeded intent or the end of a passive stream does not
\* bring the old one back
StopMeansStill == [][stopped /\ driven' # driven => driven' = 0]_requestVars

\* After every control cycle foot contact is on only while the sensors are polled
\* and i2cTask's readings are fresh, whatever was switched or reseeded in between
ContactNeedsPolling ==
    [][available' # available /\ EffectiveOf(desired', available', "FootContact")
            => polling' /\ sensing.fresh /\ sensing.mux]_requestVars

\* When i2cTask has answered every scan request, a scan was started after the last
\* one, also when that came in during a scan
ScanAfterRequest == i2c.pc # "scanning" /\ i2c.scanned = scan => ~owed.scan

\* When i2cTask has answered every calibration, each foot of the latest accepted
\* request got a baseline after it
CalibrationAfterRequest == i2c.pc \notin {"mask", "capture"} /\ i2c.calibrated = cal.seq => owed.feet = {}

-----------------------------------------------------------------------------
(***************************************************************************)
(* How a CONTROLLER_SET_BINDINGS reaches the RC bridge.  apiTask decodes it  *)
(* into ControllerApi's pending map, and after each frame moves a pending    *)
(* map into a single slot that rcTask empties once per cycle                *)
(* (protocol/controller_api.cpp; apiTask and rcTask of app/tasks.cpp).       *)
(*                                                                         *)
(* rcTask preempts apiTask, so its cycle is one step; the store of the slot *)
(* and the store of its flag are two steps of apiTask.                      *)
(*                                                                         *)
(* A map has NumAxes axis bindings (source and deadband in thousandths; the  *)
(* invert flag is left out), the selectors and switches as one list, and     *)
(* Slots trick bindings.  The fields that are not on the wire always have    *)
(* their default, since every map is decoded over defaultBindings().         *)
(***************************************************************************)

CONSTANTS
    BindMessages,\* the CONTROLLER_SET_BINDINGS payloads the host may send
    DefaultMap,  \* defaultBindings()
    NumAxes,     \* 13 axis bindings
    LastSource,  \* the last valid source, of an axis and of a switch
    LastTrick,   \* TrickId::JumpKick
    FullScale,   \* a deadband of 1.0, in thousandths
    Slots,       \* kMaxTrickBindings
    MaxMessages    \* bound on the frames of a behaviour

ASSUME BindingsAssumption ==
    /\ MaxMessages \in Nat /\ Slots \in Nat \ {0, 1} /\ NumAxes \in Nat /\ FullScale \in Nat
    /\ LastSource \in Nat /\ LastTrick \in Nat
    /\ BindMessages \subseteq Seq(Int)

\* defaultBindings() is itself a map
ASSUME DefaultMapAssumption ==
    /\ DefaultMap \in [axes : [1 .. NumAxes -> (0 .. LastSource) \X (0 .. FullScale)],
                       switches : Seq(0 .. LastSource),
                       tricks : [1 .. Slots -> (0 .. LastSource) \X (0 .. LastTrick)]]

VARIABLES
    pc,          \* apiTask: "wait", "frame" when handled, "slot" when half staged
    pending,     \* ControllerApi pending_ when pending_valid_, else <<>>
    slot,        \* g_ctrlPendingBindings
    slotValid,   \* g_ctrlPendingBindingsValid
    active,      \* the bridge's bindings
    published,   \* g_ctrlBindings
    accepted,    \* the last map the host was told Ok for
    received     \* frames so far

bindVars == <<pc, pending, slot, slotValid, active, published, accepted, received>>

BindInit ==
    /\ pc = "wait" /\ pending = <<>> /\ slot = DefaultMap /\ slotValid = FALSE
    /\ active = DefaultMap /\ published = DefaultMap /\ accepted = DefaultMap /\ received = 0

-----------------------------------------------------------------------------
(* The layout of a map on the wire: axes, switches, tricks.                   *)

NumSwitches == Len(DefaultMap.switches)
FirstTrick == 2 * NumAxes + NumSwitches   \* what comes before the trick pairs
Pairs(in, from, n) == [i \in 1 .. n |-> <<in[from + 2 * i - 1], in[from + 2 * i]>>]

Within(x, last) == 0 <= x /\ x <= last

getAxis(a) == <<a[1], IF a[2] < 0 THEN 0 ELSE IF a[2] > FullScale THEN FullScale ELSE a[2]>>

\* A message of the older layout has one pair less: its last one belongs to the last
\* slot, and the slot before it takes the default
decodeTricks(pairs) ==
    IF Len(pairs) = Slots THEN pairs
    ELSE [i \in 1 .. Slots |->
            IF i = Slots THEN pairs[Slots - 1]
            ELSE IF i = Slots - 1 THEN DefaultMap.tricks[Slots - 1] ELSE pairs[i]]

\* <<map>>, or <<>> for a message that does not validate
decodeBindings(in) ==
    IF Len(in) \notin {FirstTrick + 2 * Slots, FirstTrick + 2 * (Slots - 1)} THEN <<>>
    ELSE LET axes == Pairs(in, 0, NumAxes)
             switches == [i \in 1 .. NumSwitches |-> in[2 * NumAxes + i]]
             pairs == Pairs(in, FirstTrick, (Len(in) - FirstTrick) \div 2)
         IN  IF /\ \A i \in DOMAIN axes : Within(axes[i][1], LastSource)
                /\ \A i \in DOMAIN switches : Within(switches[i], LastSource)
                /\ \A i \in DOMAIN pairs : Within(pairs[i][1], LastSource) /\ Within(pairs[i][2], LastTrick)
             THEN <<[axes |-> [i \in DOMAIN axes |-> getAxis(axes[i])], switches |-> switches,
                     tricks |-> decodeTricks(pairs)]>>
             ELSE <<>>

\* What CONTROLLER_GET_BINDINGS answers: k counts the values written
PairField(pairs, k) == pairs[(k + 1) \div 2][IF k % 2 = 1 THEN 1 ELSE 2]

encodeBindings(c) ==
    [k \in 1 .. FirstTrick + 2 * Slots |->
        IF k <= 2 * NumAxes THEN PairField(c.axes, k)
        ELSE IF k <= FirstTrick THEN c.switches[k - 2 * NumAxes]
        ELSE PairField(c.tricks, k - FirstTrick)]

-----------------------------------------------------------------------------
(* apiTask *)

\* A message that does not validate changes nothing
SetBindings(in) ==
    /\ pc = "wait" /\ received < MaxMessages
    /\ LET m == decodeBindings(in) IN
        IF m # <<>> THEN pending' = m /\ accepted' = m[1] ELSE UNCHANGED <<pending, accepted>>
    /\ pc' = "frame" /\ received' = received + 1
    /\ UNCHANGED <<slot, slotValid, active, published>>

\* Any other frame
OtherFrame ==
    /\ pc = "wait" /\ received < MaxMessages
    /\ pc' = "frame" /\ received' = received + 1
    /\ UNCHANGED <<pending, slot, slotValid, active, published, accepted>>

Stage ==
    /\ pc = "frame"
    /\ IF ~slotValid /\ pending # <<>>
       THEN slot' = pending[1] /\ pending' = <<>> /\ pc' = "slot"
       ELSE UNCHANGED <<slot, pending>> /\ pc' = "wait"
    /\ UNCHANGED <<slotValid, active, published, accepted, received>>

StageFlag ==
    /\ pc = "slot" /\ pc' = "wait"
    /\ slotValid' = TRUE
    /\ UNCHANGED <<pending, slot, active, published, accepted, received>>

\* rcTask
RcAdopts ==
    /\ active' = IF slotValid THEN slot ELSE active
    /\ slotValid' = FALSE
    /\ published' = active'
    /\ UNCHANGED <<pc, pending, slot, accepted, received>>

BindNext ==
    \/ \E in \in BindMessages : SetBindings(in)
    \/ OtherFrame \/ Stage \/ StageFlag \/ RcAdopts

BindSpec == BindInit /\ [][BindNext]_bindVars

-----------------------------------------------------------------------------
(* Properties *)

\* The last map the host was told Ok for is the one in use, or is still on its
\* way: it is never lost to a slot that was full, nor overtaken by an older map
LastBindingsWin ==
    IF pending # <<>> THEN pending[1] = accepted
    ELSE IF slotValid \/ pc = "slot" THEN slot = accepted
    ELSE active = accepted

\* The map that CONTROLLER_GET_BINDINGS reports, sent back unchanged, is the map in use,
\* also when it came from a message of the older layout or with a deadband out of range
BindingsReadBack == decodeBindings(encodeBindings(published)) = <<published>>

(***************************************************************************)
(* A request that was acknowledged takes effect, and no answer is older than *)
(* its request: the last bindings win and read back, scans and calibrations *)
(* start after they were asked for, a stop stays a stop, and foot contact  *)
(* needs polled sensors.                                                   *)
(***************************************************************************)
SettingsAreCurrent ==
    /\ [](LastBindingsWin /\ BindingsReadBack)
    /\ [](ScanAfterRequest /\ CalibrationAfterRequest)
    /\ StopMeansStill /\ ContactNeedsPolling
=============================================================================
