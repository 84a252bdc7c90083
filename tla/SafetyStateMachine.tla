------------------------- MODULE SafetyStateMachine -------------------------
(***************************************************************************)
(* safety::StateMachine (firmware/openrb150/src/safety/state_machine.cpp): *)
(* one call of update() per control cycle, as controller_core.cpp makes    *)
(* it, preceded by requestClearFault() when the operator asked for it.     *)
(*                                                                         *)
(* Each branch of update() that returns is one disjunct of Update, in the  *)
(* order the code tests them.  The timestamps the code subtracts from      *)
(* now_ms are kept as ages that stop growing at the limit they are         *)
(* compared with, so an age says exactly what the code can observe.        *)
(***************************************************************************)
EXTENDS Integers

CONSTANTS
    BatteryLowDebounce,   \* battery_low_debounce_ms, in model ticks
    ArmingTimeout,        \* arming_timeout_ms
    IdleDisarm,           \* idle_disarm_ms; 0 disables the timeout
    MaxPeriod,            \* longest time between two updates
    Inputs                \* the input records the environment may present

Reasons == {"None", "RcKill", "HostEstop", "RcLinkLost", "BatteryLow",
            "Watchdog", "DxlHardware", "ArmingTimeout"}

EstopReasons == {"RcKill", "HostEstop", "RcLinkLost", "BatteryLow", "Watchdog"}

CommandSources == {"None", "Rc", "Jetson", "MacMaintenance"}

(* The millivolt reading and its validity, as far as update() tells apart. *)
Battery == {"invalid", "low", "ok"}

StateInputs ==
    [config_loaded : BOOLEAN, battery : Battery, watchdog_fault : BOOLEAN,
     dxl_hard_fault : BOOLEAN, host_estop : BOOLEAN, rc_kill : BOOLEAN,
     rc_failsafe : BOOLEAN, rc_ever_seen : BOOLEAN, rc_armed : BOOLEAN,
     arming_checks_pass : BOOLEAN, host_disarm : BOOLEAN,
     command_source : CommandSources, jetson_fresh : BOOLEAN,
     rc_autonomy : BOOLEAN, mac_lock_held : BOOLEAN,
     maintenance_request : BOOLEAN, maintenance_failsafe_recovery : BOOLEAN,
     passive_request : BOOLEAN, torque_off : BOOLEAN,
     contact : BOOLEAN, motion_active : BOOLEAN, clear_request : BOOLEAN]

ASSUME ParamAssumption ==
    /\ BatteryLowDebounce \in Nat
    /\ ArmingTimeout \in Nat \ {0}
    /\ IdleDisarm \in Nat
    /\ MaxPeriod \in Nat \ {0}

ASSUME InputAssumption == Inputs \subseteq StateInputs

VARIABLES
    state,                  \* state_
    reason,                 \* reason_
    last_fault_reason,      \* last_fault_reason_
    clear_fault_requested,  \* clear_fault_requested_
    batt_low_active,        \* batt_low_active_
    batt_low_age,           \* now_ms - batt_low_since_ms_
    arming_age,             \* now_ms - arming_since_ms_
    idle_age,               \* now_ms - last_activity_ms_
    arm_release_required    \* arm_release_required_

smVars == <<state, reason, last_fault_reason, clear_fault_requested,
            batt_low_active, batt_low_age, arming_age, idle_age,
            arm_release_required>>

Policy == INSTANCE SafetyPolicy

(* One set per predicate of state_machine.cpp, from the policy module. *)
Operational == Policy!isOperational
IdleEligible == Policy!idleDisarmEligible

(* The bound at which an age stops growing: it is only ever compared with
   its own limit. *)
Age(limit, age, dt) == IF age + dt >= limit THEN limit ELSE age + dt

Init ==
    /\ state = "Boot"
    /\ reason = "None"
    /\ last_fault_reason = "None"
    /\ clear_fault_requested = FALSE
    /\ batt_low_active = FALSE
    /\ batt_low_age = 0
    /\ arming_age = 0
    /\ idle_age = 0
    /\ arm_release_required = TRUE

(* requestClearFault() runs immediately before update(). *)
ClearPending(in) == clear_fault_requested \/ in.clear_request

(* Mutant: the held switch is not remembered outside Disarmed. *)
ReleaseNotReimposed(in) == arm_release_required

(* Arming is edge-qualified: outside boot and Disarmed an asserted arm switch
   re-imposes the release. *)
ReleaseAfterHeldSwitch(in) ==
    \/ arm_release_required
    \/ in.rc_armed /\ state \notin {"Boot", "ConfigLoad", "Disarmed"}

(* The debounced low-battery condition after this sample. *)
BattLowAge(in, dt) ==
    IF in.battery = "low" /\ ~batt_low_active
    THEN 0 ELSE Age(BatteryLowDebounce, batt_low_age, dt)

BattUnsafe(in, dt) ==
    in.battery = "low" /\ BattLowAge(in, dt) >= BatteryLowDebounce

DebounceBattery(in, dt) ==
    /\ batt_low_active' = (in.battery = "low")
    /\ batt_low_age' = BattLowAge(in, dt)

(* A USB maintenance lock may hold off the kill that a stale link
   synthesises, and nothing else. *)
StaleFailsafeRecovery(in) ==
    /\ in.maintenance_failsafe_recovery /\ in.maintenance_request
    /\ in.mac_lock_held /\ in.rc_ever_seen /\ in.rc_kill /\ in.rc_failsafe

FailsafeStop(in) ==
    /\ in.rc_failsafe /\ in.rc_ever_seen
    /\ state \in Operational \cup {"Estop"}
    /\ ~StaleFailsafeRecovery(in)

EstopReason(in, dt) ==
    IF in.host_estop THEN "HostEstop"
    ELSE IF in.rc_kill /\ in.rc_ever_seen /\ ~StaleFailsafeRecovery(in)
    THEN "RcKill"
    ELSE IF BattUnsafe(in, dt) THEN "BatteryLow"
    ELSE IF in.watchdog_fault THEN "Watchdog"
    ELSE IF FailsafeStop(in) THEN "RcLinkLost"
    ELSE "None"

(* Mutant: the first fault is kept instead of the latest. *)
LatchFirstFault(r) ==
    last_fault_reason' = IF last_fault_reason # "None"
                         THEN last_fault_reason ELSE r

(* latchFault() *)
LatchFault(r) ==
    last_fault_reason' = IF r = reason THEN last_fault_reason ELSE r

-----------------------------------------------------------------------------
(* The early returns of update(), in order. *)

DxlHardFault(in, dt) ==
    /\ in.dxl_hard_fault
    /\ state' = "FaultHard"
    /\ LatchFault("DxlHardware")
    /\ reason' = "DxlHardware"
    /\ clear_fault_requested' = FALSE
    /\ arm_release_required' = TRUE
    /\ arming_age' = Age(ArmingTimeout, arming_age, dt)
    /\ idle_age' = Age(IdleDisarm, idle_age, dt)
    /\ batt_low_age' = Age(BatteryLowDebounce, batt_low_age, dt)
    /\ UNCHANGED batt_low_active

(* A latched hard fault waits for the operator's clear.  The battery debounce
   does not run here. *)
FaultHardLatched(in, dt) ==
    /\ ~in.dxl_hard_fault
    /\ state = "FaultHard"
    /\ IF ClearPending(in)
       THEN state' = "Disarmed" /\ reason' = "None"
       ELSE UNCHANGED <<state, reason>>
    /\ clear_fault_requested' = FALSE
    /\ arm_release_required' = ReleaseAfterHeldSwitch(in)
    /\ arming_age' = Age(ArmingTimeout, arming_age, dt)
    /\ idle_age' = Age(IdleDisarm, idle_age, dt)
    /\ batt_low_age' = Age(BatteryLowDebounce, batt_low_age, dt)
    /\ UNCHANGED <<last_fault_reason, batt_low_active>>

(* Mutant: the E-stop sources are tested before the latched hard fault. *)
EstopBeforeHardFault(in, dt) ==
    /\ ~in.dxl_hard_fault
    /\ EstopReason(in, dt) # "None"
    /\ DebounceBattery(in, dt)
    /\ state' = "Estop"
    /\ LatchFault(EstopReason(in, dt))
    /\ reason' = EstopReason(in, dt)
    /\ arm_release_required' = TRUE
    /\ clear_fault_requested' = ClearPending(in)
    /\ arming_age' = Age(ArmingTimeout, arming_age, dt)
    /\ idle_age' = Age(IdleDisarm, idle_age, dt)

EstopAsserted(in, dt) ==
    /\ ~in.dxl_hard_fault
    /\ state # "FaultHard"
    /\ EstopReason(in, dt) # "None"
    /\ DebounceBattery(in, dt)
    /\ state' = "Estop"
    /\ LatchFault(EstopReason(in, dt))
    /\ reason' = EstopReason(in, dt)
    /\ arm_release_required' = TRUE
    /\ clear_fault_requested' = ClearPending(in)
    /\ arming_age' = Age(ArmingTimeout, arming_age, dt)
    /\ idle_age' = Age(IdleDisarm, idle_age, dt)

NoStop(in, dt) ==
    /\ ~in.dxl_hard_fault
    /\ state # "FaultHard"
    /\ EstopReason(in, dt) = "None"
    /\ DebounceBattery(in, dt)

(* Every E-stop source is gone: settle in Disarmed for one cycle. *)
EstopReleased(in, dt) ==
    /\ NoStop(in, dt)
    /\ state = "Estop"
    /\ state' = "Disarmed"
    /\ reason' = "None"
    /\ arm_release_required' = ReleaseAfterHeldSwitch(in)
    /\ clear_fault_requested' = ClearPending(in)
    /\ arming_age' = Age(ArmingTimeout, arming_age, dt)
    /\ idle_age' = Age(IdleDisarm, idle_age, dt)
    /\ UNCHANGED last_fault_reason

(* Idle timer after this sample. *)
IdleAge(in, dt) ==
    IF in.motion_active \/ state \notin IdleEligible
    THEN 0 ELSE Age(IdleDisarm, idle_age, dt)

(* Mutant: the idle limit is off by one. *)
IdleExpiredLate(in, dt) ==
    /\ IdleDisarm # 0
    /\ state \in IdleEligible
    /\ IdleAge(in, dt) > IdleDisarm

IdleExpired(in, dt) ==
    /\ IdleDisarm # 0
    /\ state \in IdleEligible
    /\ IdleAge(in, dt) >= IdleDisarm

HostDisarms(in) ==
    /\ in.host_disarm
    /\ state \in Operational \cup {"MacMaintenance", "PassivePoseStream"}

(* Idle auto-disarm and the host's force-disarm leave the same way. *)
ForcedDisarm(in, dt) ==
    /\ NoStop(in, dt)
    /\ state # "Estop"
    /\ IdleExpired(in, dt) \/ HostDisarms(in)
    /\ state' = "Disarmed"
    /\ reason' = "None"
    /\ arm_release_required' = TRUE
    /\ clear_fault_requested' = ClearPending(in)
    /\ idle_age' = IdleAge(in, dt)
    /\ arming_age' = Age(ArmingTimeout, arming_age, dt)
    /\ UNCHANGED last_fault_reason

-----------------------------------------------------------------------------
(* The final switch: normal progression, one action per kind of state. *)

Proceed(in, dt) ==
    /\ NoStop(in, dt)
    /\ state # "Estop"
    /\ ~IdleExpired(in, dt) /\ ~HostDisarms(in)
    /\ idle_age' = IdleAge(in, dt)

Starting(in, dt) ==
    /\ Proceed(in, dt)
    /\ state \in {"Boot", "ConfigLoad"}
    /\ state' = IF state = "ConfigLoad" /\ in.config_loaded
                THEN "Disarmed" ELSE "ConfigLoad"
    /\ clear_fault_requested' = ClearPending(in)
    /\ arming_age' = Age(ArmingTimeout, arming_age, dt)
    /\ UNCHANGED <<reason, last_fault_reason, arm_release_required>>

(* Mutant: the release of the arm switch is not required. *)
DisarmedTargetUnqualified(in) ==
    IF in.host_disarm THEN "Disarmed"
    ELSE IF in.passive_request /\ in.torque_off THEN "PassivePoseStream"
    ELSE IF in.maintenance_request /\ in.mac_lock_held THEN "MacMaintenance"
    ELSE IF in.rc_armed THEN "ArmingChecks" ELSE "Disarmed"

DisarmedTarget(in) ==
    IF in.host_disarm THEN "Disarmed"
    ELSE IF in.passive_request /\ in.torque_off THEN "PassivePoseStream"
    ELSE IF in.maintenance_request /\ in.mac_lock_held THEN "MacMaintenance"
    ELSE IF in.rc_armed /\ ~arm_release_required THEN "ArmingChecks"
    ELSE "Disarmed"

Resting(in, dt) ==
    /\ Proceed(in, dt)
    /\ state = "Disarmed"
    /\ state' = DisarmedTarget(in)
    /\ arm_release_required' = (arm_release_required /\ in.rc_armed)
    /\ reason' = IF state' = "ArmingChecks" THEN "None" ELSE reason
    /\ arming_age' = IF state' = "ArmingChecks" THEN 0
                     ELSE Age(ArmingTimeout, arming_age, dt)
    /\ clear_fault_requested' = ClearPending(in)
    /\ UNCHANGED last_fault_reason

ArmingTarget(in, dt) ==
    IF ~in.rc_armed THEN "Disarmed"
    ELSE IF in.arming_checks_pass /\ in.battery = "ok" THEN "StandReady"
    ELSE IF Age(ArmingTimeout, arming_age, dt) >= ArmingTimeout
    THEN "FaultSoft" ELSE "ArmingChecks"

Arming(in, dt) ==
    /\ Proceed(in, dt)
    /\ state = "ArmingChecks"
    /\ state' = ArmingTarget(in, dt)
    /\ IF state' = "FaultSoft"
       THEN /\ LatchFault("ArmingTimeout")
            /\ reason' = "ArmingTimeout"
            /\ arm_release_required' = TRUE
       ELSE /\ arm_release_required' = ReleaseAfterHeldSwitch(in)
            /\ UNCHANGED <<reason, last_fault_reason>>
    /\ arming_age' = Age(ArmingTimeout, arming_age, dt)
    /\ clear_fault_requested' = ClearPending(in)

JetsonSelected(in) ==
    in.jetson_fresh /\ in.rc_autonomy /\ in.command_source = "Jetson"

(* Mutant: a fresh Jetson keeps its state without the autonomy switch. *)
WalkingTargetWithoutGrant(in) ==
    IF ~in.rc_armed THEN "Disarmed"
    ELSE IF state = "JetsonAssisted"
    THEN IF in.jetson_fresh THEN state ELSE "StandReady"
    ELSE IF JetsonSelected(in) THEN "JetsonAssisted"
    ELSE IF in.command_source = "Rc" THEN "RcManual" ELSE "StandReady"

(* JetsonAssisted looks at the heartbeat and the operator's grant only. *)
WalkingTarget(in) ==
    IF ~in.rc_armed THEN "Disarmed"
    ELSE IF state = "JetsonAssisted"
    THEN IF in.jetson_fresh /\ in.rc_autonomy THEN state ELSE "StandReady"
    ELSE IF JetsonSelected(in) THEN "JetsonAssisted"
    ELSE IF in.command_source # "Rc" THEN "StandReady"
    ELSE IF in.contact THEN "ContactTerrain" ELSE "RcManual"

BenchTarget(in) ==
    IF state = "PassivePoseStream"
    THEN IF in.passive_request THEN state ELSE "Disarmed"
    ELSE IF in.passive_request /\ in.torque_off THEN "PassivePoseStream"
    ELSE IF in.maintenance_request /\ in.mac_lock_held THEN state
    ELSE "Disarmed"

Engaged(in, dt) ==
    /\ Proceed(in, dt)
    /\ \/ state \in IdleEligible /\ state' = WalkingTarget(in)
       \/ /\ state \in {"MacMaintenance", "PassivePoseStream"}
          /\ state' = BenchTarget(in)
    /\ arm_release_required' = ReleaseAfterHeldSwitch(in)
    /\ arming_age' = Age(ArmingTimeout, arming_age, dt)
    /\ clear_fault_requested' = ClearPending(in)
    /\ UNCHANGED <<reason, last_fault_reason>>

(* The only branch of the switch that consumes a clear request. *)
SoftFault(in, dt) ==
    /\ Proceed(in, dt)
    /\ state = "FaultSoft"
    /\ IF ClearPending(in)
       THEN state' = "Disarmed" /\ reason' = "None"
       ELSE UNCHANGED <<state, reason>>
    /\ clear_fault_requested' = FALSE
    /\ arm_release_required' = ReleaseAfterHeldSwitch(in)
    /\ arming_age' = Age(ArmingTimeout, arming_age, dt)
    /\ UNCHANGED last_fault_reason

Update(in, dt) ==
    \/ DxlHardFault(in, dt)
    \/ FaultHardLatched(in, dt)
    \/ EstopAsserted(in, dt)
    \/ EstopReleased(in, dt)
    \/ ForcedDisarm(in, dt)
    \/ Starting(in, dt)
    \/ Resting(in, dt)
    \/ Arming(in, dt)
    \/ Engaged(in, dt)
    \/ SoftFault(in, dt)

Next == \E in \in Inputs, dt \in 1..MaxPeriod : Update(in, dt)

Spec == Init /\ [][Next]_smVars

-----------------------------------------------------------------------------
(* Properties. *)

(* Every field of StateMachine stays in its range; in particular no age the
   machine measures runs past the timeout that consumes it. *)
TypeOK ==
    /\ state \in Policy!States
    /\ reason \in Reasons
    /\ last_fault_reason \in Reasons
    /\ clear_fault_requested \in BOOLEAN
    /\ batt_low_active \in BOOLEAN
    /\ batt_low_age \in 0..BatteryLowDebounce
    /\ arming_age \in 0..ArmingTimeout
    /\ idle_age \in 0..IdleDisarm
    /\ arm_release_required \in BOOLEAN

(* Once the robot holds torque, or has stopped on a fault or an E-stop, a new
   arm request needs the switch to be released first: no path out of these
   states (a fault cleared, an E-stop source that disappears, an idle
   disarm) lets a switch that is still held restart arming. *)
EngagedNeedsRelease ==
    state \in IdleEligible \cup Policy!Stopped => arm_release_required

(* The reason reported to the operator explains the state: a stop always has
   a cause of its own kind, a running state has none, and the "last fault"
   shown after recovery is the cause of the stop being recovered from, even
   when one stop overtakes another. *)
ReasonExplainsState ==
    /\ state = "FaultHard" <=> reason = "DxlHardware"
    /\ state = "FaultSoft" <=> reason = "ArmingTimeout"
    /\ state = "Estop" <=> reason \in EstopReasons
    /\ state \in Policy!Stopped => last_fault_reason = reason

(* The two waits of the machine are bounded: arming checks never outlast
   their timeout and an armed robot never sits idle past the auto-disarm
   limit, whatever order of inputs it saw on the way. *)
BoundedWaits ==
    /\ state = "ArmingChecks" => arming_age < ArmingTimeout
    /\ state \in IdleEligible /\ IdleDisarm # 0 => idle_age < IdleDisarm

(* update() implements the transition graph the other tasks rely on. *)
ImplementsPolicy == Policy!PolicySpec
=============================================================================
