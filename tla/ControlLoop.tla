---------------------------- MODULE ControlLoop ----------------------------
(***************************************************************************)
(* The authority loop of the firmware: rcTask decodes the operator's       *)
(* transmitter (input/controller_bridge.cpp), apiTask serves the USB host  *)
(* (protocol/control_api.cpp, maintenance_api.cpp, passive_api.cpp), and   *)
(* controlTask (app/tasks.cpp, controller/controller_core.cpp) arbitrates  *)
(* between them (safety/command_arbiter.cpp), advances the safety state    *)
(* machine and publishes the motion gate.                                  *)
(*                                                                         *)
(* controlTask and rcTask outrank apiTask, so their cycles are atomic with *)
(* respect to it; a maintenance request, on the other hand, samples the    *)
(* clock and the safety state first and is handled later, and a bounded    *)
(* number of control cycles may run in between (api_lag).                  *)
(* Time passes in control cycles.  Every timestamp is an age relative to   *)
(* the current control cycle, saturated just above the limit it meets.     *)
(***************************************************************************)
EXTENDS SafetyStateMachine

CONSTANTS
    RcTimeout,            \* kDefaultFailsafeMs
    ArmReleaseDebounce,   \* kArmReleaseDebounceMs
    JetsonTtl,            \* ArbiterParams::jetson_ttl_ms
    LockTtl,              \* MaintenanceApi::kDefaultTtlMs
    OverrunPeriod,        \* a control period above the clock's 1000 ms limit
    ApiWindow,            \* ticks a maintenance request may straddle
    Frames,               \* the RC frames the transmitter may send
    HostMessages,         \* the USB messages the host may send
    Environments          \* what battery, bus and feet may report to a cycle

RcFrameType == [arm : BOOLEAN, kill : BOOLEAN, autonomy : BOOLEAN]

ControlMessages == {"ESTOP", "CLEAR_FAULT", "DISARM", "ARM", "JETSON_HEARTBEAT",
                    "PASSIVE_ENTER", "PASSIVE_EXIT", "DXL_JOB"}
MaintMessages == {"MAINT_ENTER", "MAINT_EXIT", "MAINT_HEARTBEAT"}

(* RobotState as collectControllerState samples it; arming_evidence stands
   for servo coverage, known pose and arming_ready of the current config. *)
EnvironmentType ==
    [battery : Battery, watchdog_fault : BOOLEAN, dxl_hard_fault : BOOLEAN,
     torque_off : BOOLEAN, arming_evidence : BOOLEAN, contact : BOOLEAN,
     motion_active : BOOLEAN]

ASSUME LoopAssumption ==
    /\ {RcTimeout, ArmReleaseDebounce, JetsonTtl, LockTtl} \subseteq Nat
    /\ OverrunPeriod \in Nat /\ OverrunPeriod > MaxPeriod
    /\ ApiWindow \in Nat
    /\ Frames \subseteq RcFrameType
    /\ HostMessages \subseteq ControlMessages \cup MaintMessages
    /\ Environments \subseteq EnvironmentType

VARIABLES
    rc,               \* ControllerBridge::cmd_, the fields that carry safety
    frame_age,        \* now_ms - cmd_.frame_ms
    release_pending,  \* arm_release_pending_
    release_age,      \* now_ms - arm_release_since_ms_
    host,             \* ControlApi latches: estop_, disarm_, clear_fault_, jetson_hb_
    passive,          \* PassiveApi::requested_
    lock,             \* MaintenanceApi: locked_, recovery_lock_, now - last_hb_ms_
    job,              \* the DXL job slot is Pending or Running
    api,              \* the maintenance request apiTask is handling
    jetson_age,       \* now_ms - jetson_last_ms_ (JetsonTtl + 1: not fresh)
    config_ready,     \* g_configReady
    lock_published,   \* the lock as controlTask last handed it to DxlJobApi
    source,           \* g_commandSource
    gate              \* g_motionGate

rcVars == <<rc, frame_age, release_pending, release_age>>
hostVars == <<host, passive, lock, job, api>>
coreVars == <<jetson_age, lock_published, source, gate>>
notHost == <<smVars, rcVars, coreVars, config_ready>>
vars == <<smVars, rcVars, hostVars, coreVars, config_ready>>

Idle == [pc |-> "idle", msg |-> "none", live |-> "Boot",
         recovery_allowed |-> FALSE, lag |-> 0]

Unlocked == [locked |-> FALSE, recovery |-> FALSE, hb_age |-> 0]

(* enterFailsafe(): disarmed, kill asserted; ever_seen and the authority
   switch keep their values. *)
FailsafeHold(c) ==
    [c EXCEPT !.failsafe = TRUE, !.arm_request = FALSE, !.estop = TRUE]

LoopInit ==
    /\ Init
    /\ rc = [ever_seen |-> FALSE, failsafe |-> TRUE, estop |-> TRUE,
             arm_request |-> FALSE, autonomy |-> FALSE]
    /\ frame_age = 0
    /\ release_pending = FALSE
    /\ release_age = 0
    /\ host = [estop |-> FALSE, disarm |-> FALSE, clear_fault |-> FALSE,
               jetson_hb |-> FALSE]
    /\ passive = FALSE
    /\ lock = Unlocked
    /\ job = FALSE
    /\ api = Idle
    /\ jetson_age = JetsonTtl + 1
    /\ config_ready = FALSE
    /\ lock_published = FALSE
    /\ source = "None"
    /\ gate = FALSE

-----------------------------------------------------------------------------
(* rcTask *)

(* SW_A counts as released only after it stayed low for the debounce time. *)
ReleaseStable == release_pending /\ release_age >= ArmReleaseDebounce

(* One decoded frame: bridge.update(), then evaluateFailsafe(), then publish. *)
RcFrame(f) ==
    /\ rc' = [ever_seen |-> TRUE, failsafe |-> FALSE, estop |-> f.kill,
              arm_request |-> /\ ~f.kill
                              /\ f.arm \/ (rc.arm_request /\ ~ReleaseStable),
              autonomy |-> f.autonomy]
    /\ release_pending' = (rc'.arm_request /\ ~f.arm)
    /\ release_age' = IF release_pending /\ release_pending'
                      THEN release_age ELSE 0
    /\ frame_age' = 0
    /\ UNCHANGED <<smVars, hostVars, coreVars, config_ready>>

(* Mutant: only a link that was never seen trips the failsafe. *)
RcSilentNoTimeout ==
    /\ ~rc.ever_seen
    /\ rc' = FailsafeHold(rc)
    /\ release_pending' = FALSE
    /\ release_age' = 0
    /\ UNCHANGED <<frame_age, smVars, hostVars, coreVars, config_ready>>

(* A cycle without a frame: evaluateFailsafe() trips on a link never seen or
   silent for longer than the timeout. *)
RcSilent ==
    /\ ~rc.ever_seen \/ frame_age > RcTimeout
    /\ rc' = FailsafeHold(rc)
    /\ release_pending' = FALSE
    /\ release_age' = 0
    /\ UNCHANGED <<frame_age, smVars, hostVars, coreVars, config_ready>>

(* deriveRcStatus(): kill requires a link to have existed. *)
RcKill == rc.estop /\ rc.ever_seen

-----------------------------------------------------------------------------
(* apiTask *)

ApiIdle == api.pc = "idle"

Send(m) == m \in HostMessages /\ ApiIdle

(* ControlApi::handle: ESTOP (and SET_MODE 12). *)
Estop ==
    /\ Send("ESTOP")
    /\ host' = [host EXCEPT !.estop = TRUE]
    /\ UNCHANGED <<passive, lock, job, api, notHost>>

(* CLEAR_FAULT releases the host E-stop and requests a fault clear. *)
ClearFault ==
    /\ Send("CLEAR_FAULT")
    /\ host' = [host EXCEPT !.estop = FALSE, !.clear_fault = TRUE]
    /\ UNCHANGED <<passive, lock, job, api, notHost>>

(* SET_ARMING (and SET_MODE 2): the host can disarm, or give up disarming. *)
SetArming(m) ==
    /\ m \in {"ARM", "DISARM"} /\ Send(m)
    /\ host' = [host EXCEPT !.disarm = (m = "DISARM")]
    /\ UNCHANGED <<passive, lock, job, api, notHost>>

(* HEARTBEAT from the Jetson role, with the Jetson feature enabled. *)
NoteJetsonHeartbeat ==
    /\ Send("JETSON_HEARTBEAT")
    /\ host' = [host EXCEPT !.jetson_hb = TRUE]
    /\ UNCHANGED <<passive, lock, job, api, notHost>>

PassiveEnter ==
    /\ Send("PASSIVE_ENTER")
    /\ state \in {"Disarmed", "MacMaintenance", "PassivePoseStream"}
    /\ passive' = TRUE
    /\ UNCHANGED <<host, lock, job, api, notHost>>

PassiveExit ==
    /\ Send("PASSIVE_EXIT")
    /\ passive' = FALSE
    /\ UNCHANGED <<host, lock, job, api, notHost>>

(* DxlJobApi: the gate is the state and the lock as last published. *)
SubmitJob ==
    /\ Send("DXL_JOB")
    /\ state = "MacMaintenance" /\ lock_published
    /\ ~job
    /\ job' = TRUE
    /\ UNCHANGED <<host, passive, lock, api, notHost>>

(* dxlTask completes the job in the slot. *)
JobDone ==
    /\ job
    /\ job' = FALSE
    /\ UNCHANGED <<host, passive, lock, api, notHost>>

(* maintenance_recovery_allowed: only an E-stop caused by a stale link may be
   left through maintenance, and only with healthy non-RC inputs. *)
RecoveryAllowed ==
    /\ state = "Estop" /\ reason = "RcKill"
    /\ rc.ever_seen /\ rc.failsafe
    /\ config_ready /\ ~host.estop

(* A maintenance request arrives: setNow(), setLiveState(),
   setFailsafeRecoveryAllowed() sample the system before dispatch.  healthy
   stands for the battery, torque, bus and watchdog samples. *)
MaintReceive(m, healthy) ==
    /\ m \in MaintMessages /\ Send(m)
    /\ api' = [pc |-> "dispatch", msg |-> m, live |-> state,
               recovery_allowed |-> healthy /\ RecoveryAllowed, lag |-> 0]
    /\ UNCHANGED <<host, passive, lock, job, notHost>>

(* now_ms_ - last_hb_ms_ is unsigned: when controlTask fed the lock after the
   request sampled its clock, the difference wraps and exceeds any TTL. *)
LockStaleForApi == lock.hb_age < api.lag \/ lock.hb_age - api.lag > LockTtl

SeenLock == IF lock.locked /\ LockStaleForApi THEN Unlocked ELSE lock

Dispatch(m) ==
    /\ api.pc = "dispatch" /\ api.msg = m
    /\ api' = Idle
    /\ UNCHANGED <<host, passive, job, notHost>>

canEnter ==
    \/ api.live \in {"Disarmed", "MacMaintenance"}
    \/ api.recovery_allowed /\ api.live = "Estop"

(* A lock that still stands makes ENTER Busy. *)
MaintEnter ==
    /\ Dispatch("MAINT_ENTER")
    /\ lock' = IF canEnter /\ ~SeenLock.locked
               THEN [locked |-> TRUE, recovery |-> api.live = "Estop",
                     hb_age |-> api.lag]
               ELSE SeenLock

(* EXIT and HEARTBEAT carry the token of the client that was granted the
   lock, so they succeed exactly while it stands. *)
MaintExit ==
    /\ Dispatch("MAINT_EXIT")
    /\ lock' = Unlocked

MaintHeartbeat ==
    /\ Dispatch("MAINT_HEARTBEAT")
    /\ lock' = IF SeenLock.locked THEN [lock EXCEPT !.hb_age = api.lag]
               ELSE Unlocked

(* i2cTask has loaded a configuration (or the safe defaults). *)
ConfigLoaded ==
    /\ ~config_ready
    /\ config_ready' = TRUE
    /\ UNCHANGED <<smVars, rcVars, hostVars, coreVars>>

-----------------------------------------------------------------------------
(* controlTask *)

(* The lock as this cycle sees it: a host disarm revokes it, a DXL job in
   flight feeds a lock that is still valid (feedTtl). *)
CycleLock(dt) ==
    LET aged == Age(LockTtl + ApiWindow + 1, lock.hb_age, dt)
    IN  IF host.disarm \/ ~lock.locked THEN Unlocked
        ELSE [lock EXCEPT !.hb_age =
                IF job /\ aged <= LockTtl THEN 0 ELSE aged]

(* Mutant: the time to live is not checked. *)
LockHeldForever(l) == l.locked

LockHeld(l) == l.locked /\ l.hb_age <= LockTtl

(* Mutant: the heartbeat age is never clamped. *)
JetsonAgeUnclamped(dt) == jetson_age + dt

JetsonAge(dt) ==
    IF host.jetson_hb THEN 0 ELSE Age(JetsonTtl + 1, jetson_age, dt)

JetsonFresh(dt) == JetsonAge(dt) <= JetsonTtl

(* maintenance_failsafe_recovery, controller_core.cpp *)
CoreRecovery(env, l) ==
    /\ LockHeld(l) /\ l.recovery
    /\ RcKill /\ rc.failsafe /\ ~rc.arm_request
    /\ ~host.estop /\ config_ready
    /\ env.battery = "ok" /\ ~env.watchdog_fault /\ ~env.dxl_hard_fault

(* CommandArbiter::update *)
KillActive(env, l) == (RcKill /\ ~CoreRecovery(env, l)) \/ host.estop

Arbitrate(env, l, dt) ==
    IF KillActive(env, l) THEN "None"
    ELSE IF LockHeld(l) THEN "MacMaintenance"
    ELSE IF rc.arm_request /\ rc.autonomy /\ JetsonFresh(dt) THEN "Jetson"
    ELSE IF rc.arm_request THEN "Rc" ELSE "None"

(* The StateInputs that ControllerCore::step assembles. *)
CoreInputs(env, l, dt) ==
    [config_loaded |-> config_ready, battery |-> env.battery,
     watchdog_fault |-> env.watchdog_fault,
     dxl_hard_fault |-> env.dxl_hard_fault, host_estop |-> host.estop,
     rc_kill |-> RcKill, rc_failsafe |-> rc.failsafe,
     rc_ever_seen |-> rc.ever_seen, rc_armed |-> rc.arm_request,
     arming_checks_pass |-> /\ config_ready /\ env.battery # "invalid"
                            /\ env.arming_evidence /\ ~env.dxl_hard_fault,
     host_disarm |-> host.disarm,
     command_source |-> Arbitrate(env, l, dt),
     jetson_fresh |-> JetsonFresh(dt), rc_autonomy |-> rc.autonomy,
     mac_lock_held |-> LockHeld(l), maintenance_request |-> LockHeld(l),
     maintenance_failsafe_recovery |-> CoreRecovery(env, l),
     passive_request |-> passive /\ ~host.disarm,
     torque_off |-> env.torque_off, contact |-> env.contact,
     motion_active |-> env.motion_active,
     clear_request |-> host.clear_fault]

(* Bounded preemption: a request being handled is not held off for longer
   than ApiWindow. *)
ApiKeepsUp(dt) == ApiIdle \/ api.lag + dt <= ApiWindow

PassTime(dt) ==
    /\ ApiKeepsUp(dt)
    /\ frame_age' = Age(RcTimeout + 1, frame_age, dt)
    /\ release_age' = Age(ArmReleaseDebounce, release_age, dt)
    /\ api' = IF ApiIdle THEN api ELSE [api EXCEPT !.lag = @ + dt]

(* Mutant: an E-stop keeps the bench authorities. *)
RevokesOnFaultOnly(s) == s \in {"FaultSoft", "FaultHard"}

(* safety_state >= FaultSoft: every stop drops the bench authorities. *)
RevokesAuthority(s) == s \in Policy!Stopped

(* One cycle: collect, step, publish.  The two one-shot requests are
   consumed; a host disarm, a fault or an E-stop revokes the lock and the
   passive request. *)
ControlCycle(env, dt) ==
    LET l == CycleLock(dt)
        in == CoreInputs(env, l, dt)
    IN  /\ PassTime(dt)
        /\ Update(in, dt)
        /\ source' = in.command_source
        /\ gate' = /\ config_ready
                   /\ state' \in Policy!stateAllowsMotion
                   /\ in.command_source # "None"
        /\ jetson_age' = JetsonAge(dt)
        /\ host' = [host EXCEPT !.clear_fault = FALSE, !.jetson_hb = FALSE]
        /\ lock' = IF RevokesAuthority(state') THEN Unlocked ELSE l
        /\ lock_published' = LockHeld(lock')
        /\ passive' = (passive /\ ~host.disarm /\ ~RevokesAuthority(state'))
        /\ UNCHANGED <<rc, release_pending, job, config_ready>>

(* A cycle whose clock sample is invalid: the intents are collected, step()
   returns before any of them is used, the published command is all-off. *)
ControlOverrun ==
    LET dt == OverrunPeriod
    IN  /\ PassTime(dt)
        /\ batt_low_age' = Age(BatteryLowDebounce, batt_low_age, dt)
        /\ arming_age' = Age(ArmingTimeout, arming_age, dt)
        /\ idle_age' = Age(IdleDisarm, idle_age, dt)
        /\ source' = "None"
        /\ gate' = FALSE
        /\ jetson_age' = Age(JetsonTtl + 1, jetson_age, dt)
        /\ host' = [host EXCEPT !.clear_fault = FALSE, !.jetson_hb = FALSE]
        /\ lock' = CycleLock(dt)
        /\ lock_published' = LockHeld(lock')
        /\ passive' = (passive /\ ~host.disarm)
        /\ UNCHANGED <<state, reason, last_fault_reason, clear_fault_requested,
                       batt_low_active, arm_release_required,
                       rc, release_pending, job, config_ready>>

LoopNext ==
    \/ \E f \in Frames : RcFrame(f)
    \/ RcSilent
    \/ Estop \/ ClearFault
    \/ \E m \in {"ARM", "DISARM"} : SetArming(m)
    \/ NoteJetsonHeartbeat
    \/ PassiveEnter \/ PassiveExit
    \/ SubmitJob
    \/ \E m \in MaintMessages, h \in BOOLEAN : MaintReceive(m, h)
    \/ MaintEnter \/ MaintExit \/ MaintHeartbeat
    \/ JobDone
    \/ ConfigLoaded
    \/ \E env \in Environments, dt \in 1..MaxPeriod : ControlCycle(env, dt)
    \/ ControlOverrun

LoopSpec == LoopInit /\ [][LoopNext]_vars

AnyControlCycle ==
    \E env \in Environments, dt \in 1..MaxPeriod : ControlCycle(env, dt)

(* The scheduler runs both periodic tasks forever, their clock samples are
   not invalid for ever, and a request being dispatched completes. *)
LoopFairness ==
    /\ WF_vars(RcSilent)
    /\ WF_vars(AnyControlCycle)
    /\ WF_vars(MaintEnter \/ MaintExit \/ MaintHeartbeat)

-----------------------------------------------------------------------------
(* Properties. *)

(* Type invariant of the loop: every age stays within its saturation bound,
   however the tasks interleave. *)
LoopTypeOK ==
    /\ TypeOK
    /\ rc \in [ever_seen : BOOLEAN, failsafe : BOOLEAN, estop : BOOLEAN,
               arm_request : BOOLEAN, autonomy : BOOLEAN]
    /\ frame_age \in 0..(RcTimeout + 1)
    /\ release_pending \in BOOLEAN
    /\ release_age \in 0..ArmReleaseDebounce
    /\ host \in [estop : BOOLEAN, disarm : BOOLEAN, clear_fault : BOOLEAN,
                 jetson_hb : BOOLEAN]
    /\ {passive, job, config_ready, lock_published, gate} \subseteq BOOLEAN
    /\ lock \in [locked : BOOLEAN, recovery : BOOLEAN,
                 hb_age : 0..(LockTtl + ApiWindow + 1)]
    /\ api \in [pc : {"idle", "dispatch"}, msg : MaintMessages \cup {"none"},
                live : Policy!States, recovery_allowed : BOOLEAN,
                lag : 0..ApiWindow]
    /\ jetson_age \in 0..(JetsonTtl + 1)
    /\ source \in CommandSources

(* Whoever the arbiter lets drive is the one the safety state was entered
   for: an open gate never carries the operator's or the Jetson's authority in
   maintenance, nor a bench lock's while the operator walks.  The arbiter and
   the machine decide separately, from inputs that other tasks change in
   between.  In JetsonAssisted a lock may hold the gate: MAINT_ENTER is checked
   against a sample of the state, so a lock can be granted to a robot that has
   begun to arm, and a heartbeat that sampled its clock in time can revive it
   after the cycle that let it expire. *)
AuthorityMatchesState ==
    gate => \/ source = "MacMaintenance" /\ state = "MacMaintenance"
            \/ source = "Rc" /\ state \in {"RcManual", "ContactTerrain"}
            \/ source \in {"Jetson", "MacMaintenance"} /\ state = "JetsonAssisted"

(* A host E-stop or a live kill switch that stands when a control cycle
   starts leaves the servos unpowered and the gate closed when it ends, from
   every state and under every kind of lock, the failsafe-recovery lock
   included; and unless a latched hard fault is being cleared in that very
   cycle, the machine has stopped and the maintenance lock and the passive
   request are gone. *)
StopTakesOneCycle ==
    [][AnyControlCycle /\ (host.estop \/ (RcKill /\ ~rc.failsafe))
         => /\ ~gate' /\ state' \notin Policy!stateAllowsDxlPower
            /\ state # "FaultHard" => /\ state' \in {"Estop", "FaultHard"}
                                      /\ ~lock'.locked /\ ~passive']_vars

(* A transmitter that falls silent for good takes the robot out of the
   operator's and the Jetson's hands: from then on the gate is open, if at
   all, only for a maintenance session. *)
LinkLossStops ==
    <>[](frame_age > 0) => <>[](gate => source = "MacMaintenance")

=============================================================================
