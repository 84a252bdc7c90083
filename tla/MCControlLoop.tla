---------------------------- MODULE MCControlLoop ----------------------------
(* ControlLoop with history variables for the properties that relate a step
   to what the operator or the host did earlier, and small input sets.  A
   behaviour keeps to one scenario: the robot walks under transmitter and
   Jetson, or it is on the bench with a maintenance host. *)
EXTENDS ControlLoop

CONSTANT Scenarios   \* the scenarios of this instance, by what each exercises

ASSUME ScenarioAssumption ==
    Scenarios \subseteq [frames : SUBSET RcFrameType,
                         messages : SUBSET (ControlMessages \cup MaintMessages),
                         environments : SUBSET EnvironmentType]

VARIABLES
    scenario,   \* fixed by Init
    sw_low,     \* the last live frame showed SW_A low
    released,   \* SW_A was seen low at, or since, the last cycle that ended
                \* outside the resting states
    engaged,    \* a cycle has ended outside the resting states with a link
                \* already seen, and none has rested without a live link since
    silence     \* ticks since the host last spoke for its lock or had a job

operator == <<sw_low, released, engaged>>
history == <<operator, silence>>
MCVars == <<vars, history, scenario>>

Frame(a, k, h) == [arm |-> a, kill |-> k, autonomy |-> h]
Low == Frame(FALSE, FALSE, FALSE)
Armed == Frame(TRUE, FALSE, FALSE)
ArmedAuto == Frame(TRUE, FALSE, TRUE)
KillHeld == Frame(TRUE, TRUE, FALSE)

Env(battery, fault, toff, ready) ==
    [battery |-> battery, watchdog_fault |-> FALSE, dxl_hard_fault |-> fault,
     torque_off |-> toff, arming_evidence |-> ready, contact |-> FALSE,
     motion_active |-> FALSE]

Healthy == Env("ok", FALSE, FALSE, TRUE)
Unready == Env("ok", FALSE, TRUE, FALSE)
BusFault == Env("ok", TRUE, TRUE, FALSE)

LiveFrames == {Low, Armed, ArmedAuto}
LiveMessages == {"ESTOP", "CLEAR_FAULT", "JETSON_HEARTBEAT"}
LiveEnvironments == {Healthy}

AllFrames == LiveFrames \cup {KillHeld}
AllMessages == ControlMessages \cup MaintMessages
AllEnvironments == {Healthy, Unready, BusFault}

Walk == [frames |-> AllFrames, messages |-> LiveMessages,
         environments |-> AllEnvironments]
Bench == [frames |-> {Low, Armed, KillHeld},
          messages |-> AllMessages \ LiveMessages,
          environments |-> {Healthy, Unready}]
Live == [frames |-> LiveFrames, messages |-> LiveMessages,
         environments |-> LiveEnvironments]
WalkOrBench == {Walk, Bench}
OnlyLive == {Live}

Asks(m) == m \in scenario.messages

MCInit ==
    /\ LoopInit
    /\ scenario \in Scenarios
    /\ sw_low = FALSE /\ released = FALSE /\ engaged = FALSE
    /\ silence = LockTtl + 1

RestStates == {"Boot", "ConfigLoad", "Disarmed"}

CycleHistory(dt) ==
    /\ released' = IF state' \in RestStates THEN released ELSE sw_low
    /\ UNCHANGED sw_low
    /\ engaged' = IF state' \in RestStates THEN engaged /\ ~rc.failsafe
                  ELSE engaged \/ rc.ever_seen
    /\ silence' = IF job THEN 0 ELSE Age(LockTtl + 1, silence, dt)

Operator ==
    \E f \in scenario.frames :
        /\ RcFrame(f)
        /\ sw_low' = ~f.arm
        /\ released' = (released \/ ~f.arm)
        /\ UNCHANGED <<engaged, silence>>

(* The host speaks for its lock. *)
LockHolder ==
    /\ \/ \E m \in MaintMessages, h \in BOOLEAN :
             /\ Asks(m) /\ MaintReceive(m, h)
             /\ silence' = IF m = "MAINT_EXIT" THEN silence ELSE 0
       \/ Asks("DXL_JOB") /\ SubmitJob /\ silence' = 0
    /\ UNCHANGED operator

OtherSteps ==
    /\ \/ RcSilent \/ JobDone \/ ConfigLoaded
       \/ Asks("ESTOP") /\ Estop
       \/ Asks("CLEAR_FAULT") /\ ClearFault
       \/ Asks("JETSON_HEARTBEAT") /\ NoteJetsonHeartbeat
       \/ \E m \in {"ARM", "DISARM"} : Asks(m) /\ SetArming(m)
       \/ Asks("PASSIVE_ENTER") /\ PassiveEnter
       \/ Asks("PASSIVE_EXIT") /\ PassiveExit
       \/ MaintEnter \/ MaintExit \/ MaintHeartbeat
    /\ UNCHANGED history

Cycles ==
    \/ \E env \in scenario.environments, dt \in 1..MaxPeriod :
         ControlCycle(env, dt) /\ CycleHistory(dt)
    \/ ControlOverrun /\ CycleHistory(OverrunPeriod)

MCNext ==
    /\ Operator \/ LockHolder \/ OtherSteps \/ Cycles
    /\ UNCHANGED scenario

MCSpec == MCInit /\ [][MCNext]_MCVars

FairMCSpec == MCSpec /\ LoopFairness

(* A switch that is held cannot restart arming: once the machine has been
   engaged, or stopped, with a link, the step into ArmingChecks follows a
   live frame that showed SW_A low since.  Only a rest without a live link
   (the first boot, or a failsafe-recovery session of the maintenance host)
   starts over: there the safe values the bridge holds count as a release. *)
HeldSwitchNeverRearms ==
    [][engaged /\ state # "ArmingChecks" /\ state' = "ArmingChecks"
         => released]_MCVars

(* Maintenance motion follows the host: the gate is open under a maintenance
   lock only while the host's last ENTER, HEARTBEAT or running job is no
   older than the lock's time to live. *)
MaintenanceFollowsHost ==
    gate /\ source = "MacMaintenance" => silence <= LockTtl
=============================================================================
