---------------------------- MODULE DxlActuation ----------------------------
(***************************************************************************)
(* dxlTask (firmware/openrb150/src/app/tasks.cpp), the only task that      *)
(* touches servo power, servo torque and the servo bus.  It learns what    *)
(* the robot may do from three bytes that controlTask publishes one after  *)
(* the other (command source, safety state, motion gate), samples the      *)
(* state once at the top of its cycle and the gate near the end, and       *)
(* spends the time in between in bus transactions during which controlTask *)
(* runs on.                                                                *)
(*                                                                         *)
(* controlTask is represented by what it promises: the transition graph of *)
(* SafetyPolicy, the conditions under which it uses this task's evidence,  *)
(* and a gate that opens only for the authority the state was entered for. *)
(*                                                                         *)
(* A servo's goal register is abstracted to whether it holds the position  *)
(* the servo is in (held): torque may be switched on only then.            *)
(***************************************************************************)
EXTENDS Integers, TLC

CONSTANTS
    Servos,        \* the configured servo ids
    BootCycles,    \* kServoBootDelayMs in dxlTask cycles
    BusFailLimit,  \* kDxlBusFailLimit
    MaxLag,        \* control cycles that may run during one dxlTask cycle
    Jobs,          \* the DXL jobs the host may submit
    BusMayFail,    \* a transaction may go unanswered
    AckMayBeLost   \* an unanswered torque write may still have taken effect

JobTypes == {"PowerOn", "PowerOff", "Scan", "TorqueOn", "TorqueOff",
             "TorqueOne", "Eeprom"}

ASSUME DxlAssumption ==
    /\ Servos # {}
    /\ {BootCycles, BusFailLimit, MaxLag} \subseteq Nat \ {0}
    /\ Jobs \subseteq JobTypes
    /\ {BusMayFail, AckMayBeLost} \subseteq BOOLEAN

ServoSymmetry == Permutations(Servos)   \* servos are interchangeable

VARIABLES
    state,          \* g_safetyState
    source,         \* g_commandSource
    gate,           \* g_motionGate
    pub,            \* the gate value controlTask is about to publish
    lag,            \* control cycles since dxlTask sampled the state
    job,            \* type of the job in the DxlJobApi slot
    scan,           \* g_dxlScanJob: the ids still to ping, while active
    power,          \* board::dxlPowerEnabled()
    known,          \* DxlBus::servos_: the discovered servos
    cached,         \* those whose cached torque_enabled is set
    energised,      \* the servos that really hold torque
    held,           \* the servos whose goal register is where they are
    poses,          \* g_servoStatus[].ok: the servos with a position snapshot
    arming_ready,   \* g_dxlArmingReady
    torque_off,     \* g_dxlTorqueOff
    hard_fault,     \* g_dxlHardFault
    pc,             \* where dxlTask is in its cycle
    live,           \* live_state
    arm,            \* the locals of the arming sequence
    boot_age,       \* now_ms - arming_power_on_ms, in cycles
    prev_authorized,
    torque_seed_pending,
    torque_enable_fault,
    servo_faulted,  \* servo_fault_monitor.faulted()
    zero_reads      \* consec_zero_reads

ctlVars == <<state, source, gate, pub, lag>>
busVars == <<power, known, cached, energised, held, poses>>
pubVars == <<arming_ready, torque_off, hard_fault>>
armVars == <<arm, boot_age>>
gateVars == <<prev_authorized, torque_seed_pending, torque_enable_fault>>
readVars == <<servo_faulted, zero_reads>>
jobVars == <<job, scan>>
dxlVars == <<ctlVars, busVars, pubVars, armVars, gateVars, readVars, jobVars,
             pc, live>>

Policy == INSTANCE SafetyPolicy

Coverage == known = Servos

NoArm == [started |-> FALSE, finished |-> FALSE, todo |-> {}, checked |-> {},
          off_verified |-> FALSE, hold_seeded |-> FALSE]

NotScanning == [active |-> FALSE, todo |-> {}]

DxlInit ==
    /\ Policy!PolicyInit
    /\ source = "None" /\ gate = FALSE /\ pub = "none" /\ lag = 0
    /\ job = "none" /\ scan = NotScanning
    /\ power = FALSE
    /\ known = {} /\ cached = {} /\ energised = {} /\ held = {} /\ poses = {}
    /\ arming_ready = FALSE /\ torque_off = TRUE /\ hard_fault = FALSE
    /\ pc = "sample" /\ live = "Boot"
    /\ arm = NoArm /\ boot_age = 0
    /\ prev_authorized = FALSE
    /\ torque_seed_pending = FALSE /\ torque_enable_fault = FALSE
    /\ servo_faulted = FALSE /\ zero_reads = 0

-----------------------------------------------------------------------------
(* controlTask, as far as this task can tell *)

(* The authority a motion state is entered for. *)
AuthorityOf(s) ==
    IF s = "MacMaintenance" THEN "MacMaintenance"
    ELSE IF s = "JetsonAssisted" THEN "Jetson"
    ELSE IF s \in {"RcManual", "ContactTerrain"} THEN "Rc" ELSE "None"

(* Plausible bug: standing up as soon as every servo answers with a pose. *)
EvidenceWithoutReady ==
    /\ hard_fault => state' = "FaultHard"
    /\ state' = "FaultHard" => hard_fault \/ state = "FaultHard"
    /\ state = "ArmingChecks" /\ state' = "StandReady" => Coverage /\ poses = Servos
    /\ state # "PassivePoseStream" /\ state' = "PassivePoseStream"
         => torque_off

(* Where the state machine consults this task's evidence. *)
EvidenceHolds ==
    /\ hard_fault => state' = "FaultHard"
    /\ state' = "FaultHard" => hard_fault \/ state = "FaultHard"
    /\ state = "ArmingChecks" /\ state' = "StandReady"
         => arming_ready /\ Coverage /\ poses = Servos
    /\ state # "PassivePoseStream" /\ state' = "PassivePoseStream"
         => torque_off

(* A control cycle publishes the source and the state ... *)
ControlStarts ==
    /\ pub = "none" /\ lag < MaxLag
    /\ pub' = IF source' = "None" THEN "closed" ELSE "open"
    /\ lag' = lag + 1
    /\ UNCHANGED <<gate, busVars, pubVars, armVars, gateVars, readVars,
                   jobVars, pc, live>>

(* The gate will be open exactly in the motion states. *)
ControlDecide ==
    /\ Policy!PolicyNext \/ UNCHANGED state
    /\ EvidenceHolds
    /\ source' = AuthorityOf(state')
    /\ ControlStarts

(* A cycle whose clock sample is invalid keeps the state and publishes no
   authority. *)
ControlOverrun ==
    /\ UNCHANGED state
    /\ source' = "None"
    /\ ControlStarts

(* ... and the gate a few statements later. *)
ControlPublish ==
    /\ pub # "none"
    /\ gate' = (pub = "open")
    /\ pub' = "none"
    /\ UNCHANGED <<state, source, lag, busVars, pubVars, armVars, gateVars,
                   readVars, jobVars, pc, live>>

(* apiTask accepts a job while the published state is MacMaintenance. *)
Submit(j) ==
    /\ state = "MacMaintenance" /\ job = "none"
    /\ job' = j
    /\ UNCHANGED <<ctlVars, busVars, pubVars, armVars, gateVars, readVars,
                   scan, pc, live>>

-----------------------------------------------------------------------------
(* The bus *)

(* The outcome of writing torque to the servos in S: who acknowledged, and on
   whom the write took effect. *)
TorqueWrites(S) ==
    IF ~power THEN {[acked |-> {}, took |-> {}]}
    ELSE {o \in [acked : SUBSET S, took : SUBSET S] :
            /\ o.acked \subseteq o.took
            /\ ~AckMayBeLost => o.acked = o.took
            /\ ~BusMayFail => o.acked = S}

(* DxlBus::setTorqueAll / setTorqueOne: the cache follows acknowledgements;
   a servo that goes limp no longer holds its goal. *)
TorqueOff(o) ==
    /\ cached' = cached \ o.acked
    /\ energised' = energised \ o.took
    /\ held' = held \ o.took

(* Switching on; and switching on, then rolling back with r because not
   everyone acknowledged. *)
TorqueOn(o) ==
    /\ cached' = cached \cup o.acked
    /\ energised' = energised \cup o.took
    /\ UNCHANGED held

TorqueRolledBack(o, r) ==
    /\ cached' = (cached \cup o.acked) \ r.acked
    /\ energised' = (energised \cup o.took) \ r.took
    /\ held' = held \ r.took

(* A request to a servo is answered or not; never without power.  A Sync
   Write has no answer: it reports only whether it was sent. *)
Answered == IF ~power THEN {FALSE} ELSE IF BusMayFail THEN BOOLEAN ELSE {TRUE}
Sent == IF BusMayFail THEN BOOLEAN ELSE {TRUE}

(* writeGoalPositions with the measured positions of the servos in S. *)
HoldWritten(S) == IF power THEN held \cup S ELSE held

(* Cutting power: every servo goes limp.  The torque cache is not touched. *)
PowerCut ==
    /\ power' = FALSE
    /\ energised' = {}
    /\ held' = {}

-----------------------------------------------------------------------------
(* dxlTask *)

Min2(a, b) == IF a < b THEN a ELSE b

(* Top of the cycle: outside ArmingChecks the arming evidence is dropped.
   The task has just blocked for its period, so controlTask, of the same
   priority, is not in the middle of publishing. *)
DxlSample ==
    /\ pc = "sample" /\ pub = "none"
    /\ live' = state
    /\ lag' = 0
    /\ boot_age' = Min2(BootCycles, boot_age + 1)
    /\ IF state = "ArmingChecks"
       THEN pc' = "discover" /\ UNCHANGED <<arm, arming_ready>>
       ELSE pc' = "job" /\ arm' = NoArm /\ arming_ready' = FALSE
    /\ UNCHANGED <<state, source, gate, pub, busVars, torque_off, hard_fault,
                   gateVars, readVars, jobVars>>

(* Arming powers the bus and starts over. *)
ArmPowerUp ==
    /\ pc = "discover" /\ ~power
    /\ power' = TRUE
    /\ boot_age' = 0
    /\ arm' = NoArm
    /\ poses' = {}
    /\ arming_ready' = FALSE
    /\ pc' = "job"
    /\ UNCHANGED <<ctlVars, known, cached, energised, held, torque_off,
                   hard_fault, gateVars, readVars, jobVars, live>>

ArmBootWait ==
    /\ pc = "discover" /\ power /\ boot_age < BootCycles
    /\ pc' = "job"
    /\ UNCHANGED <<ctlVars, busVars, pubVars, armVars, gateVars, readVars,
                   jobVars, live>>

ArmDiscovering == pc = "discover" /\ power /\ boot_age >= BootCycles

(* The table already covers the configuration, or discovery is over. *)
ArmDiscovered ==
    /\ ArmDiscovering
    /\ IF arm.started THEN arm.finished ELSE Coverage
    /\ arm' = [arm EXCEPT !.finished = TRUE]
    /\ pc' = "check"
    /\ UNCHANGED <<ctlVars, busVars, pubVars, boot_age, gateVars, readVars,
                   jobVars, live>>

(* One configured id per cycle: ping, and if it answers switch torque off. *)
ArmDiscoverId ==
    /\ ArmDiscovering
    /\ IF arm.started THEN ~arm.finished ELSE ~Coverage
    /\ LET begin == ~arm.started
           todo == IF begin THEN Servos ELSE arm.todo
           found == IF begin THEN {} ELSE known
       IN  /\ \E s \in todo : \E ok \in Answered, o \in TorqueWrites({s}) :
                /\ arm' = [arm EXCEPT !.started = TRUE, !.todo = todo \ {s},
                                      !.finished = (todo = {s})]
                /\ known' = IF ok THEN found \cup {s} ELSE found
                /\ cached' = ((IF begin THEN {} ELSE cached) \cup
                              (IF ok THEN {s} \cap energised ELSE {}))
                             \ (IF ok THEN o.acked ELSE {})
                /\ energised' = IF ok THEN energised \ o.took ELSE energised
                /\ held' = IF ok THEN held \ o.took ELSE held
           /\ poses' = IF begin THEN {} ELSE poses
           /\ arming_ready' = (arming_ready /\ ~begin)
    /\ pc' = "check"
    /\ UNCHANGED <<ctlVars, power, torque_off, hard_fault, boot_age, gateVars,
                   readVars, jobVars, live>>

(* One status read per cycle until every servo has been read once. *)
ArmStatusCheck ==
    /\ pc = "check"
    /\ arm.finished /\ Coverage /\ arm.checked # Servos
    /\ \E s \in Servos \ arm.checked, ok \in Answered, f \in BOOLEAN :
         /\ poses' = IF ok THEN poses \cup {s} ELSE poses \ {s}
         /\ arm' = IF ok THEN [arm EXCEPT !.checked = @ \cup {s}] ELSE arm
         /\ servo_faulted' = (servo_faulted \/ (ok /\ f /\ BusMayFail))
    /\ pc' = "torque"
    /\ UNCHANGED <<ctlVars, power, known, cached, energised, held, pubVars,
                   boot_age, gateVars, zero_reads, jobVars, live>>

ArmStatusDone ==
    /\ pc = "check"
    /\ ~(arm.finished /\ Coverage) \/ arm.checked = Servos
    /\ pc' = "torque"
    /\ UNCHANGED <<ctlVars, busVars, pubVars, armVars, gateVars, readVars,
                   jobVars, live>>

MayVerifyOff ==
    arm.checked = Servos /\ poses = Servos /\ ~servo_faulted /\ ~arm.off_verified

(* Disable torque everywhere and read it back. *)
ArmVerifyOff ==
    /\ pc = "torque" /\ MayVerifyOff
    /\ \E o \in TorqueWrites(known), read \in Answered :
         /\ TorqueOff(o)
         /\ arm' = [arm EXCEPT !.off_verified =
                      o.acked = Servos /\ read /\ energised' = {}]
    /\ pc' = "job"
    /\ UNCHANGED <<ctlVars, power, known, poses, pubVars, boot_age, gateVars,
                   readVars, jobVars, live>>

(* Goal := present position, on every servo. *)
ArmSeedHold ==
    /\ pc = "torque" /\ ~MayVerifyOff
    /\ arm.off_verified /\ ~arm.hold_seeded
    /\ \E ok \in {sent /\ poses = Servos : sent \in Sent} :
         /\ arm' = [arm EXCEPT !.hold_seeded = ok]
         /\ held' = IF ok THEN HoldWritten(known) ELSE held
    /\ pc' = "job"
    /\ UNCHANGED <<ctlVars, power, known, cached, energised, poses, pubVars,
                   boot_age, gateVars, readVars, jobVars, live>>

(* Enable torque everywhere and read it back, or restart the sequence. *)
ArmEnable ==
    /\ pc = "torque" /\ ~MayVerifyOff
    /\ arm.off_verified /\ arm.hold_seeded /\ ~arming_ready
    /\ \E o \in TorqueWrites(known), r \in TorqueWrites(known), read \in Answered :
         IF o.acked = Servos /\ read
         THEN /\ TorqueOn(o)
              /\ arming_ready' = TRUE
              /\ UNCHANGED <<arm, poses>>
         ELSE /\ TorqueRolledBack(o, r)
              /\ arm' = [arm EXCEPT !.off_verified = FALSE,
                           !.hold_seeded = FALSE, !.checked = {}]
              /\ poses' = {}
              /\ arming_ready' = FALSE
    /\ pc' = "job"
    /\ UNCHANGED <<ctlVars, power, known, torque_off, hard_fault, boot_age,
                   gateVars, readVars, jobVars, live>>

ArmNothingToDo ==
    /\ pc = "torque" /\ ~MayVerifyOff
    /\ ~arm.off_verified \/ (arm.hold_seeded /\ arming_ready)
    /\ pc' = "job"
    /\ UNCHANGED <<ctlVars, busVars, pubVars, armVars, gateVars, readVars,
                   jobVars, live>>

-----------------------------------------------------------------------------
(* runQueuedDxlJob: at most one operation per cycle.  The safety state is not
   consulted again. *)

JobStep ==
    /\ pc = "job"
    /\ pc' = "power"
    /\ UNCHANGED <<ctlVars, torque_off, hard_fault, armVars, gateVars,
                   readVars, live>>

NoJob ==
    /\ JobStep
    /\ job = "none"
    /\ UNCHANGED <<busVars, jobVars, arming_ready>>

JobDone == job' = "none" /\ scan' = NotScanning

PowerJob ==
    /\ JobStep
    /\ \/ job = "PowerOn" /\ power' = TRUE /\ UNCHANGED <<energised, held>>
       \/ job = "PowerOff" /\ PowerCut
    /\ JobDone
    /\ UNCHANGED <<known, cached, poses, arming_ready>>

(* Every other job, and a scan under way, ends when there is no power. *)
UnpoweredJob ==
    /\ JobStep
    /\ job \notin {"none", "PowerOn", "PowerOff"} /\ ~power
    /\ JobDone
    /\ UNCHANGED <<busVars, arming_ready>>

BusJob(j) == JobStep /\ job = j /\ power

ScanStart ==
    /\ BusJob("Scan") /\ ~scan.active
    /\ known' = {} /\ cached' = {} /\ poses' = {}
    /\ arming_ready' = FALSE
    /\ scan' = [active |-> TRUE, todo |-> Servos]
    /\ UNCHANGED <<job, power, energised, held>>

(* One id per cycle; a servo's cached torque is what it reports. *)
ScanPing ==
    /\ BusJob("Scan") /\ scan.active
    /\ \E s \in scan.todo, ok \in Answered :
         /\ known' = IF ok THEN known \cup {s} ELSE known
         /\ cached' = IF ok THEN cached \cup ({s} \cap energised) ELSE cached
         /\ IF scan.todo = {s} THEN JobDone
            ELSE scan' = [scan EXCEPT !.todo = @ \ {s}] /\ UNCHANGED job
    /\ UNCHANGED <<power, energised, held, poses, arming_ready>>

(* Mutant: the DXL_TORQUE job trusts the goals it finds. *)
TorqueOnJobUnseeded ==
    /\ BusJob("TorqueOn")
    /\ \E o \in TorqueWrites(known) : TorqueOn(o)
    /\ JobDone
    /\ UNCHANGED <<power, known, poses, arming_ready>>

(* DXL_TORQUE on: every discovered servo is read and seeded first. *)
TorqueOnJob ==
    /\ BusJob("TorqueOn")
    /\ \/ /\ known # {} /\ poses' = poses \cup known
          /\ \E o \in TorqueWrites(known), r \in TorqueWrites(known) :
               IF o.acked = known
               THEN /\ cached' = cached \cup known
                    /\ energised' = energised \cup known
                    /\ held' = held \cup known
               ELSE /\ cached' = (cached \cup o.acked) \ r.acked
                    /\ energised' = (energised \cup o.took) \ r.took
                    /\ held' = (held \cup known) \ r.took
       \/ /\ known = {} \/ BusMayFail
          /\ \E S \in SUBSET known : poses' = poses \ S
          /\ UNCHANGED <<cached, energised, held>>
    /\ JobDone
    /\ UNCHANGED <<power, known, arming_ready>>

(* DXL_TORQUE off; an EEPROM write switches one servo off first. *)
TorqueOffJob ==
    /\ \/ /\ BusJob("TorqueOff")
          /\ \E o \in TorqueWrites(known) : TorqueOff(o)
       \/ /\ BusJob("Eeprom")
          /\ \/ \E s \in known : \E o \in TorqueWrites({s}) : TorqueOff(o)
             \/ known = {} /\ UNCHANGED <<cached, energised, held>>
    /\ JobDone
    /\ UNCHANGED <<power, known, poses, arming_ready>>

(* SET_PARAM TorqueEnable = 1 on one servo, as the host asked. *)
TorqueOneJob ==
    /\ BusJob("TorqueOne")
    /\ \/ \E s \in known : \E o \in TorqueWrites({s}) : TorqueOn(o)
       \/ known = {} /\ UNCHANGED <<cached, energised, held>>
    /\ JobDone
    /\ UNCHANGED <<power, known, poses, arming_ready>>

-----------------------------------------------------------------------------
(* Mutant: power follows the gate's policy instead of the power policy. *)
ForceOffTorqueOnly ==
    /\ pc = "power"
    /\ IF power /\ live \in Policy!Stopped
       THEN PowerCut /\ poses' = {} /\ arming_ready' = FALSE
       ELSE UNCHANGED <<power, energised, held, poses, arming_ready>>
    /\ pc' = "gate"
    /\ UNCHANGED <<ctlVars, known, cached, torque_off, hard_fault, armVars,
                   gateVars, readVars, jobVars, live>>

(* Power is kept only while the sampled state allows it. *)
ForceOff ==
    /\ pc = "power"
    /\ IF power /\ live \notin Policy!stateAllowsDxlPower
       THEN PowerCut /\ poses' = {} /\ arming_ready' = FALSE
       ELSE UNCHANGED <<power, energised, held, poses, arming_ready>>
    /\ pc' = "gate"
    /\ UNCHANGED <<ctlVars, known, cached, torque_off, hard_fault, armVars,
                   gateVars, readVars, jobVars, live>>

(* What every gate step ends with: the edge memory, and the torque-off
   confirmation for the passive mode. *)
GateStep ==
    /\ pc = "gate"
    /\ pc' = "read"
    /\ prev_authorized' = gate
    /\ torque_off' = (~power \/ (Coverage /\ cached' = {}))
    /\ UNCHANGED <<ctlVars, power, known, poses, arming_ready, hard_fault,
                   armVars, readVars, jobVars, live>>

(* The gate closed: torque off on the falling edge, once. *)
GateClosed ==
    /\ ~gate
    /\ IF prev_authorized /\ known # {}
       THEN \E o \in TorqueWrites(known) : TorqueOff(o)
       ELSE UNCHANGED <<cached, energised, held>>
    /\ torque_seed_pending' = FALSE
    /\ UNCHANGED torque_enable_fault
    /\ GateStep

(* The rising edge starts a seed-then-enable sequence, except for the
   maintenance authority, which switches torque explicitly. *)
SeedWanted ==
    /\ known # {}
    /\ torque_seed_pending \/ (~prev_authorized /\ source # "MacMaintenance")

GateOpen ==
    /\ gate /\ ~SeedWanted
    /\ UNCHANGED <<cached, energised, held, torque_seed_pending,
                   torque_enable_fault>>
    /\ GateStep

(* Seed every goal with the measured position, then enable everything; a
   partial enable is rolled back, reported, and retried. *)
SeedThenEnable ==
    /\ gate /\ SeedWanted
    /\ \/ /\ poses # Servos \/ BusMayFail
          /\ torque_seed_pending' = TRUE
          /\ UNCHANGED <<cached, energised, held, torque_enable_fault>>
       \/ /\ poses = Servos
          /\ \E o \in TorqueWrites(known), r \in TorqueWrites(known) :
               /\ torque_seed_pending' = (o.acked # Servos)
               /\ torque_enable_fault' = (o.acked # Servos)
               /\ IF o.acked = Servos
                  THEN /\ cached' = cached \cup o.acked
                       /\ energised' = energised \cup o.took
                       /\ held' = HoldWritten(known)
                  ELSE /\ cached' = (cached \cup o.acked) \ r.acked
                       /\ energised' = (energised \cup o.took) \ r.took
                       /\ held' = HoldWritten(known) \ r.took
    /\ GateStep

-----------------------------------------------------------------------------
(* The goal frame of controlTask goes out while the gate that was sampled is
   open and no enable is pending; whether a frame is available is up to
   controlTask.  A limp servo's goal then is not where the servo is. *)
GoalWrite ==
    /\ pc = "read"
    /\ pc' = "status"
    /\ \E valid \in BOOLEAN :
         held' = IF /\ valid /\ power
                    /\ prev_authorized /\ ~torque_seed_pending
                 THEN held \ known ELSE held
    /\ UNCHANGED <<ctlVars, power, known, cached, energised, poses, pubVars,
                   armVars, gateVars, readVars, jobVars, live>>

ReadsReady ==
    /\ ~scan.active /\ known # {} /\ power
    /\ live = "ArmingChecks" => arm.finished /\ Coverage

EndCycle ==
    /\ pc = "status"
    /\ pc' = "sample"
    /\ UNCHANGED <<ctlVars, power, known, cached, energised, held,
                   arming_ready, torque_off, armVars, prev_authorized,
                   torque_seed_pending, jobVars, live>>

(* Consecutive failed position reads. *)
ZeroReads(ok) == IF ok THEN 0 ELSE Min2(BusFailLimit, zero_reads + 1)

(* One position per cycle; when it was read, one servo's details too. *)
StatusRead ==
    /\ EndCycle
    /\ ReadsReady
    /\ \E s \in known, ok \in Answered :
         /\ zero_reads' = ZeroReads(ok)
         /\ IF ok
            THEN IF live = "ArmingChecks"
                 THEN poses' = poses \cup {s} /\ UNCHANGED servo_faulted
                 ELSE \E d \in known, dok \in Answered, f \in BOOLEAN :
                        /\ poses' = IF dok THEN poses \cup {s, d}
                                    ELSE (poses \cup {s}) \ {d}
                        /\ servo_faulted' =
                              (servo_faulted \/ (dok /\ f /\ BusMayFail))
            ELSE poses' = poses \ {s} /\ UNCHANGED servo_faulted
    /\ hard_fault' = (torque_enable_fault \/ servo_faulted'
                        \/ zero_reads' >= BusFailLimit)
    /\ UNCHANGED torque_enable_fault

(* No powered bus to read: power off clears what was latched about it. *)
StatusIdle ==
    /\ EndCycle
    /\ ~ReadsReady
    /\ zero_reads' = 0
    /\ torque_enable_fault' = (torque_enable_fault /\ power)
    /\ servo_faulted' = (servo_faulted /\ power)
    /\ hard_fault' = torque_enable_fault'
    /\ UNCHANGED poses

-----------------------------------------------------------------------------
ControlTask == ControlDecide \/ ControlOverrun \/ ControlPublish

DxlTask ==
    \/ DxlSample
    \/ ArmPowerUp \/ ArmBootWait \/ ArmDiscovered \/ ArmDiscoverId
    \/ ArmStatusCheck \/ ArmStatusDone
    \/ ArmVerifyOff \/ ArmSeedHold \/ ArmEnable \/ ArmNothingToDo
    \/ NoJob \/ PowerJob \/ UnpoweredJob \/ ScanStart \/ ScanPing
    \/ TorqueOnJob \/ TorqueOffJob \/ TorqueOneJob
    \/ ForceOff
    \/ GateClosed \/ GateOpen \/ SeedThenEnable
    \/ GoalWrite
    \/ StatusRead \/ StatusIdle

DxlNext == ControlTask \/ DxlTask \/ \E j \in Jobs : Submit(j)

DxlSpec == DxlInit /\ [][DxlNext]_dxlVars

-----------------------------------------------------------------------------
(* Properties. *)

(* Type invariant; only discovered servos have a cached torque state. *)
DxlTypeOK ==
    /\ state \in Policy!States /\ live \in Policy!States
    /\ source \in {"None", "Rc", "Jetson", "MacMaintenance"}
    /\ {gate, power, arming_ready, torque_off, hard_fault, prev_authorized,
        torque_seed_pending, torque_enable_fault, servo_faulted} \subseteq BOOLEAN
    /\ pub \in {"none", "closed", "open"}
    /\ lag \in 0..MaxLag
    /\ job \in Jobs \cup {"none"}
    /\ scan \in [active : BOOLEAN, todo : SUBSET Servos]
    /\ cached \subseteq known /\ known \subseteq Servos
    /\ energised \cup held \cup poses \subseteq Servos
    /\ pc \in {"sample", "discover", "check", "torque", "job", "power",
               "gate", "read", "status"}
    /\ arm \in [started : BOOLEAN, finished : BOOLEAN, todo : SUBSET Servos,
                checked : SUBSET Servos, off_verified : BOOLEAN,
                hold_seeded : BOOLEAN]
    /\ boot_age \in 0..BootCycles
    /\ zero_reads \in 0..BusFailLimit

(* A cycle that saw a disarmed, faulted or E-stopped robot ends with the
   servo bus unpowered, whatever job, arming step or control step ran
   meanwhile.  It also ends the servo fault it knew of: the power it cut is
   what a status read needs, and a fault that outlived the power would refuse
   every CLEAR_FAULT. *)
StoppedIsUnpowered ==
    pc = "sample" /\ live \notin Policy!stateAllowsDxlPower
        => ~power /\ energised = {} /\ ~hard_fault

NewlyEnergised == energised' \ energised

(* No servo is switched on against a goal it is not at, in the arming
   sequence, on a rising gate or by the DXL_TORQUE job, however often bus
   failures made the sequence start over.  (TorqueOneJob does what the host
   asks of one servo.) *)
SeededBeforeEnabled ==
    [][job # "TorqueOne" => NewlyEnergised \subseteq held \cup held']_dxlVars

(* The robot is declared ready to stand only when every servo really holds
   torque. *)
StandReadyHoldsTorque ==
    [][state = "ArmingChecks" /\ state' = "StandReady"
         => power /\ energised = Servos]_dxlVars
=============================================================================
