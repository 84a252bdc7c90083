------------------------- MODULE DxlActuationProofs -------------------------
(***************************************************************************)
(* For every set of servos, every boot delay, failure limit and lag, every *)
(* set of jobs, and whether or not the bus may fail: the type invariant of *)
(* dxlTask, and what a cycle that saw a stopped robot leaves behind.       *)
(***************************************************************************)
EXTENDS DxlActuation, TLAPS

(* A servo can hold torque only while the bus is powered. *)
UnpoweredIsLimp == ~power => energised = {}

(* From ForceOff to the next sample nothing powers the bus for a state that
   does not allow it. *)
PowerFollowsPolicy ==
    /\ pc \in {"gate", "read", "status", "sample"}
    /\ live \notin Policy!stateAllowsDxlPower
    => ~power

(* A finished cycle reports no fault about a bus without power. *)
FaultNeedsPower == pc = "sample" /\ ~power => ~hard_fault

(* The inductive invariant: the two safety invariants say what holds at the
   top of a cycle; these three say what carries it there. *)
DxlInv == DxlTypeOK /\ UnpoweredIsLimp /\ PowerFollowsPolicy /\ FaultNeedsPower

-----------------------------------------------------------------------------
(* The outcome of a torque write concerns only the servos addressed, and an
   unpowered bus reaches none of them. *)
LEMMA TorqueWritesType ==
    ASSUME NEW S, NEW o \in TorqueWrites(S)
    PROVE  /\ o.acked \subseteq S /\ o.took \subseteq S
           /\ ~power => o.acked = {} /\ o.took = {}
  BY DEF TorqueWrites

(* Only a powered bus answers. *)
LEMMA AnsweredType ==
    ASSUME NEW ok \in Answered
    PROVE  ok \in BOOLEAN /\ (ok => power)
  BY DEF Answered

(* Policy steps stay among the states. *)
LEMMA PolicyType ==
    ASSUME state \in Policy!States, Policy!PolicyNext \/ UNCHANGED state
    PROVE  state' \in Policy!States
  BY DEF Policy!PolicyNext, Policy!Progression, Policy!Interruption,
         Policy!States, Policy!idleDisarmEligible, Policy!Stopped

(* The initial state: unpowered, disarmed, nothing discovered. *)
LEMMA DxlInitInv == DxlInit => DxlInv
  <1> SUFFICES ASSUME DxlInit PROVE DxlInv
    OBVIOUS
  <1>1. /\ state \in Policy!States /\ live \in Policy!States
        /\ lag \in 0..MaxLag
        /\ boot_age \in 0..BootCycles /\ zero_reads \in 0..BusFailLimit
    BY DxlAssumption DEF DxlInit, Policy!PolicyInit, Policy!States
  <1>2. /\ scan \in [active : BOOLEAN, todo : SUBSET Servos]
        /\ arm \in [started : BOOLEAN, finished : BOOLEAN, todo : SUBSET Servos,
                    checked : SUBSET Servos, off_verified : BOOLEAN,
                    hold_seeded : BOOLEAN]
    BY DEF DxlInit, NoArm, NotScanning
  <1>3. DxlTypeOK
    BY <1>1, <1>2 DEF DxlInit, DxlTypeOK
  <1>4. QED
    BY <1>3 DEF DxlInit, DxlInv, UnpoweredIsLimp, PowerFollowsPolicy,
                FaultNeedsPower

(* controlTask and apiTask touch nothing the last three parts speak of. *)
LEMMA ControlInv ==
    ASSUME DxlInv, ControlTask
    PROVE  DxlInv'
  <1>1. CASE ControlDecide
    <2>1. state' \in Policy!States
      BY <1>1, PolicyType DEF ControlDecide, DxlInv, DxlTypeOK
    <2>2. source' \in {"None", "Rc", "Jetson", "MacMaintenance"}
      BY <1>1 DEF ControlDecide, AuthorityOf
    <2>3. QED
      BY <1>1, <2>1, <2>2, DxlAssumption
      DEF ControlDecide, ControlStarts, DxlInv, DxlTypeOK, UnpoweredIsLimp,
          PowerFollowsPolicy, FaultNeedsPower, busVars, pubVars, armVars,
          gateVars, readVars, jobVars
  <1>2. CASE ControlOverrun
    BY <1>2, DxlAssumption
    DEF ControlOverrun, ControlStarts, DxlInv, DxlTypeOK, UnpoweredIsLimp,
        PowerFollowsPolicy, FaultNeedsPower, busVars, pubVars, armVars,
        gateVars, readVars, jobVars
  <1>3. CASE ControlPublish
    BY <1>3
    DEF ControlPublish, DxlInv, DxlTypeOK, UnpoweredIsLimp,
        PowerFollowsPolicy, FaultNeedsPower, busVars, pubVars, armVars,
        gateVars, readVars, jobVars
  <1>4. QED
    BY <1>1, <1>2, <1>3 DEF ControlTask

LEMMA SubmitInv ==
    ASSUME DxlInv, NEW j \in Jobs, Submit(j)
    PROVE  DxlInv'
  BY DEF Submit, DxlInv, DxlTypeOK, UnpoweredIsLimp, PowerFollowsPolicy,
         FaultNeedsPower, ctlVars, busVars, pubVars, armVars, gateVars, readVars

-----------------------------------------------------------------------------
(* The sample: a stopped robot is remembered in live, and pc leaves the part
   of the cycle the last three conjuncts speak of. *)
LEMMA SampleInv ==
    ASSUME DxlInv, DxlSample
    PROVE  DxlInv'
  <1>1. lag' \in 0..MaxLag /\ boot_age' \in 0..BootCycles
    BY DxlAssumption DEF DxlSample, DxlInv, DxlTypeOK, Min2
  <1>2. arm' \in [started : BOOLEAN, finished : BOOLEAN, todo : SUBSET Servos,
                  checked : SUBSET Servos, off_verified : BOOLEAN,
                  hold_seeded : BOOLEAN]
    <2> DEFINE ArmType == [started : BOOLEAN, finished : BOOLEAN,
                           todo : SUBSET Servos, checked : SUBSET Servos,
                           off_verified : BOOLEAN, hold_seeded : BOOLEAN]
    <2>1. arm \in ArmType /\ NoArm \in ArmType
      BY DEF DxlInv, DxlTypeOK, NoArm
    <2>2. arm' = arm \/ arm' = NoArm
      BY DEF DxlSample
    <2>3. QED
      BY <2>1, <2>2
  <1>3. pc' \in {"discover", "job"} /\ arming_ready' \in BOOLEAN
    <2>1. arming_ready \in BOOLEAN
      BY DEF DxlInv, DxlTypeOK
    <2>2. QED
      BY <2>1 DEF DxlSample
  <1>4. /\ UNCHANGED <<state, source, gate, pub, busVars, torque_off, hard_fault,
                       gateVars, readVars, jobVars>>
        /\ live' = state
    BY DEF DxlSample
  <1>5. DxlTypeOK'
    BY <1>1, <1>2, <1>3, <1>4
    DEF DxlInv, DxlTypeOK, busVars, gateVars, readVars, jobVars
  <1>6. QED
    BY <1>3, <1>4, <1>5
    DEF DxlInv, UnpoweredIsLimp, PowerFollowsPolicy, FaultNeedsPower, busVars

(* The arming sequence: it may power the bus and energise servos, but only
   between the sample and ForceOff. *)
ArmStep ==
    \/ ArmPowerUp \/ ArmBootWait \/ ArmDiscovered \/ ArmDiscoverId
    \/ ArmStatusCheck \/ ArmStatusDone
    \/ ArmVerifyOff \/ ArmSeedHold \/ ArmEnable \/ ArmNothingToDo

LEMMA ArmInv ==
    ASSUME DxlInv, ArmStep
    PROVE  DxlInv'
  <1> USE DEF ctlVars, pubVars, gateVars, readVars, jobVars
  <1> DEFINE ArmType == [started : BOOLEAN, finished : BOOLEAN,
                         todo : SUBSET Servos, checked : SUBSET Servos,
                         off_verified : BOOLEAN, hold_seeded : BOOLEAN]
  <1>a. arm \in ArmType
    BY DEF DxlInv, DxlTypeOK
  (* Once the parts of the bus state are typed, the rest is unchanged. *)
  <1>q. SUFFICES
          /\ arm' \in ArmType /\ boot_age' \in 0..BootCycles
          /\ power' \in BOOLEAN /\ arming_ready' \in BOOLEAN
          /\ servo_faulted' \in BOOLEAN
          /\ cached' \subseteq known' /\ known' \subseteq Servos
          /\ energised' \subseteq Servos /\ held' \subseteq Servos
          /\ poses' \subseteq Servos
          /\ ~power' => energised' = {}
          /\ pc' \in {"check", "torque", "job"}
          /\ UNCHANGED <<ctlVars, torque_off, hard_fault, gateVars, zero_reads,
                         jobVars, live>>
    BY DEF DxlInv, DxlTypeOK, UnpoweredIsLimp, PowerFollowsPolicy,
           FaultNeedsPower
  <1>1. CASE ArmPowerUp
    <2>1. arm' \in ArmType /\ boot_age' \in 0..BootCycles
      BY <1>1, DxlAssumption DEF ArmPowerUp, NoArm
    <2>2. QED
      BY <1>1, <2>1 DEF ArmPowerUp, DxlInv, DxlTypeOK
  <1>2. CASE ArmBootWait \/ ArmStatusDone \/ ArmNothingToDo
    BY <1>2 DEF ArmBootWait, ArmStatusDone, ArmNothingToDo, DxlInv, DxlTypeOK,
                UnpoweredIsLimp, busVars, armVars
  <1>3. CASE ArmDiscovered
    <2>1. arm' \in ArmType
      BY <1>3, <1>a DEF ArmDiscovered
    <2>2. QED
      BY <1>3, <2>1 DEF ArmDiscovered, DxlInv, DxlTypeOK, UnpoweredIsLimp, busVars
  <1>4. CASE ArmDiscoverId
    <2>1. power
      BY <1>4 DEF ArmDiscoverId, ArmDiscovering
    <2> DEFINE begin == ~arm.started
               todo == IF begin THEN Servos ELSE arm.todo
               found == IF begin THEN {} ELSE known
               Found(s, ok, o) ==
                 /\ arm' = [arm EXCEPT !.started = TRUE, !.todo = todo \ {s},
                                       !.finished = (todo = {s})]
                 /\ known' = IF ok THEN found \cup {s} ELSE found
                 /\ cached' = ((IF begin THEN {} ELSE cached) \cup
                               (IF ok THEN {s} \cap energised ELSE {}))
                              \ (IF ok THEN o.acked ELSE {})
                 /\ energised' = IF ok THEN energised \ o.took ELSE energised
                 /\ held' = IF ok THEN held \ o.took ELSE held
    <2>p. PICK s \in todo :
            \E ok \in Answered, o \in TorqueWrites({s}) : Found(s, ok, o)
      BY <1>4 DEF ArmDiscoverId
    <2>2. PICK ok \in Answered, o \in TorqueWrites({s}) : Found(s, ok, o)
      BY <2>p
    <2>3. todo \subseteq Servos /\ found \subseteq Servos /\ s \in Servos
      BY <1>a, <2>2 DEF DxlInv, DxlTypeOK
    <2>4. arm' \in ArmType
      BY <1>a, <2>2, <2>3
    <2>5. cached' \subseteq known' /\ known' \subseteq Servos
      BY <2>2, <2>3 DEF DxlInv, DxlTypeOK
    <2>6. energised' \subseteq Servos /\ held' \subseteq Servos
      BY <2>2 DEF DxlInv, DxlTypeOK
    <2>7. poses' \subseteq Servos /\ arming_ready' \in BOOLEAN
      BY <1>4 DEF ArmDiscoverId, DxlInv, DxlTypeOK
    <2>8. QED
      BY <1>4, <2>1, <2>4, <2>5, <2>6, <2>7 DEF ArmDiscoverId, DxlInv, DxlTypeOK
  <1>5. CASE ArmStatusCheck
    <2>1. PICK s \in Servos, ok \in Answered, f \in BOOLEAN :
            /\ poses' = IF ok THEN poses \cup {s} ELSE poses \ {s}
            /\ arm' = IF ok THEN [arm EXCEPT !.checked = @ \cup {s}] ELSE arm
            /\ servo_faulted' = (servo_faulted \/ (ok /\ f /\ BusMayFail))
      BY <1>5 DEF ArmStatusCheck
    <2>2. arm' \in ArmType
      BY <1>a, <2>1
    <2>3. QED
      BY <1>5, <2>1, <2>2 DEF ArmStatusCheck, DxlInv, DxlTypeOK, UnpoweredIsLimp
  <1>6. CASE ArmVerifyOff
    <2>1. PICK o \in TorqueWrites(known), read \in Answered :
            /\ TorqueOff(o)
            /\ arm' = [arm EXCEPT !.off_verified =
                         o.acked = Servos /\ read /\ energised' = {}]
      BY <1>6 DEF ArmVerifyOff
    <2>2. arm' \in ArmType
      BY <1>a, <2>1, AnsweredType
    <2>3. QED
      BY <1>6, <2>1, <2>2 DEF ArmVerifyOff, TorqueOff, DxlInv, DxlTypeOK,
                              UnpoweredIsLimp
  <1>7. CASE ArmSeedHold
    <2>1. PICK ok \in {sent /\ poses = Servos : sent \in Sent} :
            /\ arm' = [arm EXCEPT !.hold_seeded = ok]
            /\ held' = IF ok THEN HoldWritten(known) ELSE held
      BY <1>7 DEF ArmSeedHold
    <2>2. ok \in BOOLEAN
      BY DEF Sent
    <2>3. arm' \in ArmType
      BY <1>a, <2>1, <2>2
    <2>4. QED
      BY <1>7, <2>1, <2>3 DEF ArmSeedHold, HoldWritten, DxlInv, DxlTypeOK,
                              UnpoweredIsLimp
  <1>8. CASE ArmEnable
    <2>1. PICK o \in TorqueWrites(known), r \in TorqueWrites(known),
              read \in Answered :
            IF o.acked = Servos /\ read
            THEN /\ TorqueOn(o)
                 /\ arming_ready' = TRUE
                 /\ UNCHANGED <<arm, poses>>
            ELSE /\ TorqueRolledBack(o, r)
                 /\ arm' = [arm EXCEPT !.off_verified = FALSE,
                              !.hold_seeded = FALSE, !.checked = {}]
                 /\ poses' = {}
                 /\ arming_ready' = FALSE
      BY <1>8 DEF ArmEnable
    <2>2. /\ o.acked \subseteq known /\ o.took \subseteq known
          /\ ~power => o.took = {}
      BY TorqueWritesType
    <2>3. arm' \in ArmType
      BY <1>a, <2>1
    <2>4. /\ cached' \subseteq known /\ energised' \subseteq Servos
          /\ held' \subseteq Servos /\ poses' \subseteq Servos
          /\ ~power => energised' = {}
      BY <2>1, <2>2 DEF TorqueOn, TorqueRolledBack, DxlInv, DxlTypeOK,
                        UnpoweredIsLimp
    <2>5. arming_ready' \in BOOLEAN
      BY <2>1
    <2>6. QED
      BY <1>8, <2>3, <2>4, <2>5 DEF ArmEnable, DxlInv, DxlTypeOK
  <1>9. QED
    BY <1>1, <1>2, <1>3, <1>4, <1>5, <1>6, <1>7, <1>8 DEF ArmStep

-----------------------------------------------------------------------------
(* A queued job, whatever state the robot has reached since it was accepted:
   PowerOn may power the bus, but ForceOff still comes after it. *)
Job ==
    \/ NoJob \/ PowerJob \/ UnpoweredJob \/ ScanStart \/ ScanPing
    \/ TorqueOnJob \/ TorqueOffJob \/ TorqueOneJob

LEMMA JobInv ==
    ASSUME DxlInv, Job
    PROVE  DxlInv'
  <1> USE DEF ctlVars, armVars, gateVars, readVars
  <1> DEFINE ScanType == [active : BOOLEAN, todo : SUBSET Servos]
  <1>a. /\ scan \in ScanType /\ NotScanning \in ScanType
        /\ "none" \in Jobs \cup {"none"}
    BY DEF DxlInv, DxlTypeOK, NotScanning
  <1>q. SUFFICES
          /\ scan' \in ScanType /\ job' \in Jobs \cup {"none"}
          /\ power' \in BOOLEAN /\ arming_ready' \in BOOLEAN
          /\ cached' \subseteq known' /\ known' \subseteq Servos
          /\ energised' \subseteq Servos /\ held' \subseteq Servos
          /\ poses' \subseteq Servos
          /\ ~power' => energised' = {}
          /\ JobStep
    BY DEF JobStep, Job, NoJob, PowerJob, UnpoweredJob, ScanStart, ScanPing,
           TorqueOnJob, TorqueOffJob, TorqueOneJob, BusJob,
           DxlInv, DxlTypeOK, UnpoweredIsLimp, PowerFollowsPolicy,
           FaultNeedsPower
  <1>1. CASE NoJob
    BY <1>1, <1>a DEF NoJob, busVars, jobVars, DxlInv, DxlTypeOK, UnpoweredIsLimp
  <1>2. CASE PowerJob
    BY <1>2, <1>a
    DEF PowerJob, PowerCut, JobDone, DxlInv, DxlTypeOK, UnpoweredIsLimp
  <1>3. CASE UnpoweredJob
    BY <1>3, <1>a
    DEF UnpoweredJob, busVars, JobDone, DxlInv, DxlTypeOK, UnpoweredIsLimp
  <1>4. CASE ScanStart
    <2>1. scan' \in ScanType
      BY <1>4 DEF ScanStart
    <2>2. QED
      BY <1>4, <2>1 DEF ScanStart, BusJob, DxlInv, DxlTypeOK, UnpoweredIsLimp
  <1>5. CASE ScanPing
    <2>1. PICK s \in scan.todo, ok \in Answered :
            /\ known' = IF ok THEN known \cup {s} ELSE known
            /\ cached' = IF ok THEN cached \cup ({s} \cap energised) ELSE cached
            /\ IF scan.todo = {s} THEN JobDone
               ELSE scan' = [scan EXCEPT !.todo = @ \ {s}] /\ UNCHANGED job
      BY <1>5 DEF ScanPing
    <2>2. s \in Servos
      BY <1>a, <2>1
    <2>3. [scan EXCEPT !.todo = @ \ {s}] \in ScanType
      BY <1>a
    <2>4. scan' \in ScanType /\ job' \in Jobs \cup {"none"}
      BY <1>a, <2>1, <2>3 DEF JobDone, DxlInv, DxlTypeOK
    <2>5. QED
      BY <1>5, <2>1, <2>2, <2>4
      DEF ScanPing, BusJob, DxlInv, DxlTypeOK, UnpoweredIsLimp
  <1>6. CASE TorqueOnJob
    <2>1. power
      BY <1>6 DEF TorqueOnJob, BusJob
    <2>2. /\ cached' \subseteq known /\ energised' \subseteq Servos
          /\ held' \subseteq Servos /\ poses' \subseteq Servos
      <3>1. CASE /\ poses' = poses \cup known
                 /\ \E o \in TorqueWrites(known), r \in TorqueWrites(known) :
                      IF o.acked = known
                      THEN /\ cached' = cached \cup known
                           /\ energised' = energised \cup known
                           /\ held' = held \cup known
                      ELSE /\ cached' = (cached \cup o.acked) \ r.acked
                           /\ energised' = (energised \cup o.took) \ r.took
                           /\ held' = (held \cup known) \ r.took
        BY <3>1, TorqueWritesType DEF DxlInv, DxlTypeOK
      <3>2. CASE /\ \E S \in SUBSET known : poses' = poses \ S
                 /\ UNCHANGED <<cached, energised, held>>
        BY <3>2 DEF DxlInv, DxlTypeOK
      <3>3. QED
        BY <1>6, <3>1, <3>2 DEF TorqueOnJob
    <2>3. QED
      BY <1>6, <1>a, <2>1, <2>2
      DEF TorqueOnJob, BusJob, JobDone, DxlInv, DxlTypeOK
  <1>7. CASE TorqueOffJob
    <2>1. /\ cached' \subseteq known /\ energised' \subseteq energised
          /\ held' \subseteq held
      BY <1>7 DEF TorqueOffJob, TorqueOff, DxlInv, DxlTypeOK
    <2>2. QED
      BY <1>7, <1>a, <2>1
      DEF TorqueOffJob, BusJob, JobDone, DxlInv, DxlTypeOK, UnpoweredIsLimp
  <1>8. CASE TorqueOneJob
    <2>1. /\ cached' \subseteq known /\ energised' \subseteq Servos
          /\ UNCHANGED held /\ power
      <3>1. CASE \E s \in known : \E o \in TorqueWrites({s}) : TorqueOn(o)
        <4>1. PICK s \in known : \E o \in TorqueWrites({s}) : TorqueOn(o)
          BY <3>1
        <4>2. PICK o \in TorqueWrites({s}) : TorqueOn(o)
          BY <4>1
        <4>3. o.acked \subseteq {s} /\ o.took \subseteq {s}
          BY TorqueWritesType
        <4>4. QED
          BY <1>8, <4>2, <4>3
          DEF TorqueOneJob, BusJob, TorqueOn, DxlInv, DxlTypeOK
      <3>2. QED
        BY <1>8, <3>1 DEF TorqueOneJob, BusJob, DxlInv, DxlTypeOK
    <2>2. QED
      BY <1>8, <1>a, <2>1
      DEF TorqueOneJob, BusJob, JobDone, DxlInv, DxlTypeOK, UnpoweredIsLimp
  <1>9. QED
    BY <1>1, <1>2, <1>3, <1>4, <1>5, <1>6, <1>7, <1>8 DEF Job

-----------------------------------------------------------------------------
(* From here to the end of the cycle an unpowered bus stays unpowered. *)
LEMMA ForceOffInv ==
    ASSUME DxlInv, ForceOff
    PROVE  DxlInv'
  <1>1. /\ power' \in BOOLEAN /\ arming_ready' \in BOOLEAN
        /\ energised' \subseteq Servos /\ held' \subseteq Servos
        /\ poses' \subseteq Servos
        /\ ~power' => energised' = {}
        /\ live \notin Policy!stateAllowsDxlPower => ~power'
    BY DEF ForceOff, PowerCut, DxlInv, DxlTypeOK, UnpoweredIsLimp
  <1>2. QED
    BY <1>1
    DEF ForceOff, DxlInv, DxlTypeOK, UnpoweredIsLimp, PowerFollowsPolicy,
        FaultNeedsPower, ctlVars, armVars, gateVars, readVars, jobVars

(* The gate switches torque, which needs the power it finds. *)
LEMMA GateInv ==
    ASSUME DxlInv, GateClosed \/ GateOpen \/ SeedThenEnable
    PROVE  DxlInv'
  <1>1. /\ cached' \subseteq known /\ energised' \subseteq Servos
        /\ held' \subseteq Servos
        /\ ~power => energised' = {}
        /\ torque_seed_pending' \in BOOLEAN /\ torque_enable_fault' \in BOOLEAN
    <2>1. CASE GateClosed
      BY <2>1 DEF GateClosed, TorqueOff, DxlInv, DxlTypeOK, UnpoweredIsLimp
    <2>2. CASE GateOpen
      BY <2>2 DEF GateOpen, DxlInv, DxlTypeOK, UnpoweredIsLimp
    <2>3. CASE SeedThenEnable
      <3>1. CASE /\ torque_seed_pending' = TRUE
                 /\ UNCHANGED <<cached, energised, held, torque_enable_fault>>
        BY <3>1 DEF DxlInv, DxlTypeOK, UnpoweredIsLimp
      <3>2. ASSUME NEW o \in TorqueWrites(known), NEW r \in TorqueWrites(known),
                   torque_seed_pending' = (o.acked # Servos),
                   torque_enable_fault' = (o.acked # Servos),
                   IF o.acked = Servos
                   THEN /\ cached' = cached \cup o.acked
                        /\ energised' = energised \cup o.took
                        /\ held' = HoldWritten(known)
                   ELSE /\ cached' = (cached \cup o.acked) \ r.acked
                        /\ energised' = (energised \cup o.took) \ r.took
                        /\ held' = HoldWritten(known) \ r.took
            PROVE  /\ cached' \subseteq known /\ energised' \subseteq Servos
                   /\ held' \subseteq Servos
                   /\ ~power => energised' = {}
                   /\ torque_seed_pending' \in BOOLEAN
                   /\ torque_enable_fault' \in BOOLEAN
        <4>1. /\ o.acked \subseteq known /\ o.took \subseteq known
              /\ ~power => o.took = {}
          BY TorqueWritesType
        <4>2. HoldWritten(known) \subseteq Servos
          BY DEF HoldWritten, DxlInv, DxlTypeOK
        <4>3. QED
          BY <3>2, <4>1, <4>2 DEF DxlInv, DxlTypeOK, UnpoweredIsLimp
      <3>3. QED
        BY <2>3, <3>1, <3>2 DEF SeedThenEnable
    <2>4. QED
      BY <2>1, <2>2, <2>3
  <1>2. prev_authorized' \in BOOLEAN /\ torque_off' \in BOOLEAN
    <2>1. gate \in BOOLEAN
      BY DEF DxlInv, DxlTypeOK
    <2>2. QED
      BY <2>1 DEF GateClosed, GateOpen, SeedThenEnable, GateStep
  <1>3. GateStep
    BY DEF GateClosed, GateOpen, SeedThenEnable
  <1>4. QED
    BY <1>1, <1>2, <1>3
    DEF GateStep, DxlInv, DxlTypeOK, UnpoweredIsLimp, PowerFollowsPolicy,
        FaultNeedsPower, ctlVars, armVars, readVars, jobVars

(* The goal frame switches nothing. *)
LEMMA GoalInv ==
    ASSUME DxlInv, GoalWrite
    PROVE  DxlInv'
  <1>1. held' \subseteq Servos
    BY DEF GoalWrite, DxlInv, DxlTypeOK
  <1>2. QED
    BY <1>1
    DEF GoalWrite, DxlInv, DxlTypeOK, UnpoweredIsLimp, PowerFollowsPolicy,
        FaultNeedsPower, ctlVars, pubVars, armVars, gateVars, readVars, jobVars

(* The status step decides what the cycle reports: only a powered bus is read,
   and an unpowered one has its latched faults cleared. *)
LEMMA StatusInv ==
    ASSUME DxlInv, StatusRead \/ StatusIdle
    PROVE  DxlInv'
  <1> USE DEF EndCycle, ctlVars, armVars, jobVars
  <1>b. /\ power \in BOOLEAN /\ torque_enable_fault \in BOOLEAN
        /\ servo_faulted \in BOOLEAN
    BY DEF DxlInv, DxlTypeOK
  <1>q. SUFFICES
          /\ zero_reads' \in 0..BusFailLimit /\ poses' \subseteq Servos
          /\ torque_enable_fault' \in BOOLEAN /\ servo_faulted' \in BOOLEAN
          /\ hard_fault' \in BOOLEAN
          /\ ~power => ~hard_fault'
          /\ EndCycle
    BY DEF DxlInv, DxlTypeOK, UnpoweredIsLimp, PowerFollowsPolicy,
           FaultNeedsPower
  <1>1. CASE StatusRead
    <2>1. power /\ UNCHANGED torque_enable_fault
      BY <1>1 DEF StatusRead, ReadsReady
    <2>2. PICK s \in known, ok \in Answered :
            /\ zero_reads' = ZeroReads(ok)
            /\ IF ok
               THEN IF live = "ArmingChecks"
                    THEN poses' = poses \cup {s} /\ UNCHANGED servo_faulted
                    ELSE \E d \in known, dok \in Answered, f \in BOOLEAN :
                           /\ poses' = IF dok THEN poses \cup {s, d}
                                       ELSE (poses \cup {s}) \ {d}
                           /\ servo_faulted' =
                                 (servo_faulted \/ (dok /\ f /\ BusMayFail))
               ELSE poses' = poses \ {s} /\ UNCHANGED servo_faulted
      BY <1>1 DEF StatusRead
    <2>3. zero_reads' \in 0..BusFailLimit
      BY <2>2, DxlAssumption DEF ZeroReads, Min2, DxlInv, DxlTypeOK
    <2>4. servo_faulted' \in BOOLEAN
      BY <1>b, <2>2
    <2>5. poses' \subseteq Servos
      BY <2>2 DEF DxlInv, DxlTypeOK
    <2>6. hard_fault' \in BOOLEAN
      BY <1>1 DEF StatusRead
    <2>7. QED
      BY <1>1, <1>b, <2>1, <2>3, <2>4, <2>5, <2>6 DEF StatusRead
  <1>2. CASE StatusIdle
    <2>1. zero_reads' \in 0..BusFailLimit
      BY <1>2, DxlAssumption DEF StatusIdle
    <2>2. /\ torque_enable_fault' \in BOOLEAN /\ servo_faulted' \in BOOLEAN
          /\ hard_fault' \in BOOLEAN
          /\ ~power => ~hard_fault'
      BY <1>2, <1>b DEF StatusIdle
    <2>3. QED
      BY <1>2, <2>1, <2>2 DEF StatusIdle, DxlInv, DxlTypeOK
  <1>3. QED
    BY <1>1, <1>2

-----------------------------------------------------------------------------
LEMMA DxlStepInv == DxlInv /\ [DxlNext]_dxlVars => DxlInv'
  <1> SUFFICES ASSUME DxlInv, [DxlNext]_dxlVars PROVE DxlInv'
    OBVIOUS
  <1>1. CASE ControlTask
    BY <1>1, ControlInv
  <1>2. CASE \E j \in Jobs : Submit(j)
    BY <1>2, SubmitInv
  <1>3. CASE DxlTask
    BY <1>3, SampleInv, ArmInv, JobInv, ForceOffInv, GateInv, GoalInv, StatusInv
    DEF DxlTask, ArmStep, Job
  <1>4. CASE UNCHANGED dxlVars
    BY <1>4
    DEF dxlVars, ctlVars, busVars, pubVars, armVars, gateVars, readVars,
        jobVars, DxlInv, DxlTypeOK, UnpoweredIsLimp, PowerFollowsPolicy,
        FaultNeedsPower
  <1>5. QED
    BY <1>1, <1>2, <1>3, <1>4 DEF DxlNext

LEMMA DxlInvariant == DxlSpec => []DxlInv
  BY DxlInitInv, DxlStepInv, PTL DEF DxlSpec

(* Every variable of dxlTask keeps its type, and the torque cache never names
   a servo outside the discovered table. *)
THEOREM DxlTypeCorrect == DxlSpec => []DxlTypeOK
  <1>1. DxlInv => DxlTypeOK
    BY DEF DxlInv
  <1>2. QED
    BY DxlInvariant, <1>1, PTL

(* A cycle that saw a stopped robot leaves the bus unpowered, every servo
   limp and no servo fault behind, whatever was queued and whatever
   controlTask published meanwhile: power the task cut itself cannot hold the
   state machine in FaultHard. *)
THEOREM StoppedBusUnpowered == DxlSpec => []StoppedIsUnpowered
  <1>1. DxlInv => StoppedIsUnpowered
    BY DEF DxlInv, UnpoweredIsLimp, PowerFollowsPolicy, FaultNeedsPower, StoppedIsUnpowered
  <1>2. QED
    BY DxlInvariant, <1>1, PTL
=============================================================================
