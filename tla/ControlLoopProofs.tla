------------------------- MODULE ControlLoopProofs -------------------------
(***************************************************************************)
(* For every timeout, time to live, period and request window, every set   *)
(* of frames, messages and environments: what the authority loop keeps     *)
(* however rcTask, apiTask and controlTask interleave, and what one        *)
(* control cycle does about a stop request.  The lemmas about update()     *)
(* come from SafetyStateMachineProofs.                                     *)
(***************************************************************************)
EXTENDS MCControlLoop, SafetyStateMachineProofs

RcType == [ever_seen : BOOLEAN, failsafe : BOOLEAN, estop : BOOLEAN,
           arm_request : BOOLEAN, autonomy : BOOLEAN]
HostType == [estop : BOOLEAN, disarm : BOOLEAN, clear_fault : BOOLEAN,
             jetson_hb : BOOLEAN]
LockType == [locked : BOOLEAN, recovery : BOOLEAN,
             hb_age : 0..(LockTtl + ApiWindow + 1)]
ApiType == [pc : {"idle", "dispatch"}, msg : MaintMessages \cup {"none"},
            live : Policy!States, recovery_allowed : BOOLEAN,
            lag : 0..ApiWindow]

(* A maintenance request is handled; a step of apiTask or dxlTask that sends
   or finishes something else; a step of rcTask. *)
MaintStep == MaintEnter \/ MaintExit \/ MaintHeartbeat
HostStep ==
    \/ Estop \/ ClearFault \/ NoteJetsonHeartbeat
    \/ PassiveEnter \/ PassiveExit \/ SubmitJob \/ JobDone
    \/ \E m \in {"ARM", "DISARM"} : SetArming(m)
RcStep == RcSilent \/ \E f \in RcFrameType : RcFrame(f)
ReceiveStep == \E m \in MaintMessages, h \in BOOLEAN : MaintReceive(m, h)
CycleStep == \E env \in EnvironmentType, dt \in 1..MaxPeriod : ControlCycle(env, dt)

(* Every step of the loop, whatever sets its inputs come from. *)
AnyStep ==
    \/ RcStep \/ HostStep \/ ReceiveStep \/ MaintStep \/ ConfigLoaded
    \/ CycleStep \/ ControlOverrun

LEMMA NextIsAnyStep == LoopNext => AnyStep
  BY LoopAssumption
  DEF LoopNext, AnyStep, RcStep, HostStep, ReceiveStep, MaintStep, CycleStep

-----------------------------------------------------------------------------
(* What a control cycle computes before it acts. *)

LEMMA Booleans ==
    ASSUME LoopTypeOK
    PROVE  /\ passive \in BOOLEAN /\ job \in BOOLEAN /\ config_ready \in BOOLEAN
           /\ lock_published \in BOOLEAN /\ gate \in BOOLEAN
           /\ release_pending \in BOOLEAN
  BY DEF LoopTypeOK

LEMMA Records ==
    ASSUME LoopTypeOK
    PROVE  rc \in RcType /\ host \in HostType /\ lock \in LockType /\ api \in ApiType
  BY DEF LoopTypeOK, RcType, HostType, LockType, ApiType

LEMMA UnlockedType == Unlocked \in LockType
  <1>1. 0 \in 0..(LockTtl + ApiWindow + 1)
    BY LoopAssumption
  <1>2. QED
    BY <1>1 DEF Unlocked, LockType

(* The lock of a cycle stays a lock, and a lock that a cycle leaves standing
   is the one that stood before. *)
LEMMA CycleLockType ==
    ASSUME LoopTypeOK, NEW dt \in Nat
    PROVE  /\ CycleLock(dt) \in LockType
           /\ CycleLock(dt).locked => lock.locked
  <1> DEFINE aged == Age(LockTtl + ApiWindow + 1, lock.hb_age, dt)
             age == IF job /\ aged <= LockTtl THEN 0 ELSE aged
  <1>1. lock \in LockType
    BY Records
  <1>2. LockTtl + ApiWindow + 1 \in Nat
    BY LoopAssumption
  <1>3. aged \in 0..(LockTtl + ApiWindow + 1)
    <2>1. lock.hb_age \in 0..(LockTtl + ApiWindow + 1)
      BY <1>1 DEF LockType
    <2>2. QED
      BY <1>2, <2>1, AgeType
  <1>4. 0 \in 0..(LockTtl + ApiWindow + 1)
    BY <1>2
  <1>5. age \in 0..(LockTtl + ApiWindow + 1)
    BY <1>3, <1>4
  <1> HIDE DEF aged
  <1>6. [lock EXCEPT !.hb_age = age] \in LockType
    BY <1>1, <1>5 DEF LockType
  <1>7. \/ CycleLock(dt) = Unlocked
        \/ lock.locked /\ CycleLock(dt) = [lock EXCEPT !.hb_age = age]
    BY DEF CycleLock, aged
  <1>8. QED
    BY <1>1, <1>6, <1>7, UnlockedType DEF Unlocked, LockType

LEMMA JetsonAgeType ==
    ASSUME LoopTypeOK, NEW dt \in Nat
    PROVE  JetsonAge(dt) \in 0..(JetsonTtl + 1)
  <1>1. JetsonTtl + 1 \in Nat /\ 0 \in 0..(JetsonTtl + 1)
    BY LoopAssumption
  <1>2. jetson_age \in 0..(JetsonTtl + 1)
    BY DEF LoopTypeOK
  <1>3. QED
    BY <1>1, <1>2, AgeType DEF JetsonAge

LEMMA ArbitrateType ==
    ASSUME NEW env, NEW l, NEW dt
    PROVE  Arbitrate(env, l, dt) \in CommandSources
  BY DEF Arbitrate, CommandSources

(* The inputs a cycle assembles are inputs of update(). *)
LEMMA CoreInputsType ==
    ASSUME LoopTypeOK, NEW env \in EnvironmentType, NEW l \in LockType,
           NEW dt \in Nat
    PROVE  CoreInputs(env, l, dt) \in StateInputs
  <1>1. rc \in RcType /\ host \in HostType /\ config_ready \in BOOLEAN
        /\ passive \in BOOLEAN
    BY Records, Booleans
  <1>2. /\ RcKill \in BOOLEAN /\ LockHeld(l) \in BOOLEAN
        /\ JetsonFresh(dt) \in BOOLEAN /\ CoreRecovery(env, l) \in BOOLEAN
        /\ (passive /\ ~host.disarm) \in BOOLEAN
        /\ (/\ config_ready /\ env.battery # "invalid"
            /\ env.arming_evidence /\ ~env.dxl_hard_fault) \in BOOLEAN
    BY <1>1 DEF RcKill, LockHeld, JetsonFresh, CoreRecovery, RcType, LockType
  <1>3. Arbitrate(env, l, dt) \in CommandSources
    BY ArbitrateType
  <1>4. QED
    BY <1>1, <1>2, <1>3
    DEF CoreInputs, StateInputs, EnvironmentType, RcType, HostType

-----------------------------------------------------------------------------
(* The type invariant. *)

LEMMA LoopInitType == LoopInit => LoopTypeOK
  <1> SUFFICES ASSUME LoopInit PROVE LoopTypeOK
    OBVIOUS
  <1>1. TypeOK
    BY InitSafety DEF LoopInit, SafetyInv
  <1>2. /\ 0 \in 0..(RcTimeout + 1) /\ 0 \in 0..ArmReleaseDebounce
        /\ 0 \in 0..ApiWindow /\ JetsonTtl + 1 \in 0..(JetsonTtl + 1)
    BY LoopAssumption
  <1>3. api \in ApiType
    BY <1>2 DEF LoopInit, Idle, ApiType, Policy!States
  <1>4. lock \in LockType
    BY UnlockedType DEF LoopInit
  <1>5. QED
    BY <1>1, <1>2, <1>3, <1>4
    DEF LoopInit, LoopTypeOK, LockType, ApiType, CommandSources

LEMMA RcStepType ==
    ASSUME LoopTypeOK, RcStep
    PROVE  LoopTypeOK'
  <1> USE DEF smVars, hostVars, coreVars
  <1>0. /\ 0 \in 0..(RcTimeout + 1) /\ 0 \in 0..ArmReleaseDebounce
    BY LoopAssumption
  <1>q. SUFFICES /\ rc' \in RcType
                 /\ frame_age' \in 0..(RcTimeout + 1)
                 /\ release_pending' \in BOOLEAN
                 /\ release_age' \in 0..ArmReleaseDebounce
                 /\ UNCHANGED <<smVars, hostVars, coreVars, config_ready>>
    BY DEF LoopTypeOK, TypeOK, RcType
  <1>1. CASE RcSilent
    <2>1. rc' \in RcType
      BY <1>1, Records DEF RcSilent, FailsafeHold, RcType
    <2>2. QED
      BY <1>0, <1>1, <2>1 DEF RcSilent, LoopTypeOK
  <1>2. CASE \E f \in RcFrameType : RcFrame(f)
    <2>0. PICK f \in RcFrameType : RcFrame(f)
      BY <1>2
    <2> DEFINE arms == /\ ~f.kill
                       /\ f.arm \/ (rc.arm_request /\ ~ReleaseStable)
    <2>1. arms \in BOOLEAN /\ f.kill \in BOOLEAN /\ f.autonomy \in BOOLEAN
      BY DEF RcFrameType
    <2> HIDE DEF arms
    <2>2. rc' = [ever_seen |-> TRUE, failsafe |-> FALSE, estop |-> f.kill,
                 arm_request |-> arms, autonomy |-> f.autonomy]
      BY <2>0 DEF RcFrame, arms
    <2>3. rc' \in RcType
      BY <2>1, <2>2 DEF RcType
    <2>4. release_pending' \in BOOLEAN
      BY <2>0 DEF RcFrame
    <2>5. release_age' \in 0..ArmReleaseDebounce
      BY <1>0, <2>0 DEF RcFrame, LoopTypeOK
    <2>6. QED
      BY <1>0, <2>0, <2>3, <2>4, <2>5 DEF RcFrame
  <1>3. QED
    BY <1>1, <1>2 DEF RcStep

LEMMA HostStepType ==
    ASSUME LoopTypeOK, HostStep
    PROVE  LoopTypeOK'
  <1> USE DEF notHost, smVars, rcVars, coreVars
  <1>0. host \in HostType /\ passive \in BOOLEAN /\ job \in BOOLEAN
    BY Records, Booleans
  <1>q. SUFFICES /\ host' \in HostType
                 /\ passive' \in BOOLEAN /\ job' \in BOOLEAN
                 /\ UNCHANGED <<lock, api, notHost>>
    BY Booleans DEF LoopTypeOK, TypeOK, HostType
  <1>1. CASE Estop \/ ClearFault \/ NoteJetsonHeartbeat
    BY <1>0, <1>1 DEF Estop, ClearFault, NoteJetsonHeartbeat, HostType
  <1>2. CASE PassiveEnter \/ PassiveExit \/ SubmitJob \/ JobDone
    BY <1>0, <1>2 DEF PassiveEnter, PassiveExit, SubmitJob, JobDone
  <1>3. CASE \E m \in {"ARM", "DISARM"} : SetArming(m)
    <2>0. PICK m \in {"ARM", "DISARM"} : SetArming(m)
      BY <1>3
    <2>1. (m = "DISARM") \in BOOLEAN
      OBVIOUS
    <2>2. host' \in HostType
      BY <1>0, <2>0, <2>1 DEF SetArming, HostType
    <2>3. QED
      BY <1>0, <2>0, <2>2 DEF SetArming
  <1>4. QED
    BY <1>1, <1>2, <1>3 DEF HostStep

LEMMA ReceiveStepType ==
    ASSUME LoopTypeOK, ReceiveStep
    PROVE  LoopTypeOK'
  <1> USE DEF notHost, smVars, rcVars, coreVars
  <1>1. PICK m \in MaintMessages, h \in BOOLEAN : MaintReceive(m, h)
    BY DEF ReceiveStep
  <1>2. (h /\ RecoveryAllowed) \in BOOLEAN /\ 0 \in 0..ApiWindow
        /\ state \in Policy!States
    BY LoopAssumption DEF LoopTypeOK, TypeOK
  <1>3. api' \in ApiType
    BY <1>1, <1>2 DEF MaintReceive, ApiType
  <1>4. UNCHANGED <<host, passive, lock, job, notHost>>
    BY <1>1 DEF MaintReceive
  <1>5. QED
    BY <1>3, <1>4 DEF LoopTypeOK, TypeOK, ApiType

LEMMA IdleType == Idle \in ApiType
  <1>1. 0 \in 0..ApiWindow
    BY LoopAssumption
  <1>2. QED
    BY <1>1 DEF Idle, ApiType, Policy!States

LEMMA MaintStepType ==
    ASSUME LoopTypeOK, MaintStep
    PROVE  LoopTypeOK'
  <1> USE DEF notHost, smVars, rcVars, coreVars
  <1>0. lock \in LockType /\ api \in ApiType
    BY Records
  <1>a. api.lag \in 0..(LockTtl + ApiWindow + 1)
    <2>1. api.lag \in 0..ApiWindow
      BY <1>0 DEF ApiType
    <2>2. QED
      BY <2>1, LoopAssumption
  <1>b. SeenLock \in LockType
    BY <1>0, UnlockedType DEF SeenLock
  <1>1. lock' \in LockType
    <2>1. CASE MaintEnter
      <3>1. (api.live = "Estop") \in BOOLEAN
        OBVIOUS
      <3>2. [locked |-> TRUE, recovery |-> api.live = "Estop",
             hb_age |-> api.lag] \in LockType
        BY <1>a, <3>1 DEF LockType
      <3>3. QED
        BY <1>b, <2>1, <3>2 DEF MaintEnter
    <2>2. CASE MaintExit
      BY <2>2, UnlockedType DEF MaintExit
    <2>3. CASE MaintHeartbeat
      <3>1. [lock EXCEPT !.hb_age = api.lag] \in LockType
        BY <1>0, <1>a DEF LockType
      <3>2. QED
        BY <2>3, <3>1, UnlockedType DEF MaintHeartbeat
    <2>4. QED
      BY <2>1, <2>2, <2>3 DEF MaintStep
  <1>2. api' = Idle /\ UNCHANGED <<host, passive, job, notHost>>
    BY DEF MaintStep, MaintEnter, MaintExit, MaintHeartbeat, Dispatch
  <1>3. api' \in ApiType
    BY <1>2, IdleType
  <1>4. QED
    BY <1>1, <1>2, <1>3 DEF LoopTypeOK, TypeOK, ApiType, LockType

LEMMA PassTimeType ==
    ASSUME LoopTypeOK, NEW dt \in Nat, PassTime(dt)
    PROVE  /\ frame_age' \in 0..(RcTimeout + 1)
           /\ release_age' \in 0..ArmReleaseDebounce
           /\ api' \in ApiType
  <1>1. frame_age' \in 0..(RcTimeout + 1)
    <2>1. RcTimeout + 1 \in Nat /\ frame_age \in 0..(RcTimeout + 1)
      BY LoopAssumption DEF LoopTypeOK
    <2>2. QED
      BY <2>1, AgeType DEF PassTime
  <1>2. release_age' \in 0..ArmReleaseDebounce
    <2>1. ArmReleaseDebounce \in Nat /\ release_age \in 0..ArmReleaseDebounce
      BY LoopAssumption DEF LoopTypeOK
    <2>2. QED
      BY <2>1, AgeType DEF PassTime
  <1>3. api' \in ApiType
    <2>1. api \in ApiType
      BY Records
    <2>2. CASE ApiIdle
      BY <2>1, <2>2 DEF PassTime
    <2>3. CASE ~ApiIdle
      <3>1. api.lag + dt \in 0..ApiWindow
        BY <2>1, <2>3, LoopAssumption DEF PassTime, ApiKeepsUp, ApiType
      <3>2. api' = [api EXCEPT !.lag = api.lag + dt]
        BY <2>3 DEF PassTime
      <3>3. QED
        BY <2>1, <3>1, <3>2 DEF ApiType
    <2>4. QED
      BY <2>2, <2>3
  <1>4. QED
    BY <1>1, <1>2, <1>3

(* The lock, the one-shot requests and the passive request after a cycle. *)
LEMMA CycleType ==
    ASSUME LoopTypeOK, NEW env \in EnvironmentType, NEW dt \in 1..MaxPeriod,
           ControlCycle(env, dt)
    PROVE  LoopTypeOK'
  <1> DEFINE l == CycleLock(dt)
  <1>0. dt \in Nat
    BY ParamAssumption
  <1>1. l \in LockType
    BY <1>0, CycleLockType
  <1>2. CoreInputs(env, l, dt) \in StateInputs
    BY <1>0, <1>1, CoreInputsType
  <1>3. TypeOK'
    BY <1>0, <1>2, UpdateTypeOK DEF ControlCycle, LoopTypeOK
  <1>4. frame_age' \in 0..(RcTimeout + 1) /\ release_age' \in 0..ArmReleaseDebounce
        /\ api' \in ApiType
    BY <1>0, PassTimeType DEF ControlCycle
  <1>5. jetson_age' \in 0..(JetsonTtl + 1)
    BY <1>0, JetsonAgeType DEF ControlCycle
  <1>6. host' \in HostType
    BY Records DEF ControlCycle, HostType
  <1>7. lock' \in LockType
    BY <1>1, UnlockedType DEF ControlCycle
  <1>8. source' \in CommandSources
    BY <1>2 DEF ControlCycle, StateInputs
  <1>9. gate' \in BOOLEAN /\ passive' \in BOOLEAN /\ lock_published' \in BOOLEAN
    <2>1. gate' \in BOOLEAN /\ passive' \in BOOLEAN
      BY DEF ControlCycle
    <2>2. (LockHeld(lock'))  \in BOOLEAN
      BY <1>7 DEF LockHeld, LockType
    <2>3. QED
      BY <2>1, <2>2 DEF ControlCycle
  <1>10. UNCHANGED <<rc, release_pending, job, config_ready>>
    BY DEF ControlCycle
  <1>11. QED
    BY <1>3, <1>4, <1>5, <1>6, <1>7, <1>8, <1>9, <1>10, Booleans, Records
    DEF LoopTypeOK, ApiType, HostType, LockType, RcType

LEMMA OverrunType ==
    ASSUME LoopTypeOK, ControlOverrun
    PROVE  LoopTypeOK'
  <1> DEFINE dt == OverrunPeriod
  <1>0. dt \in Nat
    BY LoopAssumption
  <1>1. lock' \in LockType
    BY <1>0, CycleLockType DEF ControlOverrun
  <1>2. frame_age' \in 0..(RcTimeout + 1) /\ release_age' \in 0..ArmReleaseDebounce
        /\ api' \in ApiType
    BY <1>0, PassTimeType DEF ControlOverrun
  <1>3. TypeOK'
    <2>1. /\ batt_low_age' \in 0..BatteryLowDebounce
          /\ arming_age' \in 0..ArmingTimeout
          /\ idle_age' \in 0..IdleDisarm
      BY <1>0, AgeType, ParamAssumption DEF ControlOverrun, LoopTypeOK, TypeOK
    <2>2. QED
      BY <2>1 DEF ControlOverrun, LoopTypeOK, TypeOK
  <1>4. jetson_age' \in 0..(JetsonTtl + 1)
    <2>1. JetsonTtl + 1 \in Nat /\ jetson_age \in 0..(JetsonTtl + 1)
      BY LoopAssumption DEF LoopTypeOK
    <2>2. QED
      BY <1>0, <2>1, AgeType DEF ControlOverrun
  <1>5. host' \in HostType
    BY Records DEF ControlOverrun, HostType
  <1>6. /\ passive' \in BOOLEAN /\ gate' \in BOOLEAN
        /\ lock_published' \in BOOLEAN /\ source' \in CommandSources
    <2>1. passive' \in BOOLEAN /\ gate' = FALSE /\ source' = "None"
      BY DEF ControlOverrun
    <2>2. LockHeld(lock') \in BOOLEAN
      BY <1>1 DEF LockHeld, LockType
    <2>3. QED
      BY <2>1, <2>2 DEF ControlOverrun, CommandSources
  <1>7. UNCHANGED <<rc, release_pending, job, config_ready>>
    BY DEF ControlOverrun
  <1>8. QED
    BY <1>1, <1>2, <1>3, <1>4, <1>5, <1>6, <1>7, Booleans, Records
    DEF LoopTypeOK, ApiType, HostType, LockType, RcType

LEMMA ConfigLoadedType ==
    ASSUME LoopTypeOK, ConfigLoaded
    PROVE  LoopTypeOK'
  BY DEF ConfigLoaded, LoopTypeOK, TypeOK, smVars, rcVars, hostVars, coreVars

LEMMA AnyStepType ==
    ASSUME LoopTypeOK, AnyStep
    PROVE  LoopTypeOK'
  <1>1. CASE CycleStep
    BY <1>1, CycleType DEF CycleStep
  <1>2. QED
    BY <1>1, RcStepType, HostStepType, ReceiveStepType, MaintStepType,
       OverrunType, ConfigLoadedType DEF AnyStep

(* Every age, flag and record of the loop stays in its range, however long a
   period was and however requests straddle the cycles. *)
THEOREM LoopTypeCorrect == LoopSpec => []LoopTypeOK
  <1>1. LoopTypeOK /\ UNCHANGED vars => LoopTypeOK'
    BY DEF vars, smVars, rcVars, hostVars, coreVars, LoopTypeOK, TypeOK
  <1>2. LoopTypeOK /\ [LoopNext]_vars => LoopTypeOK'
    BY <1>1, NextIsAnyStep, AnyStepType
  <1>3. QED
    BY LoopInitType, <1>2, PTL DEF LoopSpec

-----------------------------------------------------------------------------
(* Authority. *)

(* Only a control cycle decides: rcTask and apiTask leave the machine and
   what it published alone. *)
LEMMA OnlyCyclesDecide ==
    ASSUME AnyStep, ~CycleStep, ~ControlOverrun
    PROVE  UNCHANGED smVars /\ UNCHANGED <<source, gate>>
  <1>1. CASE RcStep
    BY <1>1 DEF RcStep, RcSilent, RcFrame, coreVars
  <1>2. CASE HostStep
    BY <1>2 DEF HostStep, Estop, ClearFault, NoteJetsonHeartbeat, PassiveEnter,
                PassiveExit, SubmitJob, JobDone, SetArming, notHost, coreVars
  <1>3. CASE ReceiveStep \/ MaintStep
    BY <1>3 DEF ReceiveStep, MaintReceive, MaintStep, MaintEnter, MaintExit,
                MaintHeartbeat, Dispatch, notHost, coreVars
  <1>4. CASE ConfigLoaded
    BY <1>4 DEF ConfigLoaded, coreVars
  <1>5. QED
    BY <1>1, <1>2, <1>3, <1>4 DEF AnyStep

(* What update() has seen in the inputs of the cycle that ends in a state
   that may move the legs. *)
LEMMA UpdateAuthority ==
    ASSUME NEW in \in StateInputs, NEW dt \in Nat, Update(in, dt)
    PROVE  /\ state' = "MacMaintenance" => in.mac_lock_held
           /\ state' \in {"RcManual", "ContactTerrain"} => in.command_source = "Rc"
           /\ state' = "JetsonAssisted"
                => in.rc_armed /\ in.jetson_fresh /\ in.rc_autonomy
  <1>1. CASE DxlHardFault(in, dt)
    BY <1>1 DEF DxlHardFault
  <1>2. CASE FaultHardLatched(in, dt)
    BY <1>2 DEF FaultHardLatched
  <1>3. CASE EstopAsserted(in, dt)
    BY <1>3 DEF EstopAsserted
  <1>4. CASE EstopReleased(in, dt) \/ ForcedDisarm(in, dt)
    BY <1>4 DEF EstopReleased, ForcedDisarm
  <1>5. CASE Starting(in, dt)
    BY <1>5 DEF Starting
  <1>6. CASE Resting(in, dt)
    BY <1>6 DEF Resting, DisarmedTarget
  <1>7. CASE Arming(in, dt)
    BY <1>7 DEF Arming, ArmingTarget
  <1>8. CASE Engaged(in, dt)
    <2>1. CASE state \in IdleEligible /\ state' = WalkingTarget(in)
      BY <2>1 DEF WalkingTarget, JetsonSelected
    <2>2. CASE /\ state \in {"MacMaintenance", "PassivePoseStream"}
               /\ state' = BenchTarget(in)
      BY <2>2 DEF BenchTarget
    <2>3. QED
      BY <1>8, <2>1, <2>2 DEF Engaged
  <1>9. CASE SoftFault(in, dt)
    BY <1>9 DEF SoftFault
  <1>10. QED
    BY <1>1, <1>2, <1>3, <1>4, <1>5, <1>6, <1>7, <1>8, <1>9 DEF Update

(* The arbiter prefers the lock to the operator, and the Jetson to the
   transmitter that granted it autonomy. *)
LEMMA ArbitratePrefers ==
    ASSUME NEW env, NEW l, NEW dt
    PROVE  /\ LockHeld(l) => Arbitrate(env, l, dt) \in {"None", "MacMaintenance"}
           /\ rc.arm_request /\ rc.autonomy /\ JetsonFresh(dt)
                => Arbitrate(env, l, dt) \in {"None", "MacMaintenance", "Jetson"}
           /\ KillActive(env, l) => Arbitrate(env, l, dt) = "None"
           /\ Arbitrate(env, l, dt) = "MacMaintenance" => LockHeld(l)
  BY DEF Arbitrate

LEMMA CycleAuthority ==
    ASSUME LoopTypeOK, NEW env \in EnvironmentType, NEW dt \in 1..MaxPeriod,
           ControlCycle(env, dt)
    PROVE  AuthorityMatchesState'
  <1> DEFINE l == CycleLock(dt)
             in == CoreInputs(env, l, dt)
  <1>0. dt \in Nat
    BY ParamAssumption
  <1>1. l \in LockType
    BY <1>0, CycleLockType
  <1>2. in \in StateInputs
    BY <1>0, <1>1, CoreInputsType
  <1>3. /\ source' = Arbitrate(env, l, dt)
        /\ gate' => state' \in Policy!stateAllowsMotion /\ source' # "None"
        /\ Update(in, dt)
    BY DEF ControlCycle, CoreInputs
  <1>4. /\ in.mac_lock_held = LockHeld(l)
        /\ in.command_source = Arbitrate(env, l, dt)
        /\ in.rc_armed = rc.arm_request /\ in.jetson_fresh = JetsonFresh(dt)
        /\ in.rc_autonomy = rc.autonomy
    BY DEF CoreInputs
  <1> HIDE DEF l, in
  <1>5. /\ state' = "MacMaintenance" => in.mac_lock_held
        /\ state' \in {"RcManual", "ContactTerrain"} => in.command_source = "Rc"
        /\ state' = "JetsonAssisted"
             => in.rc_armed /\ in.jetson_fresh /\ in.rc_autonomy
    BY <1>0, <1>2, <1>3, UpdateAuthority
  <1>6. CASE state' = "MacMaintenance"
    BY <1>3, <1>4, <1>5, <1>6, ArbitratePrefers DEF AuthorityMatchesState
  <1>7. CASE state' \in {"RcManual", "ContactTerrain"}
    BY <1>3, <1>4, <1>5, <1>7 DEF AuthorityMatchesState
  <1>8. CASE state' = "JetsonAssisted"
    BY <1>3, <1>4, <1>5, <1>8, ArbitratePrefers DEF AuthorityMatchesState
  <1>9. QED
    BY <1>3, <1>6, <1>7, <1>8 DEF AuthorityMatchesState, Policy!stateAllowsMotion

LEMMA AnyStepAuthority ==
    ASSUME LoopTypeOK, AuthorityMatchesState, AnyStep
    PROVE  AuthorityMatchesState'
  <1>1. CASE CycleStep
    BY <1>1, CycleAuthority DEF CycleStep
  <1>2. CASE ControlOverrun
    BY <1>2 DEF ControlOverrun, AuthorityMatchesState
  <1>3. CASE UNCHANGED smVars /\ UNCHANGED <<source, gate>>
    BY <1>3 DEF smVars, AuthorityMatchesState
  <1>4. QED
    BY <1>1, <1>2, <1>3, OnlyCyclesDecide

(* An open motion gate carries the authority its state was entered for,
   whatever the other tasks changed between the arbiter's decision and the
   machine's. *)
THEOREM GateCarriesItsAuthority == LoopSpec => []AuthorityMatchesState
  <1> DEFINE Inv == LoopTypeOK /\ AuthorityMatchesState
  <1>1. LoopInit => Inv
    BY LoopInitType DEF LoopInit, AuthorityMatchesState
  <1>2. Inv /\ UNCHANGED vars => Inv'
    BY DEF vars, smVars, rcVars, hostVars, coreVars, LoopTypeOK, TypeOK,
           AuthorityMatchesState
  <1>3. Inv /\ [LoopNext]_vars => Inv'
    BY <1>2, NextIsAnyStep, AnyStepType, AnyStepAuthority
  <1>4. QED
    BY <1>1, <1>3, PTL DEF LoopSpec

-----------------------------------------------------------------------------
(* Stops. *)

(* A host E-stop, or a kill that a live link carries, stops update() in the
   cycle that sees it; no recovery lock stands against it. *)
LEMMA UpdateStops ==
    ASSUME NEW in \in StateInputs, NEW dt \in Nat, Update(in, dt),
           \/ in.host_estop
           \/ in.rc_kill /\ in.rc_ever_seen /\ ~in.rc_failsafe
    PROVE  /\ state # "FaultHard" => state' \in {"Estop", "FaultHard"}
           /\ state' \in {"Estop", "FaultHard", "Disarmed"}
  <1>1. EstopReason(in, dt) # "None"
    BY DEF EstopReason, StaleFailsafeRecovery
  <1>2. ~NoStop(in, dt)
    BY <1>1 DEF NoStop
  <1>3. CASE DxlHardFault(in, dt)
    BY <1>3 DEF DxlHardFault
  <1>4. CASE FaultHardLatched(in, dt)
    BY <1>4 DEF FaultHardLatched
  <1>5. CASE EstopAsserted(in, dt)
    BY <1>5 DEF EstopAsserted
  <1>6. QED
    BY <1>2, <1>3, <1>4, <1>5
    DEF Update, EstopReleased, ForcedDisarm, Starting, Resting, Arming, Engaged,
        SoftFault, Proceed

LEMMA CycleStops ==
    ASSUME LoopTypeOK, NEW env \in EnvironmentType, NEW dt \in 1..MaxPeriod,
           ControlCycle(env, dt), host.estop \/ (RcKill /\ ~rc.failsafe)
    PROVE  /\ ~gate' /\ state' \notin Policy!stateAllowsDxlPower
           /\ state # "FaultHard" => /\ state' \in {"Estop", "FaultHard"}
                                     /\ ~lock'.locked /\ ~passive'
  <1> DEFINE l == CycleLock(dt)
             in == CoreInputs(env, l, dt)
  <1>0. dt \in Nat
    BY ParamAssumption
  <1>1. in \in StateInputs
    BY <1>0, CycleLockType, CoreInputsType
  <1>2. /\ in.host_estop = host.estop /\ in.rc_kill = RcKill
        /\ in.rc_ever_seen = rc.ever_seen /\ in.rc_failsafe = rc.failsafe
        /\ in.command_source = Arbitrate(env, l, dt)
    BY DEF CoreInputs
  <1>3. /\ Update(in, dt)
        /\ gate' => in.command_source # "None"
        /\ lock' = IF RevokesAuthority(state') THEN Unlocked ELSE l
        /\ passive' => ~RevokesAuthority(state')
    BY DEF ControlCycle
  <1>4. KillActive(env, l)
    BY DEF KillActive, CoreRecovery
  <1> HIDE DEF l, in
  <1>5. ~gate'
    BY <1>2, <1>3, <1>4, ArbitratePrefers
  <1>6. \/ in.host_estop
        \/ in.rc_kill /\ in.rc_ever_seen /\ ~in.rc_failsafe
    BY <1>2 DEF RcKill
  <1>7. /\ state # "FaultHard" => state' \in {"Estop", "FaultHard"}
        /\ state' \in {"Estop", "FaultHard", "Disarmed"}
    BY <1>0, <1>1, <1>3, <1>6, UpdateStops
  <1>8. state' \notin Policy!stateAllowsDxlPower
    BY <1>7 DEF Policy!stateAllowsDxlPower, Policy!stateAllowsTorque,
                Policy!stateAllowsMotion
  <1>9. state # "FaultHard" => ~lock'.locked /\ ~passive'
    BY <1>3, <1>7 DEF RevokesAuthority, Policy!Stopped, Unlocked
  <1>10. QED
    BY <1>5, <1>7, <1>8, <1>9

(* One control cycle is enough for a host E-stop or a live kill switch, from
   every state and under every lock. *)
THEOREM StopIsImmediate == LoopSpec => StopTakesOneCycle
  <1> DEFINE Stops ==
        AnyControlCycle /\ (host.estop \/ (RcKill /\ ~rc.failsafe))
         => /\ ~gate' /\ state' \notin Policy!stateAllowsDxlPower
            /\ state # "FaultHard" => /\ state' \in {"Estop", "FaultHard"}
                                      /\ ~lock'.locked /\ ~passive'
  <1>1. LoopTypeOK => Stops
    <2> SUFFICES ASSUME LoopTypeOK, AnyControlCycle,
                        host.estop \/ (RcKill /\ ~rc.failsafe)
                 PROVE  /\ ~gate' /\ state' \notin Policy!stateAllowsDxlPower
                        /\ state # "FaultHard" =>
                             /\ state' \in {"Estop", "FaultHard"}
                             /\ ~lock'.locked /\ ~passive'
      OBVIOUS
    <2>1. PICK env \in Environments, dt \in 1..MaxPeriod : ControlCycle(env, dt)
      BY DEF AnyControlCycle
    <2>2. env \in EnvironmentType
      BY LoopAssumption
    <2>3. QED
      BY <2>1, <2>2, CycleStops
  <1>2. LoopTypeOK => [Stops]_vars
    BY <1>1
  <1>3. LoopSpec => []LoopTypeOK
    BY LoopTypeCorrect
  <1>4. QED
    BY <1>2, <1>3, PTL DEF StopTakesOneCycle

-----------------------------------------------------------------------------
(* The transition graph. *)

(* The state byte the loop publishes follows the transition graph that the
   actuation task is composed with. *)
THEOREM LoopFollowsPolicy == LoopSpec => ImplementsPolicy
  <1>1. LoopInit => Policy!PolicyInit
    BY DEF LoopInit, Init, Policy!PolicyInit
  <1>2. LoopTypeOK /\ [LoopNext]_vars => [Policy!PolicyNext]_state
    <2> SUFFICES ASSUME LoopTypeOK, [LoopNext]_vars
                 PROVE  Policy!PolicyNext \/ state' = state
      OBVIOUS
    <2>1. CASE CycleStep
      <3>1. PICK env \in EnvironmentType, dt \in 1..MaxPeriod : ControlCycle(env, dt)
        BY <2>1 DEF CycleStep
      <3>2. dt \in Nat
        BY ParamAssumption
      <3>3. CoreInputs(env, CycleLock(dt), dt) \in StateInputs
        BY <3>2, CycleLockType, CoreInputsType
      <3>4. Update(CoreInputs(env, CycleLock(dt), dt), dt)
        BY <3>1 DEF ControlCycle
      <3>5. QED
        BY <3>2, <3>3, <3>4, UpdateInGraph DEF LoopTypeOK
    <2>2. CASE ControlOverrun
      BY <2>2 DEF ControlOverrun
    <2>3. CASE UNCHANGED smVars
      BY <2>3 DEF smVars
    <2>4. QED
      BY <2>1, <2>2, <2>3, NextIsAnyStep, OnlyCyclesDecide DEF vars
  <1>3. LoopSpec => []LoopTypeOK
    BY LoopTypeCorrect
  <1>4. QED
    BY <1>1, <1>2, <1>3, PTL DEF LoopSpec, ImplementsPolicy, Policy!PolicySpec

-----------------------------------------------------------------------------
(* The behaviours with a history: what the operator's switch and the
   maintenance host did earlier, for every set of scenarios. *)

MCTypeOK ==
    /\ LoopTypeOK
    /\ scenario \in Scenarios
    /\ silence \in 0..(LockTtl + 1)

LEMMA MCNextIsAnyStep ==
    ASSUME MCNext, scenario \in Scenarios
    PROVE  AnyStep
  <1>1. /\ scenario.frames \subseteq RcFrameType
        /\ scenario.environments \subseteq EnvironmentType
    BY ScenarioAssumption
  <1>2. CASE Operator
    BY <1>1, <1>2 DEF Operator, AnyStep, RcStep
  <1>3. CASE LockHolder
    BY <1>3 DEF LockHolder, AnyStep, ReceiveStep, HostStep
  <1>4. CASE OtherSteps
    BY <1>4 DEF OtherSteps, AnyStep, RcStep, HostStep, MaintStep
  <1>5. CASE Cycles
    BY <1>1, <1>5 DEF Cycles, AnyStep, CycleStep
  <1>6. QED
    BY <1>2, <1>3, <1>4, <1>5 DEF MCNext

(* Both kinds of cycle, with what they have in common. *)
LEMMA CyclesAre ==
    ASSUME Cycles, scenario \in Scenarios
    PROVE  \/ \E env \in EnvironmentType, dt \in 1..MaxPeriod :
                ControlCycle(env, dt) /\ CycleHistory(dt)
           \/ ControlOverrun /\ CycleHistory(OverrunPeriod)
  <1>1. scenario.environments \subseteq EnvironmentType
    BY ScenarioAssumption
  <1>2. QED
    BY <1>1 DEF Cycles

LEMMA SilenceType ==
    ASSUME MCTypeOK, NEW dt \in Nat, CycleHistory(dt)
    PROVE  /\ silence' \in 0..(LockTtl + 1)
           /\ silence' <= silence + dt
  <1>1. LockTtl + 1 \in Nat /\ 0 \in 0..(LockTtl + 1)
        /\ silence \in 0..(LockTtl + 1)
    BY LoopAssumption DEF MCTypeOK
  <1>2. Age(LockTtl + 1, silence, dt) \in 0..(LockTtl + 1)
    BY <1>1, AgeType
  <1>3. Age(LockTtl + 1, silence, dt) <= silence + dt
    BY <1>1, LoopAssumption DEF Age
  <1>4. QED
    BY <1>1, <1>2, <1>3 DEF CycleHistory

LEMMA MCStepType ==
    ASSUME MCTypeOK, MCNext
    PROVE  MCTypeOK'
  <1>1. LoopTypeOK'
    BY MCNextIsAnyStep, AnyStepType DEF MCTypeOK
  <1>2. scenario' \in Scenarios
    BY DEF MCNext, MCTypeOK
  <1>3. silence' \in 0..(LockTtl + 1)
    <2>0. 0 \in 0..(LockTtl + 1) /\ silence \in 0..(LockTtl + 1)
      BY LoopAssumption DEF MCTypeOK
    <2>1. CASE Operator
      BY <2>0, <2>1 DEF Operator
    <2>2. CASE LockHolder
      BY <2>0, <2>2 DEF LockHolder
    <2>3. CASE OtherSteps
      BY <2>0, <2>3 DEF OtherSteps, history
    <2>4. CASE Cycles
      <3>1. MaxPeriod \in Nat /\ OverrunPeriod \in Nat
        BY LoopAssumption, ParamAssumption
      <3>2. PICK dt \in Nat : CycleHistory(dt)
        BY <2>4, <3>1, CyclesAre DEF MCTypeOK
      <3>3. QED
        BY <3>2, SilenceType
    <2>5. QED
      BY <2>1, <2>2, <2>3, <2>4 DEF MCNext
  <1>4. QED
    BY <1>1, <1>2, <1>3 DEF MCTypeOK

LEMMA MCInitType == MCInit => MCTypeOK
  <1> SUFFICES ASSUME MCInit PROVE MCTypeOK
    OBVIOUS
  <1>1. silence \in 0..(LockTtl + 1)
    BY LoopAssumption DEF MCInit
  <1>2. QED
    BY <1>1, LoopInitType DEF MCInit, MCTypeOK

LEMMA MCStutterType == MCTypeOK /\ UNCHANGED MCVars => MCTypeOK'
  BY DEF MCVars, history, vars, smVars, rcVars, hostVars, coreVars, MCTypeOK,
         LoopTypeOK, TypeOK

-----------------------------------------------------------------------------
(* Maintenance follows the host. *)

(* The age the lock carries never understates the host's silence: a request
   on its way has sampled its clock no earlier than the host spoke, and a
   grant or a heartbeat restarts the lock from that sample. *)
SilenceInv ==
    /\ lock.locked => silence <= lock.hb_age
    /\ api.pc = "dispatch" /\ api.msg # "MAINT_EXIT" => silence <= api.lag
    /\ MaintenanceFollowsHost

LEMMA CycleSilence ==
    ASSUME MCTypeOK, SilenceInv, NEW dt \in Nat, CycleHistory(dt),
           CycleLock(dt).locked
    PROVE  silence' <= CycleLock(dt).hb_age
  <1> DEFINE bound == LockTtl + ApiWindow + 1
             aged == Age(bound, lock.hb_age, dt)
  <1>1. lock \in LockType
    BY Records DEF MCTypeOK
  <1>2. /\ lock.locked
        /\ CycleLock(dt).hb_age = IF job /\ aged <= LockTtl THEN 0 ELSE aged
    BY <1>1 DEF CycleLock, Unlocked, LockType
  <1>3. lock.hb_age \in 0..bound /\ silence \in 0..(LockTtl + 1)
        /\ silence <= lock.hb_age
    BY <1>1, <1>2 DEF LockType, MCTypeOK, SilenceInv
  <1>4. bound \in Nat /\ LockTtl \in Nat /\ LockTtl + 1 <= bound
    BY LoopAssumption
  <1> HIDE DEF bound
  <1>5. aged \in 0..bound
    BY <1>3, <1>4, AgeType
  <1>6. Age(LockTtl + 1, silence, dt) <= aged
    BY <1>3, <1>4 DEF Age
  <1>7. CASE job
    BY <1>2, <1>5, <1>7, <1>4 DEF CycleHistory
  <1>8. CASE ~job
    BY <1>2, <1>6, <1>8 DEF CycleHistory
  <1>9. QED
    BY <1>7, <1>8

LEMMA PassTimeSilence ==
    ASSUME MCTypeOK, SilenceInv, NEW dt \in Nat, CycleHistory(dt), PassTime(dt)
    PROVE  api'.pc = "dispatch" /\ api'.msg # "MAINT_EXIT" => silence' <= api'.lag
  <1>1. api \in ApiType
    BY Records DEF MCTypeOK
  <1>2. CASE ApiIdle
    BY <1>1, <1>2 DEF PassTime, ApiIdle
  <1>3. CASE ~ApiIdle
    <2>1. api' = [api EXCEPT !.lag = api.lag + dt]
      BY <1>3 DEF PassTime
    <2>2. api'.pc = api.pc /\ api'.msg = api.msg /\ api'.lag = api.lag + dt
      BY <1>1, <2>1 DEF ApiType
    <2>3. silence' \in 0..(LockTtl + 1) /\ silence' <= silence + dt
      BY SilenceType
    <2>4. api.lag \in 0..ApiWindow /\ silence \in 0..(LockTtl + 1)
      BY <1>1 DEF ApiType, MCTypeOK
    <2>5. QED
      BY <2>2, <2>3, <2>4, LoopAssumption DEF SilenceInv
  <1>4. QED
    BY <1>2, <1>3

LEMMA CyclesSilence ==
    ASSUME MCTypeOK, SilenceInv, Cycles
    PROVE  SilenceInv'
  <1>1. ASSUME NEW env \in EnvironmentType, NEW dt \in 1..MaxPeriod,
               ControlCycle(env, dt), CycleHistory(dt)
        PROVE  SilenceInv'
    <2> DEFINE l == CycleLock(dt)
    <2>0. dt \in Nat
      BY ParamAssumption
    <2>1. l.locked => silence' <= l.hb_age
      BY <1>1, <2>0, CycleSilence
    <2>2. api'.pc = "dispatch" /\ api'.msg # "MAINT_EXIT" => silence' <= api'.lag
      BY <1>1, <2>0, PassTimeSilence DEF ControlCycle
    <2>3. lock' = Unlocked \/ lock' = l
      BY <1>1 DEF ControlCycle
    <2>4. source' = "MacMaintenance" => LockHeld(l)
      BY <1>1, ArbitratePrefers DEF ControlCycle, CoreInputs
    <2>5. l \in LockType /\ silence' \in 0..(LockTtl + 1)
      BY <1>1, <2>0, CycleLockType, SilenceType DEF MCTypeOK
    <2> HIDE DEF l
    <2>6. source' = "MacMaintenance" => silence' <= LockTtl
      BY <2>1, <2>4, <2>5, LoopAssumption DEF LockHeld, LockType
    <2>7. QED
      BY <2>1, <2>2, <2>3, <2>6 DEF SilenceInv, MaintenanceFollowsHost, Unlocked
  <1>2. CASE ControlOverrun /\ CycleHistory(OverrunPeriod)
    <2>0. OverrunPeriod \in Nat
      BY LoopAssumption
    <2>1. CycleLock(OverrunPeriod).locked
            => silence' <= CycleLock(OverrunPeriod).hb_age
      BY <1>2, <2>0, CycleSilence
    <2>2. api'.pc = "dispatch" /\ api'.msg # "MAINT_EXIT" => silence' <= api'.lag
      BY <1>2, <2>0, PassTimeSilence DEF ControlOverrun
    <2>3. QED
      BY <1>2, <2>1, <2>2 DEF ControlOverrun, SilenceInv, MaintenanceFollowsHost
  <1>3. QED
    BY <1>1, <1>2, CyclesAre DEF MCTypeOK

LEMMA SilenceStep ==
    ASSUME MCTypeOK, SilenceInv, MCNext
    PROVE  SilenceInv'
  <1> USE DEF SilenceInv, MaintenanceFollowsHost
  <1>0. /\ lock \in LockType /\ api \in ApiType
        /\ LockTtl \in Nat /\ silence \in 0..(LockTtl + 1)
    BY Records, LoopAssumption DEF MCTypeOK
  <1>1. CASE Operator
    BY <1>1 DEF Operator, RcFrame, hostVars, coreVars
  <1>2. CASE LockHolder
    <2>1. CASE \E m \in MaintMessages, h \in BOOLEAN :
                 /\ MaintReceive(m, h)
                 /\ silence' = IF m = "MAINT_EXIT" THEN silence ELSE 0
      <3>1. PICK m \in MaintMessages, h \in BOOLEAN :
                 /\ MaintReceive(m, h)
                 /\ silence' = IF m = "MAINT_EXIT" THEN silence ELSE 0
        BY <2>1
      <3>2. /\ api'.msg = m /\ api'.lag = 0
            /\ UNCHANGED <<lock, source, gate>>
        BY <3>1 DEF MaintReceive, notHost, coreVars
      <3>3. CASE m = "MAINT_EXIT"
        BY <3>1, <3>2, <3>3
      <3>4. CASE m # "MAINT_EXIT"
        BY <1>0, <3>1, <3>2, <3>4 DEF LockType
      <3>5. QED
        BY <3>3, <3>4
    <2>2. CASE SubmitJob /\ silence' = 0
      BY <1>0, <2>2 DEF SubmitJob, notHost, coreVars, LockType, ApiType
    <2>3. QED
      BY <1>2, <2>1, <2>2 DEF LockHolder
  <1>3. CASE OtherSteps
    <2>0. UNCHANGED silence
      BY <1>3 DEF OtherSteps, history
    <2>1. CASE RcSilent \/ JobDone \/ ConfigLoaded
      BY <2>0, <2>1 DEF RcSilent, JobDone, ConfigLoaded, hostVars, coreVars, notHost
    <2>2. CASE \/ Estop \/ ClearFault \/ NoteJetsonHeartbeat
               \/ PassiveEnter \/ PassiveExit
               \/ \E m \in {"ARM", "DISARM"} : SetArming(m)
      BY <2>0, <2>2 DEF Estop, ClearFault, NoteJetsonHeartbeat, PassiveEnter,
                        PassiveExit, SetArming, notHost, coreVars
    <2>3. CASE MaintStep
      <3>1. /\ api.pc = "dispatch" /\ api' = Idle
            /\ UNCHANGED <<source, gate>>
        BY <2>3 DEF MaintStep, MaintEnter, MaintExit, MaintHeartbeat, Dispatch,
                    notHost, coreVars
      <3>2. lock'.locked => silence <= lock'.hb_age
        <4>1. CASE MaintEnter
          <5>1. silence <= api.lag
            BY <3>1, <4>1 DEF MaintEnter, Dispatch
          <5>2. QED
            BY <4>1, <5>1 DEF MaintEnter, SeenLock, Unlocked
        <4>2. CASE MaintExit
          BY <4>2 DEF MaintExit, Unlocked
        <4>3. CASE MaintHeartbeat
          <5>1. silence <= api.lag
            BY <3>1, <4>3 DEF MaintHeartbeat, Dispatch
          <5>2. QED
            BY <1>0, <4>3, <5>1 DEF MaintHeartbeat, Unlocked, LockType
        <4>4. QED
          BY <2>3, <4>1, <4>2, <4>3 DEF MaintStep
      <3>3. QED
        BY <2>0, <3>1, <3>2 DEF Idle
    <2>4. QED
      BY <1>3, <2>1, <2>2, <2>3 DEF OtherSteps, MaintStep
  <1>4. CASE Cycles
    BY <1>4, CyclesSilence
  <1>5. QED
    BY <1>1, <1>2, <1>3, <1>4 DEF MCNext

(* No maintenance motion outlives the host by more than the lock's time to
   live, whatever window a request may straddle and however many jobs feed
   the lock. *)
THEOREM MaintenanceNeedsHost == MCSpec => []MaintenanceFollowsHost
  <1> DEFINE Inv == MCTypeOK /\ SilenceInv
  <1>1. MCInit => Inv
    <2>1. MCInit => SilenceInv
      BY DEF MCInit, LoopInit, SilenceInv, MaintenanceFollowsHost, Unlocked, Idle
    <2>2. QED
      BY <2>1, MCInitType
  <1>2. Inv /\ UNCHANGED MCVars => Inv'
    <2>1. SilenceInv /\ UNCHANGED MCVars => SilenceInv'
      BY DEF MCVars, history, vars, hostVars, coreVars, SilenceInv,
             MaintenanceFollowsHost
    <2>2. QED
      BY <2>1, MCStutterType
  <1>3. Inv /\ [MCNext]_MCVars => Inv'
    BY <1>2, MCStepType, SilenceStep
  <1>4. Inv => MaintenanceFollowsHost
    BY DEF SilenceInv
  <1>5. QED
    BY <1>1, <1>3, <1>4, PTL DEF MCSpec

-----------------------------------------------------------------------------
(* A held switch never re-arms. *)

(* A live link that does not ask to arm has shown the switch low; a switch
   seen low counts as released; and a resting machine that no longer waits
   for the release, after it was engaged, has had it. *)
HeldInv ==
    /\ EngagedNeedsRelease
    /\ ~rc.failsafe => rc.ever_seen
    /\ ~rc.failsafe /\ ~rc.estop /\ ~rc.arm_request => sw_low
    /\ sw_low => released
    /\ engaged /\ state \in RestStates /\ ~arm_release_required => released

(* update() forgets the outstanding release only for a switch that is not
   held, in a cycle in which nothing stops the machine. *)
LEMMA UpdateForgets ==
    ASSUME TypeOK, EngagedNeedsRelease,
           NEW in \in StateInputs, NEW dt \in Nat, Update(in, dt),
           state' \in RestStates, ~arm_release_required'
    PROVE  \/ state \in RestStates /\ ~arm_release_required
           \/ ~in.rc_armed /\ NoStop(in, dt)
  <1> USE DEF RestStates, EngagedNeedsRelease, IdleEligible,
              Policy!idleDisarmEligible, Policy!Stopped
  <1>1. CASE DxlHardFault(in, dt)
    BY <1>1 DEF DxlHardFault
  <1>2. CASE FaultHardLatched(in, dt)
    BY <1>2 DEF FaultHardLatched, ReleaseAfterHeldSwitch
  <1>3. CASE EstopAsserted(in, dt)
    BY <1>3 DEF EstopAsserted
  <1>4. CASE EstopReleased(in, dt)
    BY <1>4 DEF EstopReleased, ReleaseAfterHeldSwitch
  <1>5. CASE ForcedDisarm(in, dt)
    BY <1>5 DEF ForcedDisarm
  <1>6. CASE Starting(in, dt)
    BY <1>6 DEF Starting
  <1>7. CASE Resting(in, dt)
    BY <1>7 DEF Resting, Proceed
  <1>8. CASE Arming(in, dt)
    BY <1>8 DEF Arming, Proceed, ReleaseAfterHeldSwitch
  <1>9. CASE Engaged(in, dt)
    BY <1>9 DEF Engaged, Proceed, ReleaseAfterHeldSwitch
  <1>10. CASE SoftFault(in, dt)
    BY <1>10 DEF SoftFault, ReleaseAfterHeldSwitch
  <1>11. QED
    BY <1>1, <1>2, <1>3, <1>4, <1>5, <1>6, <1>7, <1>8, <1>9, <1>10 DEF Update

(* update() starts arming only from Disarmed, with no release outstanding. *)
LEMMA UpdateArms ==
    ASSUME NEW in \in StateInputs, NEW dt \in Nat, Update(in, dt),
           state # "ArmingChecks", state' = "ArmingChecks"
    PROVE  state = "Disarmed" /\ ~arm_release_required
  <1>1. ~DxlHardFault(in, dt) /\ ~EstopAsserted(in, dt)
    BY DEF DxlHardFault, EstopAsserted
  <1>2. ~FaultHardLatched(in, dt) /\ ~SoftFault(in, dt)
    BY DEF FaultHardLatched, SoftFault
  <1>3. ~EstopReleased(in, dt) /\ ~ForcedDisarm(in, dt) /\ ~Starting(in, dt)
        /\ ~Arming(in, dt)
    BY DEF EstopReleased, ForcedDisarm, Starting, Arming
  <1>4. ~Engaged(in, dt)
    BY DEF Engaged, WalkingTarget, BenchTarget
  <1>5. Resting(in, dt)
    BY <1>1, <1>2, <1>3, <1>4 DEF Update
  <1>6. QED
    BY <1>5 DEF Resting, DisarmedTarget

LEMMA CycleHeld ==
    ASSUME LoopTypeOK, HeldInv, NEW env \in EnvironmentType,
           NEW dt \in 1..MaxPeriod, ControlCycle(env, dt), CycleHistory(dt)
    PROVE  /\ HeldInv'
           /\ engaged /\ state # "ArmingChecks" /\ state' = "ArmingChecks"
                => released
  <1> DEFINE in == CoreInputs(env, CycleLock(dt), dt)
  <1>0. dt \in Nat /\ TypeOK /\ rc \in RcType
    BY ParamAssumption, Records DEF LoopTypeOK
  <1>1. in \in StateInputs
    BY <1>0, CycleLockType, CoreInputsType
  <1>2. Update(in, dt) /\ rc' = rc
    BY DEF ControlCycle
  <1>3. /\ in.rc_armed = rc.arm_request /\ in.rc_failsafe = rc.failsafe
        /\ in.rc_kill = RcKill /\ in.rc_ever_seen = rc.ever_seen
    BY DEF CoreInputs
  <1> HIDE DEF in
  <1>4. EngagedNeedsRelease'
    BY <1>0, <1>1, <1>2, UpdateRelease DEF HeldInv
  <1>5. sw_low' = sw_low
    BY DEF CycleHistory
  <1>6. sw_low' => released'
    BY DEF CycleHistory, HeldInv
  <1>7. ASSUME engaged', state' \in RestStates, ~arm_release_required'
        PROVE  released'
    <2>1. engaged /\ ~rc.failsafe /\ released' = released
      BY <1>7 DEF CycleHistory
    <2>2. \/ state \in RestStates /\ ~arm_release_required
          \/ ~in.rc_armed /\ NoStop(in, dt)
      BY <1>0, <1>1, <1>2, <1>7, UpdateForgets DEF HeldInv
    <2>3. CASE state \in RestStates /\ ~arm_release_required
      BY <2>1, <2>3 DEF HeldInv
    <2>4. CASE ~in.rc_armed /\ NoStop(in, dt)
      <3>1. ~(in.rc_kill /\ in.rc_ever_seen)
        BY <1>3, <2>1, <2>4 DEF NoStop, EstopReason, StaleFailsafeRecovery
      <3>2. ~rc.estop /\ ~rc.arm_request
        BY <1>3, <2>1, <2>4, <3>1 DEF RcKill, HeldInv
      <3>3. QED
        BY <2>1, <3>2 DEF HeldInv
    <2>5. QED
      BY <2>2, <2>3, <2>4
  <1>8. engaged /\ state # "ArmingChecks" /\ state' = "ArmingChecks" => released
    BY <1>0, <1>1, <1>2, UpdateArms DEF HeldInv, RestStates
  <1>9. QED
    BY <1>2, <1>4, <1>5, <1>6, <1>7, <1>8 DEF HeldInv

LEMMA HeldStep ==
    ASSUME MCTypeOK, HeldInv, MCNext
    PROVE  /\ HeldInv'
           /\ engaged /\ state # "ArmingChecks" /\ state' = "ArmingChecks"
                => released
  <1>0. LoopTypeOK /\ rc \in RcType
    BY Records DEF MCTypeOK
  <1>1. CASE Operator
    <2>1. PICK f \in scenario.frames :
            /\ RcFrame(f)
            /\ sw_low' = ~f.arm
            /\ released' = (released \/ ~f.arm)
            /\ UNCHANGED <<engaged, silence>>
      BY <1>1 DEF Operator
    <2>2. UNCHANGED smVars /\ rc'.ever_seen
      BY <2>1 DEF RcFrame
    <2>3. ~rc'.estop /\ ~rc'.arm_request => ~f.arm
      BY <2>1 DEF RcFrame
    <2>4. QED
      BY <2>1, <2>2, <2>3 DEF HeldInv, EngagedNeedsRelease, smVars
  <1>2. CASE RcSilent /\ UNCHANGED history
    <2>1. rc'.failsafe
      BY <1>0, <1>2 DEF RcSilent, FailsafeHold, RcType
    <2>2. QED
      BY <1>2, <2>1 DEF RcSilent, HeldInv, EngagedNeedsRelease, smVars, history,
                        operator
  <1>3. CASE Cycles
    <2>1. CASE \E env \in EnvironmentType, dt \in 1..MaxPeriod :
                 ControlCycle(env, dt) /\ CycleHistory(dt)
      BY <1>0, <2>1, CycleHeld
    <2>2. CASE ControlOverrun /\ CycleHistory(OverrunPeriod)
      BY <2>2 DEF ControlOverrun, CycleHistory, HeldInv, EngagedNeedsRelease
    <2>3. QED
      BY <1>3, <2>1, <2>2, CyclesAre DEF MCTypeOK
  <1>4. ASSUME UNCHANGED <<smVars, rc, operator>>
        PROVE  /\ HeldInv'
               /\ engaged /\ state # "ArmingChecks" /\ state' = "ArmingChecks"
                    => released
    BY <1>4 DEF HeldInv, EngagedNeedsRelease, smVars, operator
  <1>5. CASE LockHolder
    BY <1>4, <1>5 DEF LockHolder, MaintReceive, SubmitJob, notHost, rcVars
  <1>6. CASE OtherSteps /\ ~RcSilent
    <2>1. UNCHANGED operator
      BY <1>6 DEF OtherSteps, history
    <2>2. UNCHANGED <<smVars, rc>>
      BY <1>6 DEF OtherSteps, JobDone, ConfigLoaded, Estop, ClearFault,
                  NoteJetsonHeartbeat, SetArming, PassiveEnter, PassiveExit,
                  MaintEnter, MaintExit, MaintHeartbeat, Dispatch, notHost, rcVars
    <2>3. QED
      BY <1>4, <2>1, <2>2
  <1>7. QED
    BY <1>1, <1>2, <1>3, <1>5, <1>6 DEF MCNext, OtherSteps

(* A switch that is held cannot restart arming, whatever the debounce times,
   the frames and the order in which link losses, stops, clears and
   maintenance sessions follow one another. *)
THEOREM RearmingNeedsRelease == MCSpec => HeldSwitchNeverRearms
  <1> DEFINE Inv == MCTypeOK /\ HeldInv
             Rearms == engaged /\ state # "ArmingChecks" /\ state' = "ArmingChecks"
                         => released
  <1>1. MCInit => Inv
    <2>1. MCInit => HeldInv
      BY DEF MCInit, LoopInit, Init, HeldInv, EngagedNeedsRelease
    <2>2. QED
      BY <2>1, MCInitType
  <1>2. Inv /\ UNCHANGED MCVars => Inv'
    <2>1. HeldInv /\ UNCHANGED MCVars => HeldInv'
      BY DEF MCVars, history, operator, vars, smVars, rcVars, HeldInv,
             EngagedNeedsRelease
    <2>2. QED
      BY <2>1, MCStutterType
  <1>3. Inv /\ [MCNext]_MCVars => Inv'
    BY <1>2, MCStepType, HeldStep
  <1>4. Inv /\ [MCNext]_MCVars => [Rearms]_MCVars
    BY HeldStep
  <1>5. QED
    BY <1>1, <1>3, <1>4, PTL DEF MCSpec, HeldSwitchNeverRearms
=============================================================================
