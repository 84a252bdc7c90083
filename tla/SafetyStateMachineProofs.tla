---------------------- MODULE SafetyStateMachineProofs ----------------------
(***************************************************************************)
(* For every limit, every period and every set of inputs: the invariants   *)
(* of StateMachine::update and the transition graph it implements.         *)
(* The lemmas are about one Update step, so the modules that embed the     *)
(* machine in a larger step cite them as they are.                         *)
(***************************************************************************)
EXTENDS SafetyStateMachine, TLAPS

(* The inductive invariant: TypeOK is needed by the three others, and each
   of them is inductive relative to it. *)
SafetyInv ==
    TypeOK /\ EngagedNeedsRelease /\ ReasonExplainsState /\ BoundedWaits

(* A clamped age stays in its range. *)
LEMMA AgeType ==
    ASSUME NEW limit \in Nat, NEW age \in 0..limit, NEW dt \in Nat
    PROVE  Age(limit, age, dt) \in 0..limit
  BY DEF Age

(* The three ages of a cycle, whichever branch update() takes. *)
LEMMA AgesType ==
    ASSUME TypeOK, NEW in \in StateInputs, NEW dt \in Nat
    PROVE  /\ Age(ArmingTimeout, arming_age, dt) \in 0..ArmingTimeout
           /\ Age(IdleDisarm, idle_age, dt) \in 0..IdleDisarm
           /\ IdleAge(in, dt) \in 0..IdleDisarm
           /\ Age(BatteryLowDebounce, batt_low_age, dt) \in 0..BatteryLowDebounce
           /\ BattLowAge(in, dt) \in 0..BatteryLowDebounce
  <1>1. /\ Age(ArmingTimeout, arming_age, dt) \in 0..ArmingTimeout
        /\ Age(IdleDisarm, idle_age, dt) \in 0..IdleDisarm
        /\ Age(BatteryLowDebounce, batt_low_age, dt) \in 0..BatteryLowDebounce
    BY AgeType, ParamAssumption DEF TypeOK
  <1>2. 0 \in 0..IdleDisarm /\ 0 \in 0..BatteryLowDebounce /\ 0 \in 0..ArmingTimeout
    BY ParamAssumption
  <1>3. QED
    BY <1>1, <1>2 DEF IdleAge, BattLowAge

(* The targets of the switch are states. *)
LEMMA TargetType ==
    ASSUME NEW in \in StateInputs, NEW dt \in Nat, TypeOK
    PROVE  /\ DisarmedTarget(in) \in Policy!States
           /\ ArmingTarget(in, dt) \in Policy!States
           /\ WalkingTarget(in) \in Policy!States
           /\ BenchTarget(in) \in Policy!States
  BY DEF DisarmedTarget, ArmingTarget, WalkingTarget, BenchTarget,
         Policy!States, TypeOK

(* Every reason update() can assert is one of the E-stop reasons. *)
LEMMA EstopReasonType ==
    ASSUME NEW in \in StateInputs, NEW dt \in Nat
    PROVE  EstopReason(in, dt) \in EstopReasons \cup {"None"}
  BY DEF EstopReason, EstopReasons

(* A step of update() keeps the types. *)
LEMMA UpdateTypeOK ==
    ASSUME TypeOK, NEW in \in StateInputs, NEW dt \in Nat, Update(in, dt)
    PROVE  TypeOK'
  <1>1. /\ Age(ArmingTimeout, arming_age, dt) \in 0..ArmingTimeout
        /\ Age(IdleDisarm, idle_age, dt) \in 0..IdleDisarm
        /\ IdleAge(in, dt) \in 0..IdleDisarm
        /\ Age(BatteryLowDebounce, batt_low_age, dt) \in 0..BatteryLowDebounce
        /\ BattLowAge(in, dt) \in 0..BatteryLowDebounce
    BY AgesType
  <1>2. /\ in.clear_request \in BOOLEAN /\ in.rc_armed \in BOOLEAN
        /\ 0 \in 0..ArmingTimeout
    BY ParamAssumption DEF StateInputs
  <1>3. /\ ClearPending(in) \in BOOLEAN
        /\ ReleaseAfterHeldSwitch(in) \in BOOLEAN
    BY DEF ClearPending, ReleaseAfterHeldSwitch
  <1>4. EstopReason(in, dt) \in Reasons
    BY EstopReasonType DEF Reasons, EstopReasons
  <1>5. {"FaultHard", "Disarmed", "Estop", "ConfigLoad", "FaultSoft"}
           \subseteq Policy!States
        /\ {"None", "DxlHardware", "ArmingTimeout"} \subseteq Reasons
    BY DEF Policy!States, Reasons
  <1> USE <1>1, <1>2, <1>3, <1>4, <1>5
  <1>6. CASE DxlHardFault(in, dt)
    BY <1>6 DEF DxlHardFault, LatchFault, TypeOK
  <1>7. CASE FaultHardLatched(in, dt)
    BY <1>7 DEF FaultHardLatched, TypeOK
  <1>8. CASE EstopAsserted(in, dt)
    BY <1>8 DEF EstopAsserted, LatchFault, DebounceBattery, TypeOK
  <1>9. CASE EstopReleased(in, dt)
    BY <1>9 DEF EstopReleased, NoStop, DebounceBattery, TypeOK
  <1>10. CASE ForcedDisarm(in, dt)
    BY <1>10 DEF ForcedDisarm, NoStop, DebounceBattery, TypeOK
  <1>11. CASE Starting(in, dt)
    BY <1>11 DEF Starting, Proceed, NoStop, DebounceBattery, TypeOK
  <1>12. CASE Resting(in, dt)
    BY <1>12, TargetType DEF Resting, Proceed, NoStop, DebounceBattery, TypeOK
  <1>13. CASE Arming(in, dt)
    BY <1>13, TargetType
       DEF Arming, LatchFault, Proceed, NoStop, DebounceBattery, TypeOK
  <1>14. CASE Engaged(in, dt)
    BY <1>14, TargetType DEF Engaged, Proceed, NoStop, DebounceBattery, TypeOK
  <1>15. CASE SoftFault(in, dt)
    BY <1>15 DEF SoftFault, Proceed, NoStop, DebounceBattery, TypeOK
  <1>16. QED
    BY <1>6, <1>7, <1>8, <1>9, <1>10, <1>11, <1>12, <1>13, <1>14, <1>15
       DEF Update

(* A step of update() keeps the arm switch's release outstanding wherever the
   robot holds torque or has stopped. *)
LEMMA UpdateRelease ==
    ASSUME TypeOK, EngagedNeedsRelease,
           NEW in \in StateInputs, NEW dt \in Nat, Update(in, dt)
    PROVE  EngagedNeedsRelease'
  <1> USE DEF EngagedNeedsRelease, IdleEligible, Policy!idleDisarmEligible,
              Policy!Stopped
  <1>1. CASE DxlHardFault(in, dt)
    BY <1>1 DEF DxlHardFault
  <1>2. CASE FaultHardLatched(in, dt)
    BY <1>2 DEF FaultHardLatched, ReleaseAfterHeldSwitch
  <1>3. CASE EstopAsserted(in, dt)
    BY <1>3 DEF EstopAsserted
  <1>4. CASE EstopReleased(in, dt)
    BY <1>4 DEF EstopReleased
  <1>5. CASE ForcedDisarm(in, dt)
    BY <1>5 DEF ForcedDisarm
  <1>6. CASE Starting(in, dt)
    BY <1>6 DEF Starting
  <1>7. CASE Resting(in, dt)
    BY <1>7 DEF Resting, DisarmedTarget
  <1>8. CASE Arming(in, dt)
    BY <1>8 DEF Arming, ArmingTarget, ReleaseAfterHeldSwitch
  <1>9. CASE Engaged(in, dt)
    BY <1>9 DEF Engaged, BenchTarget, ReleaseAfterHeldSwitch
  <1>10. CASE SoftFault(in, dt)
    BY <1>10 DEF SoftFault, ReleaseAfterHeldSwitch
  <1>11. QED
    BY <1>1, <1>2, <1>3, <1>4, <1>5, <1>6, <1>7, <1>8, <1>9, <1>10 DEF Update

(* A step of update() keeps the reason in line with the state, also when one
   stop overtakes another. *)
LEMMA UpdateReason ==
    ASSUME TypeOK, ReasonExplainsState,
           NEW in \in StateInputs, NEW dt \in Nat, Update(in, dt)
    PROVE  ReasonExplainsState'
  <1> USE DEF ReasonExplainsState, EstopReasons, Policy!Stopped
  <1>1. CASE DxlHardFault(in, dt)
    BY <1>1 DEF DxlHardFault, LatchFault
  <1>2. CASE FaultHardLatched(in, dt)
    BY <1>2 DEF FaultHardLatched
  <1>3. CASE EstopAsserted(in, dt)
    BY <1>3, EstopReasonType DEF EstopAsserted, LatchFault
  <1>4. CASE EstopReleased(in, dt)
    BY <1>4 DEF EstopReleased
  <1>5. CASE ForcedDisarm(in, dt)
    BY <1>5 DEF ForcedDisarm
  <1>6. CASE Starting(in, dt)
    BY <1>6 DEF Starting
  <1>7. CASE Resting(in, dt)
    BY <1>7 DEF Resting, DisarmedTarget
  <1>8. CASE Arming(in, dt)
    BY <1>8 DEF Arming, ArmingTarget, LatchFault
  <1>9. CASE Engaged(in, dt)
    BY <1>9 DEF Engaged, WalkingTarget, BenchTarget, IdleEligible,
                Policy!idleDisarmEligible
  <1>10. CASE SoftFault(in, dt)
    BY <1>10 DEF SoftFault
  <1>11. QED
    BY <1>1, <1>2, <1>3, <1>4, <1>5, <1>6, <1>7, <1>8, <1>9, <1>10 DEF Update

(* A step of update() never lets a wait run past its limit: leaving
   ArmingChecks or the armed states happens in the cycle the limit is met. *)
LEMMA UpdateWaits ==
    ASSUME TypeOK, NEW in \in StateInputs, NEW dt \in Nat, Update(in, dt)
    PROVE  BoundedWaits'
  <1>1. /\ IdleAge(in, dt) \in 0..IdleDisarm
        /\ Age(ArmingTimeout, arming_age, dt) \in 0..ArmingTimeout
    BY AgesType
  <1> USE <1>1, ParamAssumption
      DEF BoundedWaits, IdleEligible, Policy!idleDisarmEligible
  <1>2. CASE DxlHardFault(in, dt)
    BY <1>2 DEF DxlHardFault
  <1>3. CASE FaultHardLatched(in, dt)
    BY <1>3 DEF FaultHardLatched
  <1>4. CASE EstopAsserted(in, dt)
    BY <1>4 DEF EstopAsserted
  <1>5. CASE EstopReleased(in, dt)
    BY <1>5 DEF EstopReleased
  <1>6. CASE ForcedDisarm(in, dt)
    BY <1>6 DEF ForcedDisarm
  <1>7. CASE Starting(in, dt)
    BY <1>7 DEF Starting
  <1>8. CASE Resting(in, dt)
    BY <1>8 DEF Resting, DisarmedTarget
  <1>9. CASE Arming(in, dt)
    <2>1. idle_age' = 0
      BY <1>9 DEF Arming, Proceed, IdleAge
    <2>2. state' = "ArmingChecks" => arming_age' < ArmingTimeout
      BY <1>9 DEF Arming, ArmingTarget
    <2>3. QED
      BY <2>1, <2>2
  <1>10. CASE Engaged(in, dt)
    <2>1. state' # "ArmingChecks"
      BY <1>10 DEF Engaged, WalkingTarget, BenchTarget
    <2>2. state' \in IdleEligible => state \in IdleEligible
      BY <1>10 DEF Engaged, BenchTarget
    <2>3. state \in IdleEligible /\ IdleDisarm # 0 => idle_age' < IdleDisarm
      BY <1>10 DEF Engaged, Proceed, IdleExpired
    <2>4. QED
      BY <2>1, <2>2, <2>3
  <1>11. CASE SoftFault(in, dt)
    BY <1>11 DEF SoftFault
  <1>12. QED
    BY <1>2, <1>3, <1>4, <1>5, <1>6, <1>7, <1>8, <1>9, <1>10, <1>11 DEF Update

(* A step of update() is a step of the transition graph, or none. *)
LEMMA UpdateInGraph ==
    ASSUME TypeOK, NEW in \in StateInputs, NEW dt \in Nat, Update(in, dt)
    PROVE  Policy!PolicyNext \/ state' = state
  <1> USE DEF Policy!PolicyNext, Policy!Progression, Policy!Interruption,
              Policy!idleDisarmEligible, Policy!Stopped
  <1>1. CASE DxlHardFault(in, dt)
    BY <1>1 DEF DxlHardFault
  <1>2. CASE FaultHardLatched(in, dt)
    BY <1>2 DEF FaultHardLatched
  <1>3. CASE EstopAsserted(in, dt)
    BY <1>3 DEF EstopAsserted
  <1>4. CASE EstopReleased(in, dt)
    BY <1>4 DEF EstopReleased
  <1>5. CASE ForcedDisarm(in, dt)
    BY <1>5 DEF ForcedDisarm, IdleExpired, HostDisarms, IdleEligible,
                Operational, Policy!isOperational
  <1>6. CASE Starting(in, dt)
    BY <1>6 DEF Starting
  <1>7. CASE Resting(in, dt)
    BY <1>7 DEF Resting, DisarmedTarget
  <1>8. CASE Arming(in, dt)
    BY <1>8 DEF Arming, ArmingTarget
  <1>9. CASE Engaged(in, dt)
    BY <1>9 DEF Engaged, WalkingTarget, BenchTarget, IdleEligible
  <1>10. CASE SoftFault(in, dt)
    BY <1>10 DEF SoftFault
  <1>11. QED
    BY <1>1, <1>2, <1>3, <1>4, <1>5, <1>6, <1>7, <1>8, <1>9, <1>10 DEF Update

-----------------------------------------------------------------------------
(* The invariant holds initially and across every step. *)

LEMMA InitSafety == Init => SafetyInv
  <1> SUFFICES ASSUME Init PROVE SafetyInv
    OBVIOUS
  <1> USE DEF Init
  <1>1. TypeOK
    <2>1. /\ 0 \in 0..BatteryLowDebounce
          /\ 0 \in 0..ArmingTimeout
          /\ 0 \in 0..IdleDisarm
      BY ParamAssumption
    <2>2. QED
      BY <2>1 DEF TypeOK, Policy!States, Reasons
  <1>2. EngagedNeedsRelease
    BY DEF EngagedNeedsRelease
  <1>3. ReasonExplainsState
    BY DEF ReasonExplainsState, EstopReasons, Policy!Stopped
  <1>4. BoundedWaits
    BY DEF BoundedWaits, IdleEligible, Policy!idleDisarmEligible
  <1>5. QED
    BY <1>1, <1>2, <1>3, <1>4 DEF SafetyInv

LEMMA UpdateSafety ==
    ASSUME SafetyInv, NEW in \in StateInputs, NEW dt \in Nat, Update(in, dt)
    PROVE  SafetyInv'
  BY UpdateTypeOK, UpdateRelease, UpdateReason, UpdateWaits DEF SafetyInv

LEMMA NextSafety == SafetyInv /\ [Next]_smVars => SafetyInv'
  <1> SUFFICES ASSUME SafetyInv, [Next]_smVars
               PROVE  SafetyInv'
    OBVIOUS
  <1>1. CASE Next
    <2>1. PICK in \in Inputs, dt \in 1..MaxPeriod : Update(in, dt)
      BY <1>1 DEF Next
    <2>2. in \in StateInputs /\ dt \in Nat
      BY InputAssumption, ParamAssumption
    <2>3. QED
      BY <2>1, <2>2, UpdateSafety
  <1>2. CASE UNCHANGED smVars
    BY <1>2 DEF smVars, SafetyInv, TypeOK, EngagedNeedsRelease,
                ReasonExplainsState, BoundedWaits
  <1>3. QED
    BY <1>1, <1>2

(* update() keeps its variables in range, whatever the limits and inputs. *)
THEOREM TypeCorrect == Spec => []TypeOK
  <1>1. SafetyInv => TypeOK
    BY DEF SafetyInv
  <1>2. QED
    BY <1>1, InitSafety, NextSafety, PTL DEF Spec

(* No torque-holding or stopped state is ever left with an arm switch that
   still counts as released: re-arming always takes a new low-to-high edge. *)
THEOREM ArmReleaseOutstanding == Spec => []EngagedNeedsRelease
  <1>1. SafetyInv => EngagedNeedsRelease
    BY DEF SafetyInv
  <1>2. QED
    BY <1>1, InitSafety, NextSafety, PTL DEF Spec

(* The published reason and last-fault reason always explain the state. *)
THEOREM ReasonCorrect == Spec => []ReasonExplainsState
  <1>1. SafetyInv => ReasonExplainsState
    BY DEF SafetyInv
  <1>2. QED
    BY <1>1, InitSafety, NextSafety, PTL DEF Spec

(* The arming timeout and the idle auto-disarm are met in the cycle they
   expire, whatever the period of the control task. *)
THEOREM WaitsBounded == Spec => []BoundedWaits
  <1>1. SafetyInv => BoundedWaits
    BY DEF SafetyInv
  <1>2. QED
    BY <1>1, InitSafety, NextSafety, PTL DEF Spec

(* Every step of update() maps to a step of the transition graph that the
   actuation task relies on, or leaves the state byte alone. *)
THEOREM Refinement == Spec => ImplementsPolicy
  <1>1. Init => Policy!PolicyInit
    BY DEF Init, Policy!PolicyInit
  <1>2. SafetyInv /\ [Next]_smVars => [Policy!PolicyNext]_state
    <2> SUFFICES ASSUME SafetyInv, [Next]_smVars
                 PROVE  [Policy!PolicyNext]_state
      OBVIOUS
    <2>1. CASE Next
      <3>1. PICK in \in Inputs, dt \in 1..MaxPeriod : Update(in, dt)
        BY <2>1 DEF Next
      <3>2. in \in StateInputs /\ dt \in Nat
        BY InputAssumption, ParamAssumption
      <3>3. QED
        BY <3>1, <3>2, UpdateInGraph DEF SafetyInv
    <2>2. CASE UNCHANGED smVars
      BY <2>2 DEF smVars
    <2>3. QED
      BY <2>1, <2>2
  <1>3. QED
    BY <1>1, <1>2, InitSafety, NextSafety, PTL
       DEF Spec, ImplementsPolicy, Policy!PolicySpec
=============================================================================
