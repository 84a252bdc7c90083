---------------------------- MODULE SafetyPolicy ----------------------------
(***************************************************************************)
(* What the firmware's safety state machine promises to every other task,  *)
(* stated on the published state byte alone: which state may follow which. *)
(* SafetyStateMachine implements this graph; the actuation task (which     *)
(* only ever samples the state byte) is composed with the graph itself.    *)
(***************************************************************************)

(* safety::State, safety/system_state.h *)
States ==
    {"Boot", "ConfigLoad", "Disarmed", "ArmingChecks", "StandReady",
     "RcManual", "ContactTerrain", "JetsonAssisted", "MacMaintenance",
     "PassivePoseStream", "FaultSoft", "FaultHard", "Estop"}

(* The armed, torque-holding, operator-driven states. *)
idleDisarmEligible ==
    {"StandReady", "RcManual", "ContactTerrain", "JetsonAssisted"}

isOperational == idleDisarmEligible \cup {"ArmingChecks"}

stateAllowsMotion ==
    {"RcManual", "ContactTerrain", "JetsonAssisted", "MacMaintenance"}

stateAllowsTorque == stateAllowsMotion \cup {"StandReady"}

stateAllowsDxlPower ==
    stateAllowsTorque \cup {"ArmingChecks", "PassivePoseStream"}

Stopped == {"FaultSoft", "FaultHard", "Estop"}

VARIABLE state

PolicyInit == state = "Boot"

(* Normal progression.  Walking is reached only through ArmingChecks; every
   stop is left only through Disarmed. *)
Progression ==
    \/ state = "Boot" /\ state' = "ConfigLoad"
    \/ state = "ConfigLoad" /\ state' = "Disarmed"
    \/ /\ state = "Disarmed"
       /\ state' \in {"ArmingChecks", "MacMaintenance", "PassivePoseStream"}
    \/ state = "ArmingChecks" /\ state' \in {"Disarmed", "StandReady", "FaultSoft"}
    \/ /\ state \in {"StandReady", "RcManual", "ContactTerrain"}
       /\ state' \in (idleDisarmEligible \cup {"Disarmed"}) \ {state}
    \/ state = "JetsonAssisted" /\ state' \in {"Disarmed", "StandReady"}
    \/ state = "MacMaintenance" /\ state' \in {"Disarmed", "PassivePoseStream"}
    \/ state = "PassivePoseStream" /\ state' = "Disarmed"
    \/ state \in Stopped /\ state' = "Disarmed"

(* A hard fault interrupts every state; an E-stop every state except a hard
   fault, which stays latched until the operator clears it. *)
Interruption ==
    state # "FaultHard" /\ state' \in {"Estop", "FaultHard"} \ {state}

PolicyNext == Progression \/ Interruption

PolicySpec == PolicyInit /\ [][PolicyNext]_state
=============================================================================
