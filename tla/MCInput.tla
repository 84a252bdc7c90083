------------------------------- MODULE MCInput -------------------------------
(***************************************************************************)
(* From the radio to the joints, for TLC: the parts share no variable, and a *)
(* behaviour exercises one of them, chosen at the start.                     *)
(***************************************************************************)
EXTENDS ChannelPack, RcBridge, CrsfLink, RcAnalog, GaitEngine, MotionCore, GaitSave

CONSTANT Parts   \* the parts a run is about

VARIABLE part

MCSticks == {-1000, -999, -998, -997, -500, -1, 0, 1, 500, 999, 1000}
MCTwists == -1..1
MCHands ==
    {{"SwA", "SwB"}, {"Btn1", "Btn2"}, {"SwG", "Nav1Up"}, {"SwG", "Nav1Right"}, {"SwF"}, {"Nav1Down", "Btn4"},
     {"Btn3", "Nav1Up"}}

MCStick == [type |-> "centred", min |-> -4, centre |-> 0, max |-> 4, reversed |-> FALSE, deadband |-> 0, expo |-> 0]
MCPot == [MCStick EXCEPT !.type = "unipolar", !.min = 0]
MCCals ==
    {[MCStick EXCEPT !.centre = c, !.reversed = r, !.deadband = d, !.expo = e] :
        c \in {-4, -1, 0}, r \in BOOLEAN, d \in {0, 4}, e \in {0, 3, 8}}
      \union {[MCPot EXCEPT !.max = m, !.reversed = r] : m \in {0, 3, 4}, r \in BOOLEAN}
MCRaws == -6 .. 6
MCPlain == [invert |-> FALSE, deadband |-> 0]
MCAxisBindings == [invert : BOOLEAN, deadband : {0, 2}]

inputVars == <<part, packVars, rcVars, crsfVars, condVars, axisVars, gaitVars, motionVars, saveVars>>

\* a part that is not exercised starts in one of its initial states only
InputInit ==
    /\ part \in Parts
    /\ PackInit /\ BridgeInit /\ CrsfInit /\ CondInit /\ AxisInit /\ GaitInit /\ MotionInit /\ SaveInit
    /\ part # "pack" => layout = "custom"
    /\ part # "bridge" => hand = {"SwF"}
    /\ part # "filter" => type = "centred" /\ tau
    /\ part # "axes" => cal = MCStick /\ control = "stick" /\ bind = MCPlain
    /\ part # "gait" => stride = 0
    /\ part # "motion" => present = 0

InputNext ==
    \/ /\ part = "pack" /\ PackNext
       /\ UNCHANGED <<part, rcVars, crsfVars, condVars, axisVars, gaitVars, motionVars, saveVars>>
    \/ /\ part = "bridge" /\ BridgeNext
       /\ UNCHANGED <<part, packVars, crsfVars, condVars, axisVars, gaitVars, motionVars, saveVars>>
    \/ /\ part = "uplink" /\ Receive
       /\ UNCHANGED <<part, packVars, rcVars, condVars, axisVars, gaitVars, motionVars, saveVars>>
    \/ /\ part = "downlink" /\ Downlink
       /\ UNCHANGED <<part, packVars, rcVars, condVars, axisVars, gaitVars, motionVars, saveVars>>
    \/ /\ part = "filter" /\ CondNext
       /\ UNCHANGED <<part, packVars, rcVars, crsfVars, axisVars, gaitVars, motionVars, saveVars>>
    \/ /\ part = "axes" /\ AxisNext
       /\ UNCHANGED <<part, packVars, rcVars, crsfVars, condVars, gaitVars, motionVars, saveVars>>
    \/ /\ part = "gait" /\ GaitNext
       /\ UNCHANGED <<part, packVars, rcVars, crsfVars, condVars, axisVars, motionVars, saveVars>>
    \/ /\ part = "motion" /\ MotionNext
       /\ UNCHANGED <<part, packVars, rcVars, crsfVars, condVars, axisVars, gaitVars, saveVars>>
    \/ /\ part = "save" /\ SaveNext
       /\ UNCHANGED <<part, packVars, rcVars, crsfVars, condVars, axisVars, gaitVars, motionVars>>

InputSpec == InputInit /\ [][InputNext]_inputVars

(***************************************************************************)
(* What the operator holds is what the robot decodes: every switch and     *)
(* button through the packed or the direct layout, and every axis in order *)
(* and at its ends through filter, calibration and binding.                *)
(***************************************************************************)
ControlsArriveAsHeld ==
    /\ [](HandsetControlsSurvive /\ DirectControlsSurvive /\ LayoutIsRecognised)
    /\ [](AxisFollowsControl /\ RestCommandsNothing /\ FullTravelIsReached /\ OutputInHull)
    /\ SpikeIsRejected
=============================================================================
