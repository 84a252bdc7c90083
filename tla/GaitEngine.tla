----------------------------- MODULE GaitEngine -----------------------------
(***************************************************************************)
(* gait/gait_engine.cpp: where the six feet are asked to be.  Lengths are   *)
(* whole millimetres.  The phase counts half keyframes, so that feet are    *)
(* also looked at midway between two of them; a longitudinal coefficient is *)
(* in units of 1/Unit of the stride.  The rotation of a foot about the body *)
(* is taken to first order: the angle stays below a sixth of a radian.      *)
(***************************************************************************)
EXTENDS Integers, Sequences, FiniteSets

CONSTANTS
    Strides,      \* stride targets, at most kMaxStrideMm
    Twists        \* the values of one component of a full-scale twist

ASSUME GaitAssumption == Strides \subseteq 0..80 /\ Twists \subseteq -1..1

Legs == 1..6
\* kHomeFootXy
Home == << <<-155, -205>>, <<155, -205>>, <<196, 0>>, <<155, 205>>, <<-155, 205>>, <<-196, 0>> >>
Radius == 257    \* kMaxLegRadiusMm
Unit == 80       \* a half keyframe of every gait is a whole number of these

VARIABLES
    gait,     \* gait_
    phase,    \* gait_step_phase_, in half keyframes
    twist,    \* twist_
    stride,   \* stride_mm_, which follows its target
    feet      \* the last output: longitudinal coefficient and whether it swings

gaitVars == <<gait, phase, twist, stride, feet>>

Still == [vx |-> 0, vy |-> 0, wz |-> 0]
HomeFeet == [leg \in Legs |-> [along |-> 0, swing |-> FALSE]]

GaitInit ==
    /\ gait = "Stand" /\ phase = 0 /\ twist = Still /\ stride \in Strides
    /\ feet = HomeFeet

\* kTripod, kRipple, kWave; everything else walks the wave
gaitDefinition(g) ==
    CASE g = "Tripod" -> [steps |-> 8, travel |-> 4, origin |-> <<5, 1, 5, 1, 5, 1>>]
      [] g = "Ripple" -> [steps |-> 12, travel |-> 8, origin |-> <<1, 7, 11, 3, 9, 5>>]
      [] OTHER -> [steps |-> 24, travel |-> 20, origin |-> <<1, 13, 17, 21, 9, 5>>]

KeyframeLate(d, leg, step) ==
    LET relative == (step + d.steps - d.origin[leg]) % d.steps
    IN  CASE relative = 0 -> [along |-> 0, lift |-> 2]
          [] relative = 1 -> [along |-> Unit \div 2, lift |-> 1]
          [] relative = 2 -> [along |-> Unit \div 2, lift |-> 0]
          [] relative = d.steps - 1 -> [along |-> -(Unit \div 2), lift |-> 1]
          [] OTHER -> [along |-> Unit \div 2 - ((relative - 3) * Unit) \div d.travel, lift |-> 0]
\* A leg's swing is the keyframes around its origin; between swings its foot
\* goes back along the ground in equal parts.
keyframe(d, leg, step) ==
    LET relative == (step + d.steps - d.origin[leg]) % d.steps
    IN  CASE relative = 0 -> [along |-> 0, lift |-> 2]
          [] relative = 1 -> [along |-> Unit \div 2, lift |-> 1]
          [] relative = 2 -> [along |-> Unit \div 2, lift |-> 0]
          [] relative = d.steps - 1 -> [along |-> -(Unit \div 2), lift |-> 1]
          [] OTHER -> [along |-> Unit \div 2 - ((relative - 2) * Unit) \div d.travel, lift |-> 0]

\* the interpolated coefficient and lift of a leg, both in half units
At(d, leg, p) ==
    LET step == p \div 2 + 1
        now == keyframe(d, leg, step)
        next == keyframe(d, leg, IF step = d.steps THEN 1 ELSE step + 1)
    IN  IF p % 2 = 0 THEN [along |-> 2 * now.along, lift |-> 2 * now.lift]
        ELSE [along |-> now.along + next.along, lift |-> now.lift + next.lift]

\* footAt: where that puts the foot, relative to the body
FootXY(leg, along) ==
    LET x == Home[leg][1]
        y == Home[leg][2]
        reach(v) == (v * stride * along) \div (2 * Unit)
        turn(r) == (twist.wz * r * stride * along) \div (2 * Unit * Radius)
    IN  <<x - turn(y) + reach(twist.vx), y + turn(x) + reach(twist.vy)>>

-----------------------------------------------------------------------------
\* configure and setParams keep the gait; the targets are followed by the filter
SetParams == stride' \in Strides \ {stride} /\ UNCHANGED <<gait, phase, twist, feet>>
SetGait == gait' \in {"Stand", "Tripod", "Ripple", "Wave"} \ {gait} /\ UNCHANGED <<phase, twist, stride, feet>>
SetTwist ==
    /\ twist' \in [vx : Twists, vy : Twists, wz : Twists] /\ twist' # twist
    /\ UNCHANGED <<gait, phase, stride, feet>>
ResetPhase == phase # 0 /\ phase' = 0 /\ UNCHANGED <<gait, twist, stride, feet>>

\* the phase of another gait may be several cycles of this one
Wrap(p, steps) == p % (2 * steps)

GaitUpdate ==
    \/ /\ gait = "Stand" \/ twist = Still
       /\ feet' = HomeFeet
       /\ UNCHANGED <<gait, phase, twist, stride>>
    \/ /\ gait # "Stand" /\ twist # Still
       /\ \E dt \in 1..2 :
            LET d == gaitDefinition(gait)
            IN  /\ phase' = Wrap(phase + dt, d.steps)
                /\ feet' = [leg \in Legs |-> LET f == At(d, leg, phase')
                                             IN  [along |-> f.along, swing |-> f.lift > 0]]
       /\ UNCHANGED <<gait, twist, stride>>

GaitNext == SetParams \/ SetGait \/ SetTwist \/ ResetPhase \/ GaitUpdate

-----------------------------------------------------------------------------
(* Properties *)

Cross(a, b) == a[1] * b[2] - a[2] * b[1]
Around(a, b, c) ==
    LET s == <<Cross(a, b), Cross(b, c), Cross(c, a)>>
    IN  (\A i \in 1..3 : s[i] >= 0) \/ (\A i \in 1..3 : s[i] <= 0)

\* The robot does not tip over: in every gait, at every phase and for every
\* full-scale twist and stride, the body's centre is above the polygon of the
\* feet that are asked to stay on the ground.
CentreIsSupported ==
    LET at == [leg \in Legs |-> FootXY(leg, feet[leg].along)]
        ground == {leg \in Legs : ~feet[leg].swing}
    IN  \E a, b, c \in ground : a < b /\ b < c /\ Around(at[a], at[b], at[c])

\* Feet on the ground do not scrub: while gait, twist and stride stay the
\* same, all feet that stay on the ground move back by the same amount.
GroundedFeetMoveTogether ==
    [][(feet' # feet /\ feet # HomeFeet /\ gait' = gait /\ twist # Still /\ phase' # phase
           /\ \A leg \in Legs : feet[leg].along = At(gaitDefinition(gait), leg, phase).along
           /\ phase < 2 * gaitDefinition(gait).steps)
        => \A a, b \in Legs :
              (~feet[a].swing /\ ~feet'[a].swing /\ ~feet[b].swing /\ ~feet'[b].swing)
                => feet[a].along - feet'[a].along = feet[b].along - feet'[b].along]_gaitVars

\* The keyframe an output comes from is one of its gait's, also just after a
\* change from a longer gait.
PhaseInCycle ==
    [][feet' # HomeFeet /\ feet' # feet => phase' < 2 * gaitDefinition(gait').steps]_gaitVars

(***************************************************************************)
(* The feet on the ground carry the body: they move as one, the phase stays *)
(* in its cycle at any period, and the centre lies within the ground       *)
(* contacts of every gait.                                                 *)
(***************************************************************************)
StanceIsRigid == []CentreIsSupported /\ GroundedFeetMoveTogether /\ PhaseInCycle
=============================================================================
