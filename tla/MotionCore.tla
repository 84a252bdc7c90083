----------------------------- MODULE MotionCore -----------------------------
(***************************************************************************)
(* The motion half of ControllerCore::step (controller_core.cpp): the trick *)
(* player, the command shaper, and the goal pipeline with its ramp from the *)
(* present position.  Safety state, arbiter and kinematics are inputs: a    *)
(* cycle is told whether motion is allowed and who commands, and the        *)
(* trajectory asks for any tick.  One axis of the twist and one joint stand *)
(* for all.                                                                 *)
(***************************************************************************)
EXTENDS Integers, Sequences, FiniteSets, SequencesExt, FiniteSetsExt

CONSTANTS
    MaxTick,      \* kServoMaxTick
    Slew,         \* ticks a ramping goal may move per unit of time
    Accel, Decel, \* the shaper's limits per unit of time
    MaxVel,       \* the largest twist
    MaxDt,        \* the longest step the clock lets through
    Stalls        \* whether the control task can stall longer than that

ASSUME MotionAssumption ==
    {MaxTick, Slew, Accel, Decel, MaxVel, MaxDt} \subseteq Nat \ {0} /\ Stalls \in BOOLEAN

\* The programs of trick_engine.cpp, one of each kind: segment durations,
\* the gait of each segment, and how the program ends.
Programs ==
    [Twirl   |-> [dur |-> <<2, 1, 1>>, gait |-> <<"Tripod", "Tripod", "Tripod">>, loop |-> FALSE, hold |-> FALSE],
     Crouch  |-> [dur |-> <<2>>, gait |-> <<"Stand">>, loop |-> FALSE, hold |-> TRUE],
     Dance   |-> [dur |-> <<1, 2>>, gait |-> <<"Stand", "Stand">>, loop |-> TRUE, hold |-> FALSE]]
Tricks == DOMAIN Programs

\* when each segment of a program begins, and after the last one its end
BeginsStep(p, at, s) == IF s = 1 THEN 0 ELSE at[s - 1] + p.dur[s - 1]
Begins(p) == LET at[s \in 1 .. Len(p.dur) + 1] == BeginsStep(p, at, s) IN at
Duration(id) == Begins(Programs[id])[Len(Programs[id].dur) + 1]

VARIABLES
    prevGate, prevMaint, prevTrick, \* previous_motion_gate_ and its companions
    player,        \* the trick engine: id, active, held, segment, elapsed
    appliedGait,   \* applied_gait_
    pipeGait,      \* the gait the engine in the pipeline walks
    vel,           \* the shaper's current twist
    lastTick, ramping, \* the pipeline's slew state of the joint
    present,       \* where the joint is
    goal,          \* the last goal frame: valid, tick
    cycle,         \* what the last cycle was: branch, source, step, fresh status
    wanted,        \* the gait it asked for
    opened,        \* the pipeline began to run in it
    ran,           \* how long the present trick has been playing
    from           \* where the joint was when the pipeline began to run

motionVars == <<prevGate, prevMaint, prevTrick, player, appliedGait, pipeGait, vel, lastTick, ramping, present,
                goal, cycle, wanted, opened, ran, from>>

RanCap == 9     \* longer than any program
NoTrick == [id |-> "none", active |-> FALSE, held |-> FALSE, seg |-> 1, elapsed |-> 0]

MotionInit ==
    /\ prevGate = FALSE /\ prevMaint = FALSE /\ prevTrick = "none"
    /\ player = NoTrick /\ appliedGait = "unset" /\ pipeGait = "Stand" /\ vel = 0
    /\ lastTick = 0 /\ ramping = FALSE
    /\ present \in 0..MaxTick /\ from = 0
    /\ goal = [valid |-> FALSE, tick |-> 0]
    /\ cycle = [branch |-> "closed", source |-> "None", dt |-> 1, ok |-> TRUE] /\ wanted = "Stand" /\ opened = FALSE
    /\ ran = 0

-----------------------------------------------------------------------------
(* TrickEngine *)

trigger(id) == [id |-> id, active |-> TRUE, held |-> FALSE, seg |-> 1, elapsed |-> 0]

\* Time left over by a segment counts for the next one; a looping program
\* starts over, a holding one freezes, another one is over.  after[e][s] is where
\* e units of time in segment s lead to.
AdvanceStep(p, after, e) ==
    [s \in 1 .. Len(p.dur) |->
        IF e < p.dur[s] THEN [seg |-> s, elapsed |-> e, end |-> "run"]
        ELSE IF s < Len(p.dur) THEN after[e - p.dur[s]][s + 1]
        ELSE IF p.loop THEN after[e - p.dur[s]][1]
        ELSE [seg |-> s, elapsed |-> e - p.dur[s], end |-> IF p.hold THEN "held" ELSE "done"]]
Advances(p, e0) == LET after[e \in 0 .. e0] == AdvanceStep(p, after, e) IN after
Advance(p, s0, e0) == Advances(p, e0)[e0][s0]

\* TrickEngine::update: the sticks take the robot back.
Play(pl, dt, sticks) ==
    IF ~pl.active THEN pl
    ELSE IF sticks THEN NoTrick
    ELSE IF pl.held THEN pl
    ELSE LET a == Advance(Programs[pl.id], pl.seg, pl.elapsed + dt)
         IN  [pl EXCEPT !.seg = a.seg, !.elapsed = IF a.end = "run" THEN a.elapsed ELSE 0,
                        !.held = a.end = "held", !.active = a.end # "done"]

-----------------------------------------------------------------------------
(* BodyCommandShaper *)

Abs(v) == IF v < 0 THEN -v ELSE v
moveToward(v, target, delta) ==
    IF target - v > delta THEN v + delta ELSE IF target - v < -delta THEN v - delta ELSE target
shapeTwist(v, target, dt) ==
    LET accelerating == v = 0 \/ (v * target > 0 /\ Abs(target) > Abs(v))
    IN  moveToward(v, target, (IF accelerating THEN Accel ELSE Decel) * dt)

(* GaitPipeline *)

LimitOf(dt) == Slew * dt
Within(tick, last, limit) == IF tick > last + limit THEN last + limit ELSE IF tick < last - limit THEN last - limit ELSE tick

\* the slew state on the way into the pipeline
SeedFromLastGoal(ok) == IF ok /\ ~prevGate THEN [tick |-> lastTick, ramping |-> TRUE] ELSE [tick |-> lastTick, ramping |-> ramping]
seedGoal(ok) == IF ok /\ ~prevGate THEN [tick |-> present, ramping |-> TRUE] ELSE [tick |-> lastTick, ramping |-> ramping]

\* pipeline_.update: a ramping joint moves at most the limit, until it has
\* once caught up with the trajectory
Emit(seeded, want, dt) ==
    LET tick == IF seeded.ramping THEN Within(want, seeded.tick, LimitOf(dt)) ELSE want
    IN  /\ lastTick' = tick
        /\ ramping' = (seeded.ramping /\ tick # want)
        /\ goal' = [valid |-> TRUE, tick |-> tick]

-----------------------------------------------------------------------------
(* ControllerCore::step from the motion gate on *)

\* between two cycles: a joint with a goal is there or still on its way, one without is
\* wherever it was held or pushed
Moved(g) == IF g.valid THEN {present, g.tick} ELSE 0..MaxTick

\* the first cycle of a maintenance session only clears the old targets
SessionStart ==
    /\ player' = NoTrick /\ ran' = 0 /\ appliedGait' = "unset"
    /\ goal' = [valid |-> FALSE, tick |-> 0]
    /\ UNCHANGED <<prevTrick, pipeGait, vel, lastTick, ramping, wanted>>

\* joint targets of the host go out as they are
JointTargets ==
    /\ \E tick \in 0..MaxTick, set \in BOOLEAN : goal' = [valid |-> set, tick |-> IF set THEN tick ELSE 0]
    /\ player' = NoTrick /\ ran' = 0 /\ appliedGait' = "unset"
    /\ UNCHANGED <<prevTrick, pipeGait, vel, lastTick, ramping, wanted>>

\* the trick engine after this cycle: only the radio starts or keeps a trick
PlayerUnder(source, id, dt, sticks) ==
    IF source # "Rc" THEN NoTrick ELSE Play(IF id # "none" THEN trigger(id) ELSE player, dt, sticks)

\* what drives the body: under RC a trick if one plays, else the sticks;
\* otherwise the host's intent
Drive(source, dt) ==
    \E trick \in {"none"} \cup (IF source = "Rc" THEN Tricks ELSE {}), sticks \in BOOLEAN, g \in {"Wave", "Tripod"} :
        LET started == source = "Rc" /\ trick # "none" /\ prevTrick = "none"
            pl == PlayerUnder(source, IF started THEN trick ELSE "none", dt, sticks)
        IN  /\ player' = IF pl.active THEN pl ELSE NoTrick
            /\ ran' = IF ~pl.active THEN 0 ELSE IF started THEN dt ELSE Min({ran + dt, RanCap})
            /\ prevTrick' = IF source = "Rc" THEN trick ELSE "none"
            /\ vel' = shapeTwist(vel, IF ~pl.active /\ sticks THEN MaxVel ELSE 0, dt)
            /\ wanted' = IF pl.active THEN Programs[pl.id].gait[pl.seg] ELSE g
            /\ pipeGait' = IF wanted' # appliedGait THEN wanted' ELSE pipeGait
            /\ appliedGait' = wanted'

Motion(source, dt, ok) ==
    /\ Drive(source, dt)
    /\ \E want \in 0..MaxTick : Emit(seedGoal(ok), want, dt)

\* a closed gate forgets everything that could move the robot later
ClosedReset == player' = NoTrick /\ prevTrick' = "none" /\ appliedGait' = "unset" /\ ran' = 0 /\ vel' = 0

Closed ==
    /\ ClosedReset
    /\ goal' = [valid |-> FALSE, tick |-> 0]
    /\ UNCHANGED <<pipeGait, lastTick, ramping, wanted>>

\* One cycle.  The host gets hold of the robot only with the gate closed;
\* between radio and Jetson the command changes hands with the gate open.
Step ==
    \E gate \in BOOLEAN, source \in {"Rc", "Jetson", "Mac"}, joints \in BOOLEAN, dt \in 1..MaxDt, ok \in BOOLEAN :
        LET maint == gate /\ source = "Mac"
            branch == IF maint /\ ~prevMaint THEN "start" ELSE IF maint /\ joints THEN "joints"
                      ELSE IF gate THEN "motion" ELSE "closed"
        IN  /\ gate /\ prevGate => (source = "Mac" <=> prevMaint)
            /\ ~maint => ~joints
            /\ (prevGate \/ ~gate) => ok
            /\ CASE branch = "start" -> SessionStart
                 [] branch = "joints" -> JointTargets
                 [] branch = "motion" -> Motion(source, dt, ok)
                 [] OTHER -> Closed
            /\ cycle' = [branch |-> branch, source |-> source, dt |-> dt, ok |-> ok]
            /\ opened' = (branch = "motion" /\ cycle.branch # "motion")
            /\ prevGate' = gate /\ prevMaint' = maint
            /\ from' = IF opened' THEN present ELSE 0
            /\ present' \in Moved(goal')

\* The clock reports an invalid time after a stall: the core publishes a
\* closed gate and no goal, and changes nothing of its own.
Stall ==
    /\ Stalls
    /\ goal' = [valid |-> FALSE, tick |-> 0]
    /\ cycle' = [cycle EXCEPT !.branch = "stalled"] /\ opened' = FALSE
    /\ from' = 0 /\ present' \in Moved(goal')
    /\ UNCHANGED <<prevGate, prevMaint, prevTrick, player, appliedGait, pipeGait, vel, lastTick, ramping, wanted, ran>>

\* a new configuration restarts the shaper and the engine with its own gait
Reconfigured == pipeGait' = "Stand" /\ vel' = 0 /\ appliedGait' = "unset"

NewConfig ==
    /\ appliedGait # "unset"
    /\ Reconfigured /\ opened' = FALSE
    /\ wanted' = "Stand"
    /\ UNCHANGED <<prevGate, prevMaint, prevTrick, player, lastTick, ramping, present, goal, cycle, ran, from>>

MotionNext == Step \/ Stall \/ NewConfig

MotionSpec == MotionInit /\ [][MotionNext]_motionVars

-----------------------------------------------------------------------------
(* Properties *)

\* Only the radio plays tricks: whatever the order of gate, source and
\* configuration changes, a trick is active only while the core's last cycle
\* was an open gate under RC authority.
TrickOnlyUnderRc == player.active => prevGate /\ cycle.source = "Rc"

\* A trick that neither loops nor holds is over when its segments' time is
\* over: no time is lost or gained at the ends of segments, however long the
\* cycles are, and the player never points behind the last segment.
TrickEndsOnTime ==
    player.active =>
        /\ player.seg \in DOMAIN Programs[player.id].dur
        /\ (~player.held /\ ~Programs[player.id].loop) => ran < Duration(player.id)
        /\ player.held => ran >= Duration(player.id)

\* When the gate opens for the radio or the Jetson the shaped twist starts
\* from rest, whatever it was when the gate closed.
MovesFromRest ==
    [][(opened' /\ ~prevGate /\ cycle.branch = "closed") => Abs(vel') <= Accel * cycle'.dt]_motionVars

\* The gait the engine walks is the one asked for, also after a configuration
\* change replaced it behind the core's back.
PipelineGaitIsCurrent == cycle.branch = "motion" => pipeGait = wanted

Ramps == Abs(goal.tick - from) <= LimitOf(cycle.dt)

\* When the core sees the gate open for the radio or the Jetson, the first
\* goal of a joint whose status was read is within one step of where the
\* joint is, wherever it was moved while it was limp.
OperatorGoalsRamp == [][(opened' /\ cycle.branch = "closed" /\ cycle'.ok) => Ramps']_motionVars

(***************************************************************************)
(* Authority comes and goes without a jump: the goals ramp from where the  *)
(* joints are, a reopened gate starts from rest, tricks play under the     *)
(* radio only and end, and the engine walks the gait last asked for.       *)
(***************************************************************************)
MotionIsSmooth ==
    /\ OperatorGoalsRamp /\ MovesFromRest
    /\ [](TrickOnlyUnderRc /\ TrickEndsOnTime /\ PipelineGaitIsCurrent)
=============================================================================
