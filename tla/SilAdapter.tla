----------------------------- MODULE SilAdapter -----------------------------
(***************************************************************************)
(* The controller core as a ROS 2 lifecycle node for simulation             *)
(* (robot_ros_simulation/hexapod_controller_ros): a single-threaded         *)
(* executor runs the subscription callbacks, the lifecycle transitions and  *)
(* the cycle timer one at a time. The adapter keeps the last joint          *)
(* feedback, motion command, safety input and foot contacts, turns them     *)
(* into one input of the core per cycle and publishes the core's command.   *)
(*                                                                         *)
(* Time is in cycle periods. A stamp is kept as its age, which saturates    *)
(* one past the longest limit it is compared with.                          *)
(***************************************************************************)
EXTENDS Integers, Sequences, FiniteSets

CONSTANTS
    SilFeet,           \* the feet; 0 is an index out of range
    SilJoints,         \* the joints; 0 is an unknown name
    FeedbackTimeout, ContactTimeout,
    GapLimit,          \* 1000 ms in periods
    MaxValidity,       \* kMaximumMotionValidityMs in periods
    ContactMessages,   \* foot-contact messages: [validity, mask, feet]
    JointMessages,     \* joint-state messages: the joints named, in order
    Validities         \* valid_for of motion commands, 0 not positive

ASSUME SilAssumption ==
    /\ FeedbackTimeout \in Nat /\ ContactTimeout \in Nat
    /\ GapLimit \in Nat \ {0} /\ MaxValidity \in Nat
    /\ Validities \subseteq Nat

VARIABLES
    life,        \* lifecycle state of the node
    timer,       \* the cycle timer exists and runs: "none", "cancelled", "running"
    fbAge,       \* age of the feedback, -1 before the first
    motionLeft,  \* periods until motion_expires_, -1 when expired or none
    motionAge,   \* age of the accepted motion command (for the properties)
    contactAge,  \* age of the contact mailbox, -1 before the first
    contact,     \* the snapshot in the mailbox: [validity, feet]
    saying,      \* the message the snapshot was made from (for the properties)
    safety,      \* SilSafetyState: [armed, stop]
    gap,         \* time since last_sample_ms_
    sampledOnce, \* sampled_once_
    given,       \* the last input of the core: [contact, heartbeat, dt]
    sent         \* the last cycle sent goals to the simulation

silVars == <<life, timer, fbAge, motionLeft, motionAge, contactAge, contact,
             saying, safety, gap, sampledOnce, given, sent>>

mailboxVars == <<fbAge, motionLeft, motionAge, contactAge, contact, saying, safety>>
nodeVars == <<life, timer>>
cycleVars == <<gap, sampledOnce, given, sent>>

Unavailable(validity) == IF validity = "fault" THEN "fault" ELSE "stale"
NoContact(validity) == [validity |-> validity, feet |-> [f \in SilFeet |-> Unavailable(validity)]]

SilInit ==
    /\ life = "unconfigured" /\ timer = "none"
    /\ fbAge = -1 /\ motionLeft = -1 /\ motionAge = 0
    /\ contactAge = -1 /\ contact = NoContact("unknown") /\ saying = <<>>
    /\ safety = [armed |-> FALSE, stop |-> TRUE]
    /\ gap = 0 /\ sampledOnce = FALSE
    /\ given = [contact |-> NoContact("unknown"), heartbeat |-> FALSE, dt |-> 0]
    /\ sent = FALSE

----------------------------------------------------------------------------
\* Subscription callbacks

Complete(legs, all) ==
    /\ \A i \in DOMAIN legs : legs[i] \in all
    /\ \A i, j \in DOMAIN legs : i # j => legs[i] # legs[j]
    /\ \A x \in all : \E i \in DOMAIN legs : legs[i] = x

acceptJointState(names) ==
    /\ fbAge' = IF Complete(names, SilJoints) THEN 0 ELSE fbAge
    /\ UNCHANGED <<motionLeft, motionAge, contactAge, contact, saying, safety>>
    /\ UNCHANGED <<nodeVars, cycleVars>>

BoundedValidity(v) == IF v < MaxValidity THEN v ELSE MaxValidity

\* convertMotionCommand rejects an unknown gait, a value that is not finite
\* and a validity that is not positive (v = 0)
acceptMotionCommand(v) ==
    /\ v > 0
    /\ motionLeft' = BoundedValidity(v)
    /\ motionAge' = 0
    /\ UNCHANGED <<fbAge, contactAge, contact, saying, safety, nodeVars, cycleVars>>

acceptSafetyInput(armed, stop) ==
    /\ safety' = [armed |-> armed, stop |-> stop]
    /\ UNCHANGED <<fbAge, motionLeft, motionAge, contactAge, contact, saying, nodeVars, cycleVars>>

StateOf(m, f) == (CHOOSE i \in DOMAIN m.feet : m.feet[i].leg = f)

\* Plausible bug: only the presence mask withdraws a foot
ConvertIgnoresValidity(m) ==
    [validity |-> m.validity,
     feet |-> [f \in SilFeet |-> IF f \in m.mask THEN m.feet[StateOf(m, f)].state ELSE "stale"]]

\* convertFootContacts of a well-formed message
convertFootContacts(m) ==
    IF m.validity # "fresh" THEN NoContact(m.validity)
    ELSE [validity |-> "fresh",
          feet |-> [f \in SilFeet |-> IF f \in m.mask THEN m.feet[StateOf(m, f)].state ELSE "stale"]]

WellFormed(m) ==
    /\ m.validity \in {"unknown", "fresh", "stale", "fault"}
    /\ m.mask \subseteq SilFeet
    /\ Complete([i \in DOMAIN m.feet |-> m.feet[i].leg], SilFeet)

acceptFootContacts(m) ==
    /\ IF WellFormed(m)
       THEN contact' = convertFootContacts(m) /\ saying' = m /\ contactAge' = 0
       ELSE UNCHANGED <<contact, saying, contactAge>>
    /\ UNCHANGED <<fbAge, motionLeft, motionAge, safety, nodeVars, cycleVars>>

----------------------------------------------------------------------------
\* Lifecycle transitions (controller_core_node.cpp)

\* a failed transition leaves the node unconfigured; the core's own state,
\* which configure and cleanup reset, is not part of this module
on_configure(ok) ==
    /\ life = "unconfigured"
    /\ IF ok THEN life' = "inactive" /\ timer' = "cancelled"
       ELSE UNCHANGED nodeVars
    /\ UNCHANGED <<mailboxVars, cycleVars>>

on_activate ==
    /\ life = "inactive" /\ timer # "none"
    /\ life' = "active" /\ timer' = "running"
    /\ UNCHANGED <<mailboxVars, cycleVars>>

on_deactivate ==
    /\ life = "active"
    /\ life' = "inactive" /\ timer' = "cancelled"
    /\ UNCHANGED <<mailboxVars, cycleVars>>

\* on_shutdown does the same, and the node ends
on_cleanup ==
    /\ life = "inactive"
    /\ life' = "unconfigured" /\ timer' = "none"
    /\ UNCHANGED <<mailboxVars, cycleVars>>

----------------------------------------------------------------------------
\* One cycle: stepOnce

SilFresh == fbAge # -1 /\ fbAge <= FeedbackTimeout

SilStalled == sampledOnce /\ gap > GapLimit

\* the contacts given to the core
ContactInput ==
    IF contactAge = -1 THEN NoContact("unknown")
    ELSE IF contactAge > ContactTimeout THEN NoContact("stale")
    ELSE contact

\* motion_valid_ && now <= motion_expires_
Heartbeat == motionLeft >= 0

SampleStep == IF sampledOnce THEN (IF gap > 1 THEN gap ELSE 1) ELSE 1

\* sampled_once_ after a sample that found the gap too long
SampledAfterGap == FALSE

\* sample() finds the feedback too old, or the last sample too long ago
SampleFails ==
    /\ timer = "running"
    /\ ~SilFresh \/ SilStalled
    /\ sampledOnce' = IF SilFresh THEN SampledAfterGap ELSE sampledOnce
    /\ sent' = FALSE
    /\ UNCHANGED <<gap, given, mailboxVars, nodeVars>>

\* publish(): goals are sent to the simulation, and move the odometry, only
\* when the gate is open and they name every joint once
Published(gate, goals) == gate /\ Complete(goals, SilJoints)

\* sample(), the core's step (its gate is open only when armed and not
\* stopped) and publish()
SampleAndStep(gate, goals) ==
    /\ timer = "running"
    /\ SilFresh /\ ~SilStalled
    /\ gate => safety.armed /\ ~safety.stop
    /\ sampledOnce' = TRUE
    /\ gap' = 0
    /\ given' = [contact |-> ContactInput, heartbeat |-> Heartbeat, dt |-> SampleStep]
    /\ sent' = Published(gate, goals)
    /\ UNCHANGED <<mailboxVars, life, timer>>

----------------------------------------------------------------------------
Older(age, limit) == IF age = -1 THEN -1 ELSE IF age > limit THEN age ELSE age + 1

Period ==
    /\ fbAge' = Older(fbAge, FeedbackTimeout)
    /\ contactAge' = Older(contactAge, ContactTimeout)
    /\ motionLeft' = IF motionLeft = -1 THEN -1 ELSE motionLeft - 1
    /\ motionAge' = IF motionAge > MaxValidity THEN motionAge ELSE motionAge + 1
    /\ gap' = IF gap > GapLimit THEN gap ELSE gap + 1
    /\ UNCHANGED <<contact, saying, safety, nodeVars, sampledOnce, given, sent>>

Cycle ==
    \/ SampleFails
    \/ \E gate \in BOOLEAN, goals \in {<<>>} \cup JointMessages : SampleAndStep(gate, goals)

SilNext ==
    \/ \E names \in JointMessages : acceptJointState(names)
    \/ \E v \in Validities : acceptMotionCommand(v)
    \/ \E armed, stop \in BOOLEAN : acceptSafetyInput(armed, stop)
    \/ \E m \in ContactMessages : acceptFootContacts(m)
    \/ \E ok \in BOOLEAN : on_configure(ok)
    \/ on_activate \/ on_deactivate \/ on_cleanup
    \/ Cycle
    \/ Period

SilSpec == SilInit /\ [][SilNext]_silVars

Claims(f, c) == c.feet[f] = "touch"

(***************************************************************************)
(* Contact is never reported to the core on old or partial evidence: a foot *)
(* given as touching was said to touch, and to be present, by a fresh       *)
(* message no older than the time limit (convertFootContacts, sample).      *)
(***************************************************************************)
ContactFailsClosed ==
    [][given' # given =>
          \A f \in SilFeet : Claims(f, given'.contact) =>
              /\ contactAge \in 0..ContactTimeout
              /\ saying.validity = "fresh" /\ f \in saying.mask
              /\ \E i \in DOMAIN saying.feet : saying.feet[i].leg = f /\ saying.feet[i].state = "touch"]_silVars

(***************************************************************************)
(* A silent commander stops commanding: the core is told of a heartbeat     *)
(* only within the longest validity of the last accepted command, whatever  *)
(* validity that command asked for.                                         *)
(***************************************************************************)
CommandsExpire ==
    [][given' # given /\ given'.heartbeat => motionAge <= MaxValidity]_silVars

(***************************************************************************)
(* The core is never stepped over a stall: the time it is told to integrate *)
(* is the time since its last step, at most the limit, or one nominal       *)
(* period where sampling restarts.                                          *)
(***************************************************************************)
StallsAreNotIntegrated == given.dt <= GapLimit

(***************************************************************************)
(* Sampling recovers: while the node stays active with fresh feedback the   *)
(* core is stepped again, also after a stall longer than the limit.         *)
(***************************************************************************)
SamplingResumes ==
    []<>(timer # "running" \/ ~SilFresh \/ gap = 0)

(***************************************************************************)
(* The simulation adapter fails closed as the robot does: contact needs a   *)
(* fresh claim, a command expires, and a stalled cycle is not integrated    *)
(* (sample of ros2_control_sil_adapter.cpp).                                *)
(***************************************************************************)
SilFailsClosed ==
    /\ ContactFailsClosed /\ CommandsExpire
    /\ []StallsAreNotIntegrated
=============================================================================
