------------------------------ MODULE RcBridge ------------------------------
(***************************************************************************)
(* input/controller_bridge.cpp and the rcTask pass that drives it: from     *)
(* decoded controls to the operator's command.  A frame is the set of       *)
(* controls that are high in it, the position of the mode switch and the    *)
(* layout it looks like (module ChannelPack decodes it, module              *)
(* RcAnalog filters its sticks).                                            *)
(*                                                                          *)
(* Times are kept as ages, saturated where no comparison tells larger ones  *)
(* apart.  All the frames of one pass carry the time at which it started.   *)
(***************************************************************************)
EXTENDS Integers, Sequences, FiniteSets, FiniteSetsExt

CONSTANTS
    Refractory, Repeat,    \* kEdgeRefractoryMs, kTrickRepeatMs
    CaptureHold,           \* kCaptureStartHoldMs
    ArmRelease,            \* kArmReleaseDebounceMs
    Failsafe,              \* kDefaultFailsafeMs
    ModeDebounce,          \* kModeSwitchDebounceMs
    DetectFrames,          \* kProfileDetectFrames
    MaxFrac, MaxTrim,      \* full scale of a tuned value and of a trim, in steps
    MaxPeriod,             \* the longest time between two passes
    MaxPerPass,            \* frames one pass can find in the receive buffer
    CounterMod,                \* sequence counters are compared for equality only
    Revisions,             \* configuration revisions
    Hands                  \* the sets of controls one operator may be using

ASSUME BridgeAssumption ==
    /\ {Refractory, Repeat, CaptureHold, ArmRelease, Failsafe, MaxPeriod} \subseteq Nat \ {0}
    /\ Refractory <= Repeat /\ ModeDebounce \in Nat \ {0} /\ DetectFrames \in Nat \ {0}
    /\ {MaxFrac, MaxTrim} \subseteq Nat /\ CounterMod \in Nat \ {0}

\* the default bindings: trick slots in order, and the double use of NAV1
Trick == <<"Btn1", "Btn2", "Btn3">>
TrimOf == [up |-> "Nav1Up", down |-> "Nav1Down", reset |-> "Nav1Center"]
TuneOf == [next |-> "Nav1Up", prev |-> "Nav1Down", more |-> "Nav1Right", less |-> "Nav1Left", save |-> "Nav1Center"]
TrimSlots == DOMAIN TrimOf
TuneSlots == DOMAIN TuneOf
Slots == TrimSlots \cup TuneSlots \cup {"capture", "tune"}

VARIABLES
    hand,       \* the controls this operator uses
    tuneBy,     \* the control bound to the editor: SwG is followed, others toggle
    cmd,        \* the command: cmd_
    edge,       \* edge_prev_ and the age of edge_last_ms_ of every slot but the tricks'
    trickEdge,  \* and of the trick slots
    profile,    \* detected_profile_, profile_locked_ and the two streaks
    release,    \* arm_release_pending_ and the age of arm_release_since_ms_
    chord,      \* capture_start_hold_*: active, fired, age
    modeSw,     \* the mode switch's debouncer
    frac,       \* gait_tune_frac_ of step height, stride and duty
    quiet,      \* age of the last frame, cmd_.frame_ms
    frames,     \* frames decoded in this pass
    mailbox,    \* what the snapshot controlTask reads says of the arm switch
    stored,     \* the committed gait shape and its revision
    seeded      \* applied_gait_tune_revision

\* what the operator did, for the properties
VARIABLES
    armHigh,    \* age of the last frame with the arm switch up and the kill switch down
    sinceFired, \* for each trick: its last firing's age, and whether its button was up since
    chordAge,   \* how long the chord has been in every frame, -1 when it is not
    starts,     \* captures started in this hold of the chord
    navEffects, \* values moved by the present press of NAV1 up
    settled,    \* the mode switch's position and for how long it has been in every frame
    runs        \* the longest run of frames that looked alike, per layout, and the current one

bridgeVars == <<hand, tuneBy, cmd, edge, trickEdge, profile, release, chord, modeSw, frac, quiet, frames, mailbox, stored, seeded>>
rcHistory == <<armHigh, sinceFired, chordAge, starts, navEffects, settled, runs>>
rcVars == <<bridgeVars, rcHistory>>

\* where the ages saturate: no comparison tells larger ones apart
ArmBound == ArmRelease + 2 * (Failsafe + MaxPeriod)
Older(age, dt, cap) == IF age < 0 THEN age ELSE IF age + dt > cap THEN cap ELSE age + dt

NoCommand ==
    [valid |-> FALSE, failsafe |-> TRUE, seen |-> FALSE, arm |-> FALSE, estop |-> TRUE, mode |-> 0, trick |-> "none",
     trim |-> 0, tuning |-> FALSE, param |-> 1, saveSeq |-> 0, toggleSeq |-> 0, startSeq |-> 0]

BridgeInit ==
    /\ hand \in Hands
    /\ tuneBy \in ({"SwG", "Btn3"} \cap hand) \cup {"SwG"}
    /\ cmd = NoCommand
    /\ edge = [s \in Slots |-> [prev |-> FALSE, age |-> Refractory]]
    /\ trickEdge = [i \in 1..3 |-> [prev |-> FALSE, age |-> Repeat]]
    /\ profile = [kind |-> "unknown", locked |-> FALSE, custom |-> 0, direct |-> 0]
    /\ release = [pending |-> FALSE, age |-> 0]
    /\ chord = [active |-> FALSE, fired |-> FALSE, age |-> 0]
    /\ modeSw = [known |-> FALSE, stable |-> 1, candidate |-> 1, age |-> 0]
    /\ frac = <<1, 1, 1>>
    /\ quiet = 0 /\ frames = 0
    /\ mailbox = FALSE
    /\ stored \in [rev : {0}, shape : {<<1, 1, 1>>}]
    /\ seeded = -1
    /\ armHigh = ArmBound + 1 /\ chordAge = -1 /\ starts = 0 /\ navEffects = 0
    /\ sinceFired = [i \in 1..3 |-> [age |-> Repeat, up |-> TRUE]]
    /\ settled = [pos |-> 1, age |-> 0]
    /\ runs = [best |-> [custom |-> 0, direct |-> 0], kind |-> "custom", len |-> 0]

-----------------------------------------------------------------------------
(* The pieces of update() *)

\* the held command: nothing is forgotten but what moves the robot
enterFailsafe(c) == [c EXCEPT !.valid = FALSE, !.failsafe = TRUE, !.arm = FALSE, !.estop = TRUE, !.trick = "none"]

\* Mutant: a frame of the other layout does not start the count over.
DetectionNotRestarted(p, kind) ==
    LET q == [p EXCEPT ![kind] = Min({@ + 1, DetectFrames})]
    IN  IF q[kind] >= DetectFrames THEN [q EXCEPT !.kind = kind, !.locked = TRUE] ELSE q

attemptProfileDetection(p, kind) ==
    LET other == IF kind = "custom" THEN "direct" ELSE "custom"
        q == [p EXCEPT ![kind] = Min({@ + 1, DetectFrames}), ![other] = 0]
    IN  IF q[kind] >= DetectFrames THEN [q EXCEPT !.kind = kind, !.locked = TRUE] ELSE q

\* RcTriSwitchDebouncer::update
Debounced(d, raw) ==
    IF ~d.known THEN [known |-> TRUE, stable |-> raw, candidate |-> raw, age |-> 0]
    ELSE LET age == IF raw # d.candidate THEN 0 ELSE d.age
         IN  [d EXCEPT !.candidate = raw, !.age = age,
                       !.stable = IF raw # @ /\ age >= ModeDebounce THEN raw ELSE @]

\* Kill beats arm; a released arm switch counts once it stayed released.
ArmLatch(c, r, lvl) ==
    IF "SwB" \in lvl THEN [arm |-> FALSE, pending |-> FALSE, age |-> 0]
    ELSE IF "SwA" \in lvl THEN [arm |-> TRUE, pending |-> FALSE, age |-> 0]
    ELSE IF ~c.arm THEN [arm |-> FALSE, pending |-> FALSE, age |-> 0]
    ELSE IF ~r.pending THEN [arm |-> TRUE, pending |-> TRUE, age |-> 0]
    ELSE IF r.age >= ArmRelease THEN [arm |-> FALSE, pending |-> FALSE, age |-> 0]
    ELSE [arm |-> TRUE, pending |-> TRUE, age |-> r.age]

risingEdge(e, slot, level) == level /\ ~e[slot].prev /\ e[slot].age >= Refractory

\* every slot of S after an edge test of its control
Tested(e, binding, lvl) ==
    [s \in DOMAIN e |->
        IF s \in DOMAIN binding
        THEN [prev |-> binding[s] \in lvl, age |-> IF risingEdge(e, s, binding[s] \in lvl) THEN 0 ELSE e[s].age]
        ELSE e[s]]
FiredOf(e, binding, lvl) == {s \in DOMAIN binding : risingEdge(e, s, binding[s] \in lvl)}

\* the slots of a cluster that is not in use follow its controls, so that a
\* press held across a change of mode counts as already seen
Followed(e, binding, lvl) ==
    [s \in DOMAIN e |-> IF s \in DOMAIN binding THEN [e[s] EXCEPT !.prev = binding[s] \in lvl] ELSE e[s]]

ToggleOf == [tune |-> tuneBy]
TuneChanged(c, e, lvl) ==
    IF tuneBy = "SwG" THEN ("SwG" \in lvl) # c.tuning ELSE risingEdge(e, "tune", tuneBy \in lvl)

Bump(v, up, down, max) == LET w == IF up THEN Min({v + 1, max}) ELSE v IN IF down THEN Max({w - 1, -max}) ELSE w

updateGaitTune(c, e, f, lvl) ==
    LET changed == TuneChanged(c, e, lvl)
        tuning == IF changed THEN ~c.tuning ELSE c.tuning
        e1 == IF tuneBy = "SwG" THEN e ELSE Tested(e, ToggleOf, lvl)
        p1 == IF changed THEN 1 ELSE c.param
        fired == FiredOf(e1, TuneOf, lvl)
        p2 == IF "next" \in fired THEN (p1 % 3) + 1 ELSE p1
        p3 == IF "prev" \in fired THEN ((p2 + 1) % 3) + 1 ELSE p2
    IN  IF ~tuning
        THEN [c |-> [c EXCEPT !.tuning = FALSE, !.param = p1], e |-> Followed(e1, TuneOf, lvl), f |-> f]
        ELSE [c |-> [c EXCEPT !.tuning = TRUE, !.param = p3,
                              !.saveSeq = IF "save" \in fired THEN (@ + 1) % CounterMod ELSE @],
              e |-> Tested(Followed(e1, TrimOf, lvl), TuneOf, lvl),
              f |-> [f EXCEPT ![p3] = Max({0, Bump(@, "more" \in fired, "less" \in fired, MaxFrac)})]]

\* updatePoseTrim, of the pitch trim (the roll trim is its twin)
updatePoseTrim(c, e, lvl) ==
    LET fired == FiredOf(e, TrimOf, lvl)
        base == IF "reset" \in fired THEN 0 ELSE c.trim
    IN  [c |-> [c EXCEPT !.trim = Bump(base, "up" \in fired, "down" \in fired, MaxTrim)], e |-> Tested(e, TrimOf, lvl)]

Chord(lvl) == {"Btn1", "Btn2"} \subseteq lvl

\* capture_start_hold: the chord starts a capture once per hold
HoldOf(h, lvl) ==
    IF ~Chord(lvl) THEN [active |-> FALSE, fired |-> FALSE, age |-> 0]
    ELSE IF ~h.active THEN [active |-> TRUE, fired |-> FALSE, age |-> 0]
    ELSE [h EXCEPT !.fired = @ \/ h.age >= CaptureHold]
HoldFires(h, lvl) == HoldOf(h, lvl).fired /\ ~h.fired

\* repeatingTrickTrigger: a held button fires again only at the repeat interval
repeatingTrickTrigger(e, i, lvl) ==
    LET s == e[i]
    IN  Trick[i] \in lvl /\ s.age >= (IF s.prev THEN Repeat ELSE Refractory)

\* BTN_1 + BTN_2 is reserved for the capture: its slots only remember the press.
TricksOf(c, e, lvl) ==
    LET reserved == {i \in 1..3 : Chord(lvl) /\ Trick[i] \in {"Btn1", "Btn2"}}
        fired == {i \in (1..3) \ reserved : repeatingTrickTrigger(e, i, lvl)}
    IN  [c |-> [c EXCEPT !.trick = IF fired = {} THEN "none" ELSE Trick[Min(fired)]],
         e |-> [i \in 1..3 |-> [prev |-> i \in reserved \/ Trick[i] \in lvl,
                               age |-> IF i \in fired THEN 0 ELSE e[i].age]],
         fired |-> fired]

-----------------------------------------------------------------------------
(* ControllerBridge::update on a frame of a link that is up *)
Decoded(lvl, mode) ==
    LET m == Debounced(modeSw, mode)
        a == ArmLatch(cmd, release, lvl)
        c1 == [cmd EXCEPT !.valid = TRUE, !.failsafe = FALSE, !.seen = TRUE,
                          !.mode = m.stable, !.estop = "SwB" \in lvl, !.arm = a.arm]
        t == updateGaitTune(c1, edge, frac, lvl)
        p == IF t.c.tuning THEN [c |-> t.c, e |-> t.e] ELSE updatePoseTrim(t.c, t.e, lvl)
        c2 == [p.c EXCEPT !.toggleSeq = IF risingEdge(p.e, "capture", "Btn4" \in lvl) THEN (@ + 1) % CounterMod ELSE @,
                          !.startSeq = IF HoldFires(chord, lvl) THEN (@ + 1) % CounterMod ELSE @]
        k == TricksOf(c2, trickEdge, lvl)
    IN  /\ cmd' = k.c /\ edge' = Tested(p.e, [capture |-> "Btn4"], lvl) /\ trickEdge' = k.e /\ frac' = t.f
        /\ modeSw' = m /\ release' = [pending |-> a.pending, age |-> a.age]
        /\ chord' = HoldOf(chord, lvl)
        /\ quiet' = 0
        /\ armHigh' = IF "SwA" \in lvl /\ "SwB" \notin lvl THEN 0 ELSE armHigh
        /\ sinceFired' = [i \in 1..3 |-> IF i \in k.fired THEN [age |-> 0, up |-> FALSE]
                                         ELSE [sinceFired[i] EXCEPT !.up = @ \/ Trick[i] \notin lvl]]
        /\ chordAge' = IF ~Chord(lvl) THEN -1 ELSE IF chordAge < 0 THEN 0 ELSE chordAge
        /\ starts' = IF ~Chord(lvl) THEN 0 ELSE starts + (IF k.c.startSeq # cmd.startSeq THEN 1 ELSE 0)
        /\ navEffects' = IF "Nav1Up" \notin lvl THEN 0
                         ELSE navEffects + Cardinality({x \in {"trim", "param"} :
                                  IF x = "trim" THEN k.c.trim > cmd.trim /\ "Nav1Center" \notin lvl
                                  ELSE k.c.tuning /\ cmd.tuning /\ k.c.param # cmd.param /\ "Nav1Down" \notin lvl})
        /\ settled' = IF settled.pos = mode THEN settled ELSE [pos |-> mode, age |-> 0]

\* a frame is decoded in this pass
Frame ==
    \E lvl \in SUBSET hand, mode \in (IF "SwF" \in hand THEN 0..2 ELSE {1}), kind \in {"custom", "direct"} :
        LET p == IF profile.locked THEN profile ELSE attemptProfileDetection(profile, kind)
            len == IF kind = runs.kind THEN Min({runs.len + 1, DetectFrames}) ELSE 1
        IN  /\ frames < MaxPerPass
            /\ profile.locked => kind = profile.kind
            /\ lvl \cap {"SwF"} = {}
            /\ frames' = frames + 1
            /\ profile' = p
            /\ runs' = IF profile.locked THEN runs ELSE [best |-> [runs.best EXCEPT ![kind] = Max({@, len})], kind |-> kind, len |-> len]
            /\ IF p.locked THEN Decoded(lvl, mode)
               ELSE /\ cmd' = enterFailsafe(cmd) /\ release' = [release EXCEPT !.pending = FALSE]
                    /\ UNCHANGED <<edge, trickEdge, chord, modeSw, frac, quiet, armHigh, sinceFired, chordAge, starts,
                                   navEffects, settled>>
            /\ UNCHANGED <<hand, tuneBy, mailbox, stored, seeded>>

\* evaluateFailsafe, the reseeding of the editor's values, and the publication
\* of the pass; then time goes by until the next one.
Silent == ~cmd.seen \/ quiet > Failsafe

setGaitTuneFractions == IF cmd.tuning THEN frac ELSE stored.shape

Pass ==
    \E dt \in 1..MaxPeriod :
        LET c == IF Silent THEN enterFailsafe(cmd) ELSE cmd
        IN  /\ cmd' = c
            /\ release' = [pending |-> release.pending /\ ~Silent,
                           age |-> IF release.pending THEN Older(release.age, dt, ArmRelease) ELSE 0]
            /\ frac' = IF stored.rev # seeded THEN setGaitTuneFractions ELSE frac
            /\ seeded' = stored.rev
            /\ mailbox' = c.arm
            /\ frames' = 0
            /\ quiet' = Older(quiet, dt, Failsafe + 1)
            /\ edge' = [s \in DOMAIN edge |-> [edge[s] EXCEPT !.age = Older(@, dt, Refractory)]]
            /\ trickEdge' = [i \in 1..3 |-> [trickEdge[i] EXCEPT !.age = Older(@, dt, Repeat)]]
            /\ chord' = [chord EXCEPT !.age = IF chord.active THEN Older(@, dt, CaptureHold) ELSE 0]
            /\ modeSw' = [modeSw EXCEPT !.age = Older(@, dt, ModeDebounce)]
            /\ armHigh' = Older(armHigh, dt, ArmBound + 1)
            /\ sinceFired' = [i \in 1..3 |-> [sinceFired[i] EXCEPT !.age = Older(@, dt, Repeat)]]
            /\ chordAge' = Older(chordAge, dt, CaptureHold)
            /\ settled' = [settled EXCEPT !.age = Older(@, dt, ModeDebounce)]
            /\ UNCHANGED <<hand, tuneBy, profile, stored, starts, navEffects, runs>>

\* a configuration with another gait shape is committed
StoreGait ==
    \E rev \in Revisions, shape \in {<<2, 1, 1>>} :
        /\ rev > stored.rev
        /\ stored' = [rev |-> rev, shape |-> shape]
        /\ UNCHANGED <<hand, tuneBy, cmd, edge, trickEdge, profile, release, chord, modeSw, frac, quiet, frames, mailbox, seeded,
                       rcHistory>>

BridgeNext == Frame \/ Pass \/ StoreGait

BridgeSpec == BridgeInit /\ [][BridgeNext]_rcVars

-----------------------------------------------------------------------------
(* Properties *)

\* How long a stale arm request can outlive the switch: once neither an
\* unkilled arm switch has been seen for the debounce and two silences (one
\* before the first released frame, one before the next), the command the
\* controller reads is disarmed, whatever frames were lost in between.
ArmRequestIsRecent == mailbox => armHigh <= ArmBound

\* A trick fires again no sooner than the refractory time, and while its
\* button has not been seen up no sooner than the repeat time, also when the
\* button was part of the capture chord in between.
TricksAreSpaced ==
    [][\A i \in 1..3 : (trickEdge'[i].age = 0 /\ sinceFired'[i].age = 0 /\ frames' = frames + 1
                            /\ sinceFired[i].age # 0) =>
          sinceFired[i].age >= (IF sinceFired[i].up THEN Refractory ELSE Repeat)]_rcVars

\* A capture starts only after the chord was in every frame for the hold time,
\* and once per hold.
CaptureStartIsHeld ==
    [][cmd'.startSeq # cmd.startSeq => chordAge >= CaptureHold /\ starts = 0]_rcVars

\* One press of NAV1 up moves one value once: a press that is held while the
\* editor opens or closes does not count for the trim and for the editor.
OnePressOneEffect == navEffects <= 1

\* The mode changes only to a position the switch kept in every frame for the
\* debounce time.
ModeIsSettled ==
    [][cmd'.mode # cmd.mode /\ cmd.seen => settled.pos = cmd'.mode /\ settled.age >= ModeDebounce]_rcVars

\* The bridge decodes a layout only after as many frames in a row looked like
\* it as detection wants.
ProfileIsEarned == profile.locked => runs.best[profile.kind] >= DetectFrames

(***************************************************************************)
(* A switch acts on what the operator holds and has held long enough, once: *)
(* arming, mode, tricks, capture start and gait tuning, under any loss of  *)
(* frames and any layout (RcBridge::update).                               *)
(***************************************************************************)
SwitchesAreDebounced ==
    /\ [](ArmRequestIsRecent /\ OnePressOneEffect /\ ProfileIsEarned)
    /\ TricksAreSpaced /\ CaptureStartIsHeld /\ ModeIsSettled
=============================================================================
