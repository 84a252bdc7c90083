---------------------------- MODULE ChannelPack -----------------------------
(***************************************************************************)
(* What the sixteen channels of an RC frame mean.  The handset built for    *)
(* the robot packs its controls into eleven channels (lib/ChannelPack) and  *)
(* a TX16S sends one control per channel; the bridge                        *)
(* (input/controller_bridge.cpp) tells the two layouts apart by looking at  *)
(* the values.  A tick is one unit of a channel.  The air link requantises  *)
(* a channel, so a value may arrive up to Jitter ticks off.                 *)
(***************************************************************************)
EXTENDS Integers, Sequences, FiniteSets, FiniteSetsExt

CONSTANTS
    CrsfMin, CrsfMid, CrsfMax,     \* CPACK_CRSF_MIN, MID, MAX
    SwitchMax, BtnToggleMax, NavMax, \* the largest value of each packed field
    ArmSteps, ArmOnBase, ArmCodeMax, \* the pot's code, with and without arm
    Jitter,                        \* how far a channel may be off on arrival
    PotGrid, StickGrid             \* the stick and pot positions tried

ASSUME ChannelAssumption ==
    /\ CrsfMin < CrsfMid /\ CrsfMid < CrsfMax
    /\ Jitter \in Nat /\ Jitter <= 16
    /\ ArmSteps < ArmOnBase /\ ArmOnBase + ArmSteps = ArmCodeMax

VARIABLES
    held,        \* the controls the operator holds
    ch,          \* the sixteen channels as they arrive, 1-based
    decoded,     \* what the bridge reads out of them
    layout       \* "custom" or "direct": what the transmitter really is

packVars == <<held, ch, decoded, layout>>

Span == CrsfMax - CrsfMin
Clamp(v, lo, hi) == IF v < lo THEN lo ELSE IF v > hi THEN hi ELSE v

gimbalToCrsf(v) == ((Clamp(v, -1000, 1000) + 1000) * Span) \div 2000 + CrsfMin
potToCrsf(v) == (Clamp(v, 0, 1000) * Span) \div 1000 + CrsfMin

\* The pot and the arm switch share a channel: armed codes start far above
\* the largest disarmed one.
armPotToCrsf(pot, arm) ==
    LET code == (Clamp(pot, 0, 1000) * ArmSteps + 500) \div 1000
                  + (IF arm THEN ArmOnBase ELSE 0)
    IN  CrsfMin + (code * Span + ArmCodeMax \div 2) \div ArmCodeMax

discreteToCrsf(v, max) == CrsfMin + (Clamp(v, 0, max) * Span + max \div 2) \div max
crsfToDiscrete(v, max) == ((Clamp(v, CrsfMin, CrsfMax) - CrsfMin) * max + Span \div 2) \div Span

\* Truncation toward zero, as the C division does for a stick left of centre.
Quotient(a, b) == IF a >= 0 THEN a \div b ELSE -((-a) \div b)
crsfToGimbal(v) == Quotient((v - CrsfMin) * 2000, Span) - 1000
crsfToPot(v) == Quotient((v - CrsfMin) * 1000, Span)

crsfToArmPotAtBase(v) ==
    LET code == ((Clamp(v, CrsfMin, CrsfMax) - CrsfMin) * ArmCodeMax + Span \div 2) \div Span
        arm == code >= ArmOnBase
        pot == Clamp(IF arm THEN code - ArmOnBase ELSE code, 0, ArmSteps)
    IN  [arm |-> arm, pot |-> (pot * 1000 + ArmSteps \div 2) \div ArmSteps]
crsfToArmPot(v) ==
    LET code == ((Clamp(v, CrsfMin, CrsfMax) - CrsfMin) * ArmCodeMax + Span \div 2) \div Span
        arm == code >= (ArmCodeMax + 1) \div 2
        pot == Clamp(IF arm THEN Max({code - ArmOnBase, 0}) ELSE code, 0, ArmSteps)
    IN  [arm |-> arm, pot |-> (pot * 1000 + ArmSteps \div 2) \div ArmSteps]

\* A set of numbers as a bit field, and back
Bits(set) == SumSet({2 ^ i : i \in set})
BitsOf(v, width) == {i \in 0..(width - 1) : (v \div 2 ^ i) % 2 = 1}

packButtonToggleState(buttons, tog) == (tog[1] * 3 + tog[2]) * 16 + Bits(buttons)
unpackButtonToggleState(v) ==
    LET w == Clamp(v, 0, BtnToggleMax)
    IN  [buttons |-> BitsOf(w % 16, 4), toggles |-> <<(w \div 16) \div 3, (w \div 16) % 3>>]

\* One direction of a nav cluster at a time, 0 for none
packNavStates(nav) == nav[1] * 6 + nav[2]
unpackNavStates(v) == LET w == Clamp(v, 0, NavMax) IN <<w \div 6, w % 6>>

\* CH5 carries arm and pot, CH9 the switches B to H, CH10 the buttons and
\* toggles, CH11 the nav clusters; five channels are reserved at mid scale.
packInputs(in) ==
    << gimbalToCrsf(in.stick), gimbalToCrsf(in.stick), gimbalToCrsf(in.stick), gimbalToCrsf(in.stick),
       armPotToCrsf(in.pot, in.arm), potToCrsf(in.pot), CrsfMid, CrsfMid,
       discreteToCrsf(Bits(in.switches), SwitchMax),
       discreteToCrsf(packButtonToggleState(in.buttons, in.toggles), BtnToggleMax),
       discreteToCrsf(packNavStates(in.nav), NavMax),
       CrsfMid, CrsfMid, CrsfMid, CrsfMid, CrsfMid >>

unpackChannels(c) ==
    LET bt == unpackButtonToggleState(crsfToDiscrete(c[10], BtnToggleMax))
        ap == crsfToArmPot(c[5])
    IN  [stick |-> crsfToGimbal(c[1]), pot |-> ap.pot, arm |-> ap.arm,
         switches |-> BitsOf(crsfToDiscrete(c[9], SwitchMax), 5),
         buttons |-> bt.buttons, toggles |-> bt.toggles,
         nav |-> unpackNavStates(crsfToDiscrete(c[11], NavMax))]

crsfToBins(v, bins) == Clamp(((Clamp(v, CrsfMin, CrsfMax) - CrsfMin) * bins) \div Span, 0, bins - 1)
crsfToTri(v) ==
    LET u == (Clamp(v, CrsfMin, CrsfMax) - CrsfMin) * 10000
    IN  IF u < 3333 * Span THEN 0 ELSE IF u < 6666 * Span THEN 1 ELSE 2
crsfToBoolHigh(v) == 2 * (Clamp(v, CrsfMin, CrsfMax) - CrsfMin) > Span

\* a mixer output in the middle of its bin
BinCentre(bin, bins) == CrsfMin + ((2 * bin + 1) * Span) \div (2 * bins)

\* What a TX16S model set up for the robot sends: masks and the action number
\* as bins, the fire channel at one end or the other.
DirectFrame(in) ==
    << gimbalToCrsf(in.stick), gimbalToCrsf(in.stick), gimbalToCrsf(in.stick), gimbalToCrsf(in.stick),
       potToCrsf(in.pot), potToCrsf(in.pot), potToCrsf(in.pot), potToCrsf(in.pot),
       BinCentre(in.toggles[1], 3), BinCentre(in.toggles[2], 3),
       BinCentre(Bits(IF in.arm THEN {0} ELSE {}) + Bits(in.switches \cap {1}), 4),
       BinCentre(0, 16), BinCentre(in.action, 13),
       IF in.fire THEN CrsfMax ELSE CrsfMin, CrsfMid, CrsfMid >>

unpackTx16sMk3DirectChannels(c) ==
    [stick |-> crsfToGimbal(Clamp(c[1], CrsfMin, CrsfMax)), pot |-> crsfToPot(Clamp(c[5], CrsfMin, CrsfMax)),
     toggles |-> <<crsfToTri(c[9]), crsfToTri(c[10])>>,
     arm |-> 0 \in BitsOf(crsfToBins(c[11], 4), 2),
     kill |-> 1 \in BitsOf(crsfToBins(c[11], 4), 2),
     action |-> IF crsfToBoolHigh(c[14]) THEN {crsfToBins(c[13], 13)} ELSE {}]

nearCrsfMid(v) == v - CrsfMid <= 16 /\ CrsfMid - v <= 16

looksLikeCustomChannelPack(c) ==
    /\ crsfToDiscrete(c[9], SwitchMax) <= 31
    /\ crsfToDiscrete(c[10], BtnToggleMax) \div 16 < 9
    /\ crsfToDiscrete(c[11], NavMax) < 1024
    /\ \A i \in 12..16 : nearCrsfMid(c[i])

(***************************************************************************)
(* The payload of a channel frame: 16 channels of 11 bits, low bits first,  *)
(* in 22 bytes.                                                             *)
(***************************************************************************)
PayloadOf(frame) ==
    LET bit(j) == (frame[j \div 11 + 1] \div 2 ^ (j % 11)) % 2
    IN  [k \in 1..22 |-> SumSet({2 ^ i : i \in {x \in 0..7 : bit(8 * (k - 1) + x) = 1}})]

\* Parser::unpackChannels: bytes fill an accumulator until it holds a channel
Unpacked(d) ==
    LET loop[n \in 0..38] ==
            IF n = 0 THEN [bits |-> 0, avail |-> 0, byte |-> 1, out |-> <<>>]
            ELSE LET s == loop[n - 1]
                 IN  IF s.avail < 11
                     THEN [s EXCEPT !.bits = @ + d[s.byte] * 2 ^ s.avail, !.avail = @ + 8, !.byte = @ + 1]
                     ELSE [s EXCEPT !.out = Append(@, s.bits % 2048), !.bits = @ \div 2048, !.avail = @ - 11]
    IN  loop[38].out

-----------------------------------------------------------------------------
Rest == [stick |-> 0, pot |-> 0, arm |-> FALSE, switches |-> {}, buttons |-> {}, toggles |-> <<1, 1>>,
         nav |-> <<0, 0>>, action |-> 0, fire |-> FALSE]

PackInit ==
    /\ layout \in {"custom", "direct"}
    /\ held = Rest
    /\ ch = IF layout = "custom" THEN packInputs(Rest) ELSE DirectFrame(Rest)
    /\ decoded = [custom |-> layout = "custom", in |-> unpackChannels(ch), direct |-> unpackTx16sMk3DirectChannels(ch)]

\* Every channel of a frame arrives equally far off (the worst cases are
\* the two ends).
Arrive(frame, off) == Unpacked(PayloadOf([i \in 1..16 |-> frame[i] + off]))

\* The operator moves one group of controls; the frame arrives and is decoded
\* both ways, after the classifier has looked at it.
Send(in) ==
    \E off \in {-Jitter, 0, Jitter} :
        /\ held' = in
        /\ ch' = Arrive(IF layout = "custom" THEN packInputs(in) ELSE DirectFrame(in), off)
        /\ decoded' = [custom |-> looksLikeCustomChannelPack(ch'),
                       in |-> unpackChannels(ch'), direct |-> unpackTx16sMk3DirectChannels(ch')]
        /\ UNCHANGED layout

MoveSwitches == \E s \in SUBSET (0..4) : Send([Rest EXCEPT !.switches = s])
MoveButtons == \E b \in SUBSET (0..3), t \in (0..2) \X (0..2) : Send([Rest EXCEPT !.buttons = b, !.toggles = t])
MoveNav == \E n \in (0..5) \X (0..5) : Send([Rest EXCEPT !.nav = n])
MovePot == \E p \in PotGrid, a \in BOOLEAN : Send([Rest EXCEPT !.pot = p, !.arm = a])
MoveStick == \E x \in StickGrid : Send([Rest EXCEPT !.stick = x])
PickAction == \E a \in 0..12, f \in BOOLEAN, arm \in BOOLEAN, kill \in {{}, {1}} :
                 /\ layout = "direct"
                 /\ Send([Rest EXCEPT !.action = a, !.fire = f, !.arm = arm, !.switches = kill])

PackNext == held = Rest /\ (MoveSwitches \/ MoveButtons \/ MoveNav \/ MovePot \/ MoveStick \/ PickAction)

-----------------------------------------------------------------------------
(* Properties *)

\* What the operator holds on the packed handset is what the bridge reads,
\* although every channel arrives off by the jitter: the switches, buttons,
\* toggles, nav directions and the arm switch exactly, whatever the pot that
\* shares the arm channel does.
HandsetControlsSurvive ==
    layout = "custom" =>
        /\ decoded.in.arm = held.arm /\ decoded.in.switches = held.switches
        /\ decoded.in.buttons = held.buttons /\ decoded.in.toggles = held.toggles
        /\ decoded.in.nav = held.nav

\* The same of a TX16S: arm and kill from one channel, the action number of
\* the action channel, and no action unless the fire channel is high.
DirectControlsSurvive ==
    layout = "direct" =>
        /\ decoded.direct.arm = held.arm /\ decoded.direct.kill = (1 \in held.switches)
        /\ decoded.direct.toggles = held.toggles
        /\ decoded.direct.action = IF held.fire THEN {held.action} ELSE {}

\* No frame of one transmitter is taken for one of the other: the controls
\* of a TX16S never fill the reserved channels with mid-scale values, and no
\* position of the handset's controls moves them away.
LayoutIsRecognised == decoded.custom = (layout = "custom")
=============================================================================
