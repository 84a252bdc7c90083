--------------------------------- MODULE RcAnalog ---------------------------------
EXTENDS Integers, Sequences, FiniteSets

(***************************************************************************)
(* input/rc_input_conditioner.cpp: the filter between an analog control and *)
(* the command.  One channel: a stick (centred), a pot, or a relative       *)
(* encoder.  The low-pass step of an elapsed time moves the output some way *)
(* towards the filtered input; how far is a choice.                         *)
(***************************************************************************)

CONSTANTS FullScale      \* the largest reading of a control

ASSUME ConditionerAssumption == FullScale \in Nat \ {0}

VARIABLES
    mode,        \* mode_
    type,        \* the calibrated type of the channel
    tau,         \* whether the calibrated time constant is not zero
    chan,        \* ChannelState: output, median ring, next, initialized
    low, high,   \* the range of the inputs since the filter was reset
    last         \* the last two inputs in this mode

condVars == <<mode, type, tau, chan, low, high, last>>

\* clamp to the range of the channel's type
Conditioned(v) ==
    LET floor == IF type = "centred" THEN -FullScale ELSE 0
    IN  IF v < floor THEN floor ELSE IF v > FullScale THEN FullScale ELSE v

Unset == [output |-> 0, median |-> <<0, 0, 0>>, next |-> 1, initialized |-> FALSE]

CondInit ==
    /\ mode = "Ema"
    /\ type \in {"centred", "absolute", "encoder"} /\ tau \in BOOLEAN
    /\ chan = Unset /\ low = 0 /\ high = 0 /\ last = <<>>

median3(a, b, c) ==
    LET p == IF a > b THEN <<b, a>> ELSE <<a, b>>
        q == IF p[2] > c THEN <<p[1], c>> ELSE p
    IN  IF q[1] > q[2] THEN q[1] ELSE q[2]

\* a valid calibration starts the filter afresh; an invalid one changes nothing
Configure ==
    /\ type' \in {"centred", "absolute", "encoder"} /\ tau' \in BOOLEAN
    /\ chan' = Unset /\ low' = 0 /\ high' = 0 /\ last' = <<>>
    /\ UNCHANGED mode

\* a change of mode must not make the output jump: the ring restarts at the output
ModeRing(c) == [c EXCEPT !.median = <<c.output, c.output, c.output>>, !.next = 1]

\* The diagnostic mode needs permission.
SetMode ==
    \E m \in {"Ema", "Median3Ema", "NoneDiagnostic"} \ {mode}, allowed \in BOOLEAN :
        /\ m = "NoneDiagnostic" => allowed
        /\ mode' = m /\ chan' = ModeRing(chan) /\ last' = <<>>
        /\ UNCHANGED <<type, tau, low, high>>

Towards(from, to) == IF from <= to THEN from..to ELSE to..from

\* the filtered input, and the channel after it passed the median
Filtered(v) ==
    IF mode # "Median3Ema" THEN [c |-> chan, v |-> v]
    ELSE LET ring == [chan.median EXCEPT ![chan.next] = v]
         IN  [c |-> [chan EXCEPT !.median = ring, !.next = (chan.next % 3) + 1],
              v |-> median3(ring[1], ring[2], ring[3])]

First(v) == [output |-> v, median |-> <<v, v, v>>, next |-> chan.next, initialized |-> TRUE]

Condition ==
    \E raw \in {-FullScale - 1, -FullScale, 0, 1, FullScale} :
        LET v == Conditioned(raw)
            f == Filtered(v)
        IN  /\ \/ ~chan.initialized /\ chan' = First(v)
               \/ /\ chan.initialized /\ (type = "encoder" \/ mode = "NoneDiagnostic")
                  /\ chan' = [chan EXCEPT !.output = v]
               \/ /\ chan.initialized /\ type # "encoder" /\ mode # "NoneDiagnostic"
                  /\ \E out \in (IF tau THEN Towards(chan.output, f.v) ELSE {f.v}) :
                        chan' = [f.c EXCEPT !.output = out]
            /\ low' = IF ~chan.initialized \/ v < low THEN v ELSE low
            /\ high' = IF ~chan.initialized \/ v > high THEN v ELSE high
            /\ last' = IF Len(last) < 2 THEN Append(last, v) ELSE <<last[2], v>>
            /\ UNCHANGED <<mode, type, tau>>

CondNext == Configure \/ SetMode \/ Condition

-----------------------------------------------------------------------------
(* Properties *)

\* The filter invents nothing: its output lies between the smallest and the
\* largest reading since it was reset, through every change of mode and from
\* its first reading on (it does not ramp up from zero).
OutputInHull == chan.initialized => chan.output \in low..high

\* In the median mode one wild reading passes unnoticed: when the output had
\* settled on the readings before it, in this mode or the one before, it
\* stays where it is.
SpikeIsRejected ==
    [][(mode = "Median3Ema" /\ mode' = mode /\ type # "encoder" /\ chan.initialized /\ chan'.initialized
           /\ last' # last /\ \A i \in DOMAIN last : last[i] = chan.output)
         => chan'.output = chan.output]_condVars

-----------------------------------------------------------------------------
(***************************************************************************)
(* From the raw position of an analog control to the value of an axis       *)
(* (input/controller_bridge.cpp): calibration, dead band, expo, inversion.  *)
(* One control and one binding; the filter in between (above) has            *)
(* settled.  A value of 1.0 is One; quotients round towards zero.           *)
(***************************************************************************)

CONSTANTS One,          \* the value 1.0
          Tolerance,    \* kCalibrationOutOfRangeTolerance
          AxisRaws,     \* raw positions
          AxisCals,     \* the calibrations a configuration may hold for the control
          AxisBindings  \* the bindings: invert, dead band (0: the calibrated one)

ASSUME AxisAssumption == One \in Nat \ {0} /\ Tolerance \in Nat

VARIABLES
    control,   \* "stick", "pot": the control the binding names
    cal,       \* calibrationFor(source)
    bind,      \* the AxisBinding
    reading,   \* the last raw position, with what it was read as
    earlier     \* the one before it, if the settings are still the same

axisVars == <<control, cal, bind, reading, earlier>>

Unread == [raw |-> 0, bi |-> 0, uni |-> 0, seen |-> FALSE]

\* validateRcInputCalibration, for the channel of this control
validChannel(c) ==
    /\ c.min < c.max /\ c.centre \in c.min .. c.max
    /\ c.type = (IF control = "stick" THEN "centred" ELSE "unipolar")
    /\ c.type = "centred" => c.centre \notin {c.min, c.max}

AxisInit ==
    /\ control \in {"stick", "pot"}
    /\ cal \in {c \in AxisCals : validChannel(c)}
    /\ bind \in AxisBindings
    /\ reading = Unread /\ earlier = Unread

-----------------------------------------------------------------------------

rawWithinCalibrationWindow(raw, c) == raw \in (c.min - Tolerance) .. (c.max + Tolerance)

\* clampf, and the clamps of the raw position
clampf(v, lo, hi) == IF v < lo THEN lo ELSE IF v > hi THEN hi ELSE v

\* v * p / q for a value of either sign
Part(v, p, q) == IF v < 0 THEN -((-v * p) \div q) ELSE (v * p) \div q

\* the position relative to the centre, as a part of the travel on that side
readCalibratedBipolar(raw, c) ==
    LET d == clampf(raw, c.min, c.max) - c.centre
        v == Part(d, One, IF d >= 0 THEN c.max - c.centre ELSE c.centre - c.min)
    IN  clampf(IF c.reversed THEN -v ELSE v, -One, One)

readCalibratedUnipolar(raw, c) ==
    LET v == Part(clampf(raw, c.min, c.max) - c.min, One, c.max - c.min)
    IN  clampf(IF c.reversed THEN One - v ELSE v, 0, One)

\* updateConditionedInputs: a position the calibration does not explain reads as zero
Normalized(raw) ==
    IF ~rawWithinCalibrationWindow(raw, cal) THEN 0
    ELSE IF control = "stick" THEN readCalibratedBipolar(raw, cal) ELSE readCalibratedUnipolar(raw, cal)

\* nothing inside the band; the rest of the travel covers the whole range again
applyDeadband(v, d) ==
    IF clampf(v, -d, d) = v THEN 0 ELSE Part(IF v < 0 THEN v + d ELSE v - d, One, One - d)

\* (1 - e) v + e v^3
applyExpo(v, e) == Part(v * ((One - e) * One * One + e * v * v), 1, One * One * One)

applyBindingResponse(v) ==
    IF control # "stick" THEN v
    ELSE applyExpo(applyDeadband(v, IF bind.deadband > 0 THEN bind.deadband ELSE cal.deadband), cal.expo)

readAxisBipolar(raw) ==
    LET v == IF control = "stick" THEN Normalized(raw) ELSE 2 * Normalized(raw) - One
        r == applyBindingResponse(v)
    IN  clampf(IF bind.invert THEN -r ELSE r, -One, One)

readAxisUnipolar(raw) ==
    LET v == IF control = "stick" THEN (applyBindingResponse(Normalized(raw)) + One) \div 2 ELSE Normalized(raw)
    IN  clampf(IF bind.invert THEN One - v ELSE v, 0, One)

-----------------------------------------------------------------------------
\* a frame: the raw inputs are conditioned and the axes read
ReadAxes(raw) ==
    /\ reading' = [raw |-> raw, bi |-> readAxisBipolar(raw), uni |-> readAxisUnipolar(raw), seen |-> TRUE]
    /\ earlier' = reading
    /\ UNCHANGED <<control, cal, bind>>

\* setCalibration: an invalid calibration changes nothing
setCalibration(c) ==
    /\ validChannel(c)
    /\ cal' = c
    /\ reading' = Unread /\ earlier' = Unread
    /\ UNCHANGED <<control, bind>>

\* setBindings
setBinding(b) ==
    /\ bind' = b
    /\ reading' = Unread /\ earlier' = Unread
    /\ UNCHANGED <<control, cal>>

AxisNext ==
    \/ \E raw \in AxisRaws : ReadAxes(raw)
    \/ \E c \in AxisCals : setCalibration(c)
    \/ \E b \in AxisBindings : setBinding(b)

-----------------------------------------------------------------------------
(* Properties *)

Explained(r) == r.seen /\ rawWithinCalibrationWindow(r.raw, cal)

\* Moving a control one way never moves its axis the other way, whatever the
\* calibration, dead band and expo, across the centre and beyond the calibrated
\* ends: only the reversal of the channel and the inversion of the binding turn
\* the direction (readCalibratedBipolar to readAxisUnipolar).
AxisFollowsControl ==
    (Explained(earlier) /\ Explained(reading) /\ earlier.raw <= reading.raw)
        => IF cal.reversed = bind.invert THEN earlier.bi <= reading.bi /\ earlier.uni <= reading.uni
           ELSE earlier.bi >= reading.bi /\ earlier.uni >= reading.uni

\* A stick at its calibrated centre, and one whose position its calibration
\* cannot explain (a broken gimbal, a frame of another transmitter), commands
\* exactly nothing.
RestCommandsNothing ==
    (control = "stick" /\ reading.seen
        /\ (reading.raw = cal.centre \/ reading.raw \notin (cal.min - Tolerance) .. (cal.max + Tolerance)))
        => reading.bi = 0

\* At either end of the calibrated travel an axis has its full value: dead band
\* and expo take nothing from the range.
FullTravelIsReached ==
    (reading.seen /\ reading.raw \in {cal.min, cal.max})
        => reading.bi \in {-One, One} /\ reading.uni \in {0, One}
=============================================================================
