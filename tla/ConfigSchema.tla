---------------------------- MODULE ConfigSchema ----------------------------
(***************************************************************************)
(* The persistent robot configuration (config/config_schema.cpp): its       *)
(* serialised form, the forms that older firmware wrote, their migration    *)
(* and validation. One configuration is written by some firmware version,   *)
(* possibly cut short or lengthened in storage, and read by this one.       *)
(*                                                                         *)
(* A block is a tuple of integers in the order of the structure's fields. A *)
(* byte holds ByteBase values; the widths and the order of the fields are   *)
(* the code's. The limits of the validator are constants, scaled to the     *)
(* byte where they exceed it.                                               *)
(***************************************************************************)
EXTENDS Integers, Sequences, FiniteSets

LOCAL INSTANCE SequencesExt

CONSTANTS
    ByteBase,      \* values of a byte, 256 in the code
    NameLen,       \* kRobotNameLen
    NumLegs, JointsPerLeg, NumFeet, NumChannels,
    MaxId,         \* 253
    MaxTick,       \* kServoMaxTick
    HeightRange, MaxStride, MaxStep,   \* the gait engine's envelope
    MaxDeadband, MaxTau, MaxDebounce,  \* limits of a channel
    MaxScale, MaxAccel, MaxRate,       \* limits of the body command
    KnownFeatures,                     \* 2^bits - 1
    Profile,       \* the measured kinematics: [links, geometry, legs, gait]
    Servo,         \* default limits of a servo: <<min, max>>
    Analog,        \* default <<min, centre, max>> of a channel, by type
    Body,          \* default body-command limits
    Candidates     \* configurations to write

ASSUME SchemaAssumption ==
    /\ ByteBase \in Nat \ {0, 1} /\ NameLen \in Nat \ {0}
    /\ {NumLegs, JointsPerLeg, NumFeet, NumChannels} \subseteq Nat \ {0}

VARIABLES
    written,    \* the configuration some firmware held
    version,    \* the schema version of that firmware
    payload,    \* the bytes in storage
    loaded      \* <<>> before the load, then [ok, cfg, valid]

schemaVars == <<written, version, payload, loaded>>

CurrentVersion == 9
NumServos == NumLegs * JointsPerLeg

----------------------------------------------------------------------------
\* Bytes: the width of a field, negative where it is signed

Unsigned(v, w) == IF v < 0 THEN v + ByteBase^w ELSE v
Put(v, w) == [i \in 1..w |-> (Unsigned(v, w) \div ByteBase^(i - 1)) % ByteBase]
Width(k) == IF k < 0 THEN -k ELSE k

PutAll(vs, ks) == FlattenSeq([i \in DOMAIN ks |-> Put(vs[i], Width(ks[i]))])

Size(ks) == FoldSeq(LAMBDA k, n : Width(k) + n, 0, ks)

\* the value of width k at offset o
GetAt(b, o, k) ==
    LET u == FoldSeq(LAMBDA i, n : n + b[o + i] * ByteBase^(i - 1), 0, [i \in 1..Width(k) |-> i])
    IN  IF k < 0 /\ u >= (ByteBase^Width(k)) \div 2 THEN u - ByteBase^Width(k) ELSE u

GetAll(b, o, ks) == [i \in DOMAIN ks |-> GetAt(b, o + Size(SubSeq(ks, 1, i - 1)), ks[i])]

\* the structures, in declaration order
NameKind == [i \in 1..NameLen |-> 1]
LinksKind == <<2, 2, 2>>
GeometryKind == <<2, -2, 2>>
LegKind == <<-2, -2, -2, -2>>
ServoKind == <<1, 1, 1, -1, -2, 2, 2>>
GaitKind == <<2, 2, 2, 1, 1, 1>>
ChannelKind == <<1, 1, -2, -2, -2, 1, 1, 1, 2, 2>>
BodyKind == [i \in 1..14 |-> 2]
FootKind == <<-4, 2, 2, 2, 1>>

Times(n, kind) == FlattenSeq([i \in 1..n |-> kind])

HasChannels(v) == v # 3
HasBody(v) == v \notin {3, 4}

\* the blocks of a payload of version v: their kinds, in order
Layout(v) ==
    <<NameKind, LinksKind, GeometryKind, Times(NumLegs, LegKind), Times(NumServos, ServoKind),
      GaitKind,
      IF HasChannels(v) THEN Times(NumChannels, ChannelKind) ELSE <<>>,
      IF HasBody(v) THEN BodyKind ELSE <<>>,
      Times(NumFeet, FootKind), <<4>>>>

\* kConfigPayloadSize and the sizes of the legacy layouts
PayloadSize(v) == 2 + FoldSeq(LAMBDA ks, n : Size(ks) + n, 0, Layout(v))

----------------------------------------------------------------------------
\* Defaults and migration

applyRobotKinematicsProfile(c) ==
    [c EXCEPT !.links = Profile.links, !.geometry = Profile.geometry,
              !.legs = Profile.legs, !.gait = Profile.gait]

DefaultServo(slot) ==
    <<slot, (slot - 1) \div JointsPerLeg, (slot - 1) % JointsPerLeg, 1, 0, Servo[1], Servo[2]>>

applyRobotMotionProfile(c) ==
    [applyRobotKinematicsProfile(c) EXCEPT !.servos = [i \in 1..NumServos |-> DefaultServo(i)]]

\* the type a source must have: sticks, pots, encoder
TypeOf(source) == IF source <= 4 THEN 0 ELSE IF source <= 6 THEN 1 ELSE 2

defaultRcInputCalibration ==
    [i \in 1..NumChannels |->
        LET t == TypeOf(i)
        IN  <<i, t, Analog[t + 1][1], Analog[t + 1][2], Analog[t + 1][3], 0,
              IF t = 0 THEN 1 ELSE 0, 0, IF t = 0 THEN 1 ELSE IF t = 1 THEN 2 ELSE 0, 0>>]

defaultBodyCommandLimits == Body

ZeroConfig ==
    [name |-> [i \in 1..NameLen |-> 0], links |-> <<0, 0, 0>>, geometry |-> <<0, 0, 0>>,
     legs |-> [i \in 1..NumLegs |-> <<0, 0, 0, 0>>],
     servos |-> [i \in 1..NumServos |-> <<0, 0, 0, 1, 0, 0, MaxTick>>],
     gait |-> <<0, 0, 0, 0, 0, 0>>, channels |-> [i \in 1..NumChannels |-> <<0, 0, 0, 0, 0, 0, 0, 0, 0, 0>>],
     body |-> Body, feet |-> [i \in 1..NumFeet |-> <<0, 0, 0, 0, 0>>], features |-> 0]

\* SensorPolling alone defaults on; the name is "HexNav" in the code
defaultRobotConfig ==
    [applyRobotMotionProfile(ZeroConfig) EXCEPT
        !.name = [i \in 1..NameLen |-> IF i < NameLen THEN i ELSE 0],
        !.channels = defaultRcInputCalibration,
        !.body = defaultBodyCommandLimits,
        !.features = 4]

\* Plausible bug: a migration that resets the whole motion profile
MigrateAll(c, v) == IF v = CurrentVersion THEN c ELSE applyRobotMotionProfile(c)

Migrate(c, v) ==
    IF v \in {6, 7} THEN applyRobotMotionProfile(c)
    ELSE IF v \in {3, 4, 5, 8} THEN applyRobotKinematicsProfile(c)
    ELSE c

----------------------------------------------------------------------------
\* Serialisation

Blocks(c, v) ==
    <<c.name, c.links, c.geometry, FlattenSeq(c.legs), FlattenSeq(c.servos), c.gait,
      IF HasChannels(v) THEN FlattenSeq(c.channels) ELSE <<>>,
      IF HasBody(v) THEN c.body ELSE <<>>,
      FlattenSeq(c.feet), <<c.features>>>>

\* the payload that firmware of version v writes
serializeRobotConfig(c, v) ==
    Put(v, 2) \o FlattenSeq([i \in 1..10 |-> PutAll(Blocks(c, v)[i], Layout(v)[i])])

\* n structures of size fields each
Group(vs, n, size) == [i \in 1..n |-> [j \in 1..size |-> vs[(i - 1) * size + j]]]

KnownForm(b) ==
    /\ Len(b) >= 2
    /\ GetAt(b, 0, 2) \in 3..CurrentVersion
    /\ Len(b) = PayloadSize(GetAt(b, 0, 2))

deserializeRobotConfig(b) ==
    LET v == GetAt(b, 0, 2)
        lay == Layout(v)
        start(i) == 2 + FoldSeq(LAMBDA ks, n : Size(ks) + n, 0, SubSeq(lay, 1, i - 1))
        block(i) == GetAll(b, start(i), lay[i])
        raw == [name |-> [block(1) EXCEPT ![NameLen] = 0],
                links |-> block(2), geometry |-> block(3),
                legs |-> Group(block(4), NumLegs, 4),
                servos |-> Group(block(5), NumServos, 7),
                gait |-> block(6),
                channels |-> IF HasChannels(v) THEN Group(block(7), NumChannels, 10)
                             ELSE defaultRcInputCalibration,
                body |-> IF HasBody(v) THEN block(8) ELSE defaultBodyCommandLimits,
                feet |-> Group(block(9), NumFeet, 5),
                features |-> block(10)[1]]
    IN  Migrate(raw, v)

----------------------------------------------------------------------------
\* Validation

Distinct(f) == \A i, j \in DOMAIN f : i # j => f[i] # f[j]

validateRcInputCalibration(chs) ==
    /\ \A i \in DOMAIN chs :
         LET c == chs[i]
         IN  /\ c[1] \in 1..NumChannels
             /\ c[2] = TypeOf(c[1])
             /\ c[6] <= 1 /\ c[7] <= MaxDeadband /\ c[9] <= MaxTau /\ c[10] <= MaxDebounce
             /\ c[3] < c[5] /\ c[4] \in c[3]..c[5]
             /\ c[2] = 0 => c[4] # c[3] /\ c[4] # c[5]
    /\ Distinct([i \in DOMAIN chs |-> chs[i][1]])

validateBodyCommandLimits(b) ==
    \A i \in 1..14 :
        b[i] > 0 /\ b[i] <= IF i <= 4 THEN MaxScale ELSE IF i <= 10 THEN MaxAccel ELSE MaxRate

Sq(x) == x * x

\* the home foot lies in the annulus that femur and tibia reach
HomeIsReachable(c) ==
    LET d == Sq(c.geometry[1] - c.links[1]) + Sq(c.geometry[2])
    IN  d >= Sq(c.links[2] - c.links[3]) /\ d <= Sq(c.links[2] + c.links[3])

ServosAreDistinct(ss) ==
    /\ Distinct([i \in DOMAIN ss |-> ss[i][1]])
    /\ Distinct([i \in DOMAIN ss |-> <<ss[i][2], ss[i][3]>>])

ValidServo(s) ==
    /\ s[1] \in 1..MaxId
    /\ s[2] < NumLegs /\ s[3] < JointsPerLeg
    /\ s[4] \in {1, -1}
    /\ s[6] < s[7] /\ s[7] <= MaxTick

ValidFoot(f) == f[5] # 0 => f[2] # 0 /\ f[3] # 0 /\ f[4] # 0 /\ f[4] >= f[3]

validateRobotConfig(c) ==
    /\ \A i \in 1..3 : c.links[i] # 0
    /\ c.geometry[1] # 0
    /\ HomeIsReachable(c)
    /\ c.gait[6] <= 5
    /\ c.gait[1] \in HeightRange
    /\ c.gait[2] <= MaxStride /\ c.gait[3] <= MaxStep
    /\ validateRcInputCalibration(c.channels)
    /\ validateBodyCommandLimits(c.body)
    /\ c.features <= KnownFeatures
    /\ \A i \in DOMAIN c.servos : ValidServo(c.servos[i])
    /\ ServosAreDistinct(c.servos)
    /\ \A f \in DOMAIN c.feet : ValidFoot(c.feet[f])

----------------------------------------------------------------------------
SchemaInit ==
    /\ written \in Candidates
    /\ version \in 3..CurrentVersion
    /\ payload = serializeRobotConfig(written, version)
    /\ loaded = <<>>

\* storage returns fewer bytes, or more, or another version's number
Damage ==
    /\ loaded = <<>>
    /\ payload = serializeRobotConfig(written, version)
    /\ \/ payload' = SubSeq(payload, 1, Len(payload) - 1)
       \/ payload' = payload \o <<0>>
       \/ payload' = <<1>>
       \/ \E v \in {2, 3, CurrentVersion + 1} : payload' = Put(v, 2) \o SubSeq(payload, 3, Len(payload))
    /\ UNCHANGED <<written, version, loaded>>

Load ==
    /\ loaded = <<>>
    /\ loaded' = IF KnownForm(payload)
                 THEN LET c == deserializeRobotConfig(payload)
                      IN  <<[cfg |-> c, valid |-> validateRobotConfig(c)]>>
                 ELSE <<[cfg |-> ZeroConfig, valid |-> FALSE]>>
    /\ UNCHANGED <<written, version, payload>>

SchemaNext == Damage \/ Load

Intact == payload = serializeRobotConfig(written, version)
Accepted == loaded # <<>> /\ loaded[1].valid

(***************************************************************************)
(* What this firmware writes it reads back: every field keeps its value and *)
(* its sign, and the last character of the name is a terminator.            *)
(***************************************************************************)
SavedIsLoaded ==
    loaded # <<>> /\ Intact /\ version = CurrentVersion =>
        loaded[1].cfg = [written EXCEPT !.name = [@ EXCEPT ![NameLen] = 0]]

(***************************************************************************)
(* A migration never erases measured servo calibration ("safety: migration  *)
(* must never silently erase measured calibration"), except from the two    *)
(* versions whose servo map predates the verified hardware.                 *)
(***************************************************************************)
CalibrationSurvives ==
    loaded # <<>> /\ Intact /\ version \notin {6, 7} =>
        loaded[1].cfg.servos = written.servos /\ loaded[1].cfg.feet = written.feet

(***************************************************************************)
(* A configuration whose motion profile, calibration and limits are valid   *)
(* is still valid after it has been read from any older form: an update of  *)
(* the firmware does not leave the robot without a configuration.           *)
(***************************************************************************)
UpdateKeepsConfig ==
    loaded # <<>> /\ Intact /\ validateRobotConfig(written) => loaded[1].valid

(***************************************************************************)
(* A payload of another length or version is not taken for a configuration, *)
(* except where the changed version number names a form of the same size.   *)
(***************************************************************************)
DamagedIsRefused ==
    loaded # <<>> /\ loaded[1].valid =>
        /\ GetAt(payload, 0, 2) \in 3..CurrentVersion
        /\ Len(payload) = PayloadSize(GetAt(payload, 0, 2))

(***************************************************************************)
(* An accepted configuration is one the controller can use: every joint has *)
(* exactly one servo and every servo its own id, and the stance every leg   *)
(* starts from closes the femur-tibia triangle.                             *)
(***************************************************************************)
AcceptedIsUsable ==
    Accepted =>
        LET c == loaded[1].cfg
        IN  /\ \A l \in 0..(NumLegs - 1), j \in 0..(JointsPerLeg - 1) :
                 Cardinality({i \in DOMAIN c.servos : c.servos[i][2] = l /\ c.servos[i][3] = j}) = 1
            /\ Cardinality({c.servos[i][1] : i \in DOMAIN c.servos}) = NumServos
            /\ LET d == Sq(c.geometry[1] - c.links[1]) + Sq(c.geometry[2])
                   a == c.links[2]
                   b == c.links[3]
               \* the cosine of the knee angle is within -1..1
               IN  d - Sq(a) - Sq(b) <= 2 * a * b /\ Sq(a) + Sq(b) - d <= 2 * a * b

(***************************************************************************)
(* A configuration survives storage and firmware updates: what was saved or *)
(* calibrated under any version is what is loaded, damaged forms are       *)
(* refused, and what is accepted the robot can use.                        *)
(***************************************************************************)
ConfigSurvives ==
    /\ SavedIsLoaded /\ CalibrationSurvives /\ UpdateKeepsConfig
    /\ DamagedIsRefused /\ AcceptedIsUsable
=============================================================================
