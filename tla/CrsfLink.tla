------------------------------ MODULE CrsfLink ------------------------------
(***************************************************************************)
(* The serial link to the ExpressLRS receiver: the byte-wise frame parser   *)
(* (input/crsf_parser.cpp) and the downlink scheduler of rcTask, which      *)
(* sends at most one telemetry frame per pass.                              *)
(*                                                                          *)
(* A byte has ByteBits bits.  Every byte string can arrive: noise, truncated *)
(* frames, frames of other types, payloads that contain the sync byte.      *)
(***************************************************************************)
EXTENDS Integers, Sequences, FiniteSets, SequencesExt

CONSTANTS
    ByteBits,              \* 8
    SyncByte,              \* kSyncByte
    TypeRc, TypeStats,     \* kFrameTypeRcChannels, kFrameTypeLinkStats
    RcPayload, StatsPayload, \* kRcPayloadBytes, kLinkStatsPayloadBytes
    MaxFrameLen,           \* kMaxFrameLen
    Poly,                  \* the checksum's polynomial
    StatusPeriod, BoostPeriod, AttitudePeriod, BatteryPeriod, \* kCrsf*PeriodMs
    MaxGap                 \* the longest time between two passes

ByteSize == 2 ^ ByteBits
Byte == 0..(ByteSize - 1)

ASSUME CrsfAssumption ==
    /\ ByteSize \in Nat /\ {SyncByte, TypeRc, TypeStats} \subseteq Byte
    /\ {RcPayload, StatsPayload, MaxFrameLen} \subseteq Nat /\ MaxFrameLen >= RcPayload + 4
    /\ {StatusPeriod, BoostPeriod, AttitudePeriod, BatteryPeriod, MaxGap} \subseteq Nat
    /\ MaxGap < BoostPeriod /\ BoostPeriod <= StatusPeriod /\ 2 * BoostPeriod <= AttitudePeriod

Quiet == MaxFrameLen - 1   \* as long as a false frame can hold the parser

VARIABLES
    parser,   \* state_, buf_[0..idx_), frame_len_
    accepted, \* push returned true for the last byte
    stats,    \* link statistics were decoded from the last byte
    window,   \* the last bytes on the wire, as long as a channel frame
    before,   \* how many bytes without a sync byte preceded the window
    due,      \* the age of each telemetry frame type
    boost,    \* g_radioStatusBoost
    passed    \* frames of other types sent since the battery frame fell due and there was room

crsfVars == <<parser, accepted, stats, window, before, due, boost, passed>>

Reset == [state |-> "Sync", buf |-> <<>>, len |-> 0]

CrsfInit ==
    /\ parser = Reset /\ accepted = FALSE /\ stats = FALSE
    /\ window = <<>> /\ before = Quiet
    /\ due = [status |-> 0, attitude |-> 0, battery |-> 0]
    /\ boost = FALSE /\ passed = 0

-----------------------------------------------------------------------------
\* a XOR b, of the bits below the i-th
Xor(a, b) ==
    LET low[i \in 0 .. ByteBits] ==
            IF i = 0 THEN 0
            ELSE low[i - 1] + ((a \div 2 ^ (i - 1) + b \div 2 ^ (i - 1)) % 2) * 2 ^ (i - 1)
    IN  low[ByteBits]

\* crc8: shift left bit by bit, and divide when the high bit falls out
CrcShift(c) == IF 2 * c >= ByteSize THEN Xor((2 * c) % ByteSize, Poly) ELSE 2 * c
CrcByte(crc, b) == LET shifted[i \in 0 .. ByteBits] == IF i = 0 THEN Xor(crc, b) ELSE CrcShift(shifted[i - 1])
                   IN  shifted[ByteBits]
crc8(s) == FoldLeft(CrcByte, 0, s)

Covered(buf, len) == SubSeq(buf, 3, len + 1)

\* The frame is complete: buf holds sync, length, type, payload and checksum.
Complete(buf, len) ==
    LET good == crc8(Covered(buf, len)) = buf[len + 2]
    IN  /\ accepted' = (good /\ buf[3] = TypeRc /\ len = RcPayload + 2)
        /\ stats' = (good /\ buf[3] = TypeStats /\ len = StatsPayload + 2)

PushLengthStays(b) ==
    IF b < 2 \/ b > MaxFrameLen - 2
    THEN parser' = parser
    ELSE parser' = [state |-> "Data", buf |-> Append(parser.buf, b), len |-> b]
\* An impossible length ends the search: the byte itself is not looked at again.
PushLength(b) ==
    IF b < 2 \/ b > MaxFrameLen - 2
    THEN parser' = Reset
    ELSE parser' = [state |-> "Data", buf |-> Append(parser.buf, b), len |-> b]

Push(b) ==
    \/ /\ parser.state = "Sync"
       /\ parser' = IF b = SyncByte THEN [state |-> "Length", buf |-> <<b>>, len |-> 0] ELSE parser
       /\ accepted' = FALSE /\ stats' = FALSE
    \/ /\ parser.state = "Length"
       /\ PushLength(b)
       /\ accepted' = FALSE /\ stats' = FALSE
    \/ /\ parser.state = "Data" /\ Len(parser.buf) + 1 < 2 + parser.len
       /\ parser' = [parser EXCEPT !.buf = Append(@, b)]
       /\ accepted' = FALSE /\ stats' = FALSE
    \/ /\ parser.state = "Data" /\ Len(parser.buf) + 1 = 2 + parser.len
       /\ Complete(Append(parser.buf, b), parser.len)
       /\ parser' = Reset

\* A byte arrives; window and before only remember the wire.
Receive ==
    \E b \in Byte :
        /\ Push(b)
        /\ window' = IF Len(window) < RcPayload + 4 THEN Append(window, b) ELSE Append(Tail(window), b)
        /\ before' = IF Len(window) < RcPayload + 4 THEN before
                     ELSE IF Head(window) = SyncByte THEN 0
                     ELSE IF before < Quiet THEN before + 1 ELSE Quiet
        /\ UNCHANGED <<due, boost, passed>>

-----------------------------------------------------------------------------
(* rcTask's downlink, while the link is up *)
PeriodOf == [status |-> IF boost THEN BoostPeriod ELSE StatusPeriod,
             attitude |-> AttitudePeriod, battery |-> BatteryPeriod]
Due(type) == due[type] >= PeriodOf[type]

\* One frame per pass: status first, then attitude, then battery.
ChooseFrame(imuFresh, batteryValid) ==
    IF Due("status") THEN "status"
    ELSE IF imuFresh /\ Due("attitude") THEN "attitude"
    ELSE IF batteryValid /\ Due("battery") THEN "battery"
    ELSE "none"

\* A frame the transmit buffer has no room for keeps its age and is tried
\* again in the next pass.
Downlink ==
    \E imuFresh \in BOOLEAN, room \in BOOLEAN, gap \in 1..MaxGap, b \in BOOLEAN :
        LET type == ChooseFrame(imuFresh, TRUE)
            sent == type # "none" /\ room
            age(t) == IF sent /\ t = type THEN 0 ELSE due[t]
        IN  /\ due' = [t \in DOMAIN due |-> LET a == age(t) + gap IN IF a > BatteryPeriod THEN BatteryPeriod ELSE a]
            /\ boost' = b
            /\ passed' = IF ~Due("battery") \/ type = "battery" \/ ~room THEN 0
                         ELSE IF sent THEN passed + 1 ELSE passed
            /\ UNCHANGED <<parser, accepted, stats, window, before>>

CrsfSpec == CrsfInit /\ [][Receive \/ Downlink]_crsfVars

-----------------------------------------------------------------------------
(* Properties *)

GoodRc(w) ==
    /\ Len(w) = RcPayload + 4
    /\ w[1] = SyncByte /\ w[2] = RcPayload + 2 /\ w[3] = TypeRc
    /\ w[Len(w)] = crc8(SubSeq(w, 3, Len(w) - 1))

\* Channels are decoded only from a whole frame: the last bytes on the wire
\* are the sync byte, the length of a channel frame, its type, its payload
\* and the checksum of type and payload, whatever noise came before.
AcceptedIsWhole == accepted => GoodRc(window)

\* Noise cannot wedge the parser: a good frame is decoded when as many bytes
\* without a sync byte came before it as a frame begun by a false sync byte
\* can swallow.
GoodFrameAfterQuiet == (GoodRc(window) /\ before = Quiet) => accepted

\* The one frame per pass is shared: when the battery frame is due and the
\* transmit buffer has room, at most a status, an attitude and another status
\* frame go out before it, also while status frames are boosted.
BatteryIsNotStarved == passed <= 3

(***************************************************************************)
(* The radio link accepts whole frames only and, after a pause, the next   *)
(* good one whatever garbage came before; and its downlink keeps both frame *)
(* kinds alive.                                                            *)
(***************************************************************************)
LinkRecovers == AcceptedIsWhole /\ GoodFrameAfterQuiet /\ BatteryIsNotStarved
=============================================================================
