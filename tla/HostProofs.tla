----------------------------- MODULE HostProofs -----------------------------
(***************************************************************************)
(* Proofs about the host's requests that other tasks carry out later: an    *)
(* acknowledged request takes effect and is not overtaken by an older one,  *)
(* for any number of requests, feet and messages; a maintenance session     *)
(* reports what happened on the bus and replays nothing of an earlier one.  *)
(***************************************************************************)
EXTENDS HostSettings, HostMaintenance, TLAPS

(***************************************************************************)
(* The maps.  What a message decodes to, encoded, decodes to itself: sources *)
(* and tricks were checked and deadbands clipped on the way in.             *)
(***************************************************************************)
AxisType == (0 .. LastSource) \X (0 .. FullScale)
TrickType == (0 .. LastSource) \X (0 .. LastTrick)
MapType == [axes : [1 .. NumAxes -> AxisType], switches : [1 .. NumSwitches -> 0 .. LastSource],
            tricks : [1 .. Slots -> TrickType]]

LEMMA SeqIsFunction == ASSUME NEW S, NEW s \in Seq(S) PROVE Len(s) \in Nat /\ s \in [1 .. Len(s) -> S]
OBVIOUS

LEMMA PairParts == ASSUME NEW S, NEW T, NEW p \in S \X T PROVE p = <<p[1], p[2]>> /\ p[1] \in S /\ p[2] \in T
OBVIOUS

LEMMA Halves == ASSUME NEW i \in Int
                PROVE  (2 * i - 1 + 1) \div 2 = i /\ (2 * i + 1) \div 2 = i /\ (2 * i - 1) % 2 = 1 /\ (2 * i) % 2 # 1
OBVIOUS

LEMMA Layout ==
    /\ NumAxes \in Nat /\ NumSwitches \in Nat /\ Slots \in Nat /\ Slots >= 2 /\ FirstTrick \in Nat
    /\ FirstTrick = 2 * NumAxes + NumSwitches /\ LastSource \in Nat /\ LastTrick \in Nat /\ FullScale \in Nat
    /\ DefaultMap \in MapType
<1>1. /\ NumAxes \in Nat /\ Slots \in Nat /\ Slots >= 2 /\ LastSource \in Nat /\ LastTrick \in Nat /\ FullScale \in Nat
    BY BindingsAssumption
<1>2. DefaultMap.switches \in Seq(0 .. LastSource)
    BY DefaultMapAssumption
<1>3. NumSwitches \in Nat /\ DefaultMap.switches \in [1 .. NumSwitches -> 0 .. LastSource]
    BY <1>2, SeqIsFunction DEF NumSwitches
<1>4. FirstTrick \in Nat /\ FirstTrick = 2 * NumAxes + NumSwitches
    BY <1>1, <1>3 DEF FirstTrick
<1>5. DefaultMap \in MapType
    BY <1>3, DefaultMapAssumption DEF MapType, AxisType, TrickType
<1> QED BY <1>1, <1>3, <1>4, <1>5

\* a message of acceptable length and what it is split into
MapOf(in, n) ==
    [axes |-> [i \in 1 .. NumAxes |-> getAxis(Pairs(in, 0, NumAxes)[i])],
     switches |-> [i \in 1 .. NumSwitches |-> in[2 * NumAxes + i]],
     tricks |-> decodeTricks(Pairs(in, FirstTrick, n))]

Acceptable(in, n) ==
    /\ \A i \in 1 .. NumAxes : Within(in[2 * i - 1], LastSource)
    /\ \A i \in 1 .. NumSwitches : Within(in[2 * NumAxes + i], LastSource)
    /\ \A i \in 1 .. n : Within(in[FirstTrick + 2 * i - 1], LastSource) /\ Within(in[FirstTrick + 2 * i], LastTrick)

LEMMA Decoded ==
    ASSUME NEW in \in Seq(Int), NEW n \in {Slots, Slots - 1}, Len(in) = FirstTrick + 2 * n
    PROVE  decodeBindings(in) = IF Acceptable(in, n) THEN <<MapOf(in, n)>> ELSE <<>>
<1>1. n \in Nat /\ (Len(in) - FirstTrick) \div 2 = n
    BY Layout
<1>2. Len(in) \in {FirstTrick + 2 * Slots, FirstTrick + 2 * (Slots - 1)}
    BY Layout
<1> DEFINE axes == Pairs(in, 0, NumAxes)
           switches == [i \in 1 .. NumSwitches |-> in[2 * NumAxes + i]]
           pairs == Pairs(in, FirstTrick, n)
<1>3. /\ DOMAIN axes = 1 .. NumAxes
      /\ \A i \in 1 .. NumAxes : axes[i][1] = in[0 + 2 * i - 1] /\ 0 + 2 * i - 1 = 2 * i - 1
    BY Layout DEF Pairs
<1>4. DOMAIN switches = 1 .. NumSwitches /\ \A i \in 1 .. NumSwitches : switches[i] = in[2 * NumAxes + i]
    OBVIOUS
<1>5. /\ DOMAIN pairs = 1 .. n
      /\ \A i \in 1 .. n : pairs[i][1] = in[FirstTrick + 2 * i - 1] /\ pairs[i][2] = in[FirstTrick + 2 * i]
    BY DEF Pairs
<1>6. decodeBindings(in) =
        IF /\ \A i \in DOMAIN axes : Within(axes[i][1], LastSource)
           /\ \A i \in DOMAIN switches : Within(switches[i], LastSource)
           /\ \A i \in DOMAIN pairs : Within(pairs[i][1], LastSource) /\ Within(pairs[i][2], LastTrick)
        THEN <<[axes |-> [i \in DOMAIN axes |-> getAxis(axes[i])], switches |-> switches,
                tricks |-> decodeTricks(pairs)]>>
        ELSE <<>>
    BY <1>1, <1>2, Zenon DEF decodeBindings
<1>7. MapOf(in, n) = [axes |-> [i \in DOMAIN axes |-> getAxis(axes[i])], switches |-> switches,
                      tricks |-> decodeTricks(pairs)]
    BY <1>3, Zenon DEF MapOf
<1> HIDE DEF axes, switches, pairs
<1>8. (\A i \in DOMAIN axes : Within(axes[i][1], LastSource))
        <=> \A i \in 1 .. NumAxes : Within(in[2 * i - 1], LastSource)
    <2>1. DOMAIN axes = 1 .. NumAxes /\ \A i \in 1 .. NumAxes : axes[i][1] = in[2 * i - 1]
        BY <1>3
    <2> QED BY <2>1
<1>9. (\A i \in DOMAIN switches : Within(switches[i], LastSource))
        <=> \A i \in 1 .. NumSwitches : Within(in[2 * NumAxes + i], LastSource)
    BY <1>4
<1>10. (\A i \in DOMAIN pairs : Within(pairs[i][1], LastSource) /\ Within(pairs[i][2], LastTrick))
        <=> \A i \in 1 .. n : Within(in[FirstTrick + 2 * i - 1], LastSource) /\ Within(in[FirstTrick + 2 * i], LastTrick)
    BY <1>5
<1> QED BY <1>6, <1>7, <1>8, <1>9, <1>10, Zenon DEF Acceptable

LEMMA DecodedIsMap ==
    ASSUME NEW in \in Seq(Int), decodeBindings(in) # <<>>
    PROVE  \E m \in MapType : decodeBindings(in) = <<m>>
<1>1. PICK n \in {Slots, Slots - 1} : Len(in) = FirstTrick + 2 * n
    BY DEF decodeBindings
<1>2. Acceptable(in, n) /\ decodeBindings(in) = <<MapOf(in, n)>>
    BY <1>1, Decoded
<1>3. \A i \in 1 .. Len(in) : in[i] \in Int
    OBVIOUS
<1>4. n \in Nat /\ Len(in) = FirstTrick + 2 * n
    BY <1>1, Layout
<1>5. \A i \in 1 .. NumAxes : getAxis(Pairs(in, 0, NumAxes)[i]) \in AxisType
    <2> TAKE i \in 1 .. NumAxes
    <2>1. 2 * i - 1 \in 1 .. Len(in) /\ 2 * i \in 1 .. Len(in)
        BY <1>4, Layout
    <2>2. in[2 * i - 1] \in 0 .. LastSource /\ in[2 * i] \in Int
        BY <1>2, <1>3, <2>1, Layout DEF Acceptable, Within
    <2>3. Pairs(in, 0, NumAxes)[i] = <<in[2 * i - 1], in[2 * i]>>
        BY Layout DEF Pairs
    <2> QED BY <2>2, <2>3, Layout DEF getAxis, AxisType
<1>6. \A i \in 1 .. NumSwitches : in[2 * NumAxes + i] \in 0 .. LastSource
    <2> TAKE i \in 1 .. NumSwitches
    <2>1. 2 * NumAxes + i \in 1 .. Len(in)
        BY <1>4, Layout
    <2> QED BY <1>2, <1>3, <2>1, Layout DEF Acceptable, Within
<1> DEFINE pairs == Pairs(in, FirstTrick, n)
<1>7. pairs \in [1 .. n -> TrickType]
    <2> SUFFICES ASSUME NEW i \in 1 .. n
                 PROVE  <<in[FirstTrick + 2 * i - 1], in[FirstTrick + 2 * i]>> \in TrickType
        BY DEF Pairs
    <2>1. FirstTrick + 2 * i - 1 \in 1 .. Len(in) /\ FirstTrick + 2 * i \in 1 .. Len(in)
        BY <1>4, Layout
    <2> QED BY <1>2, <1>3, <2>1, Layout DEF Acceptable, Within, TrickType
<1>8. decodeTricks(pairs) \in [1 .. Slots -> TrickType]
    <2> HIDE DEF pairs
    <2>1. pairs \in Seq(TrickType) /\ Len(pairs) = n
        BY <1>4, <1>7
    <2>2. DefaultMap.tricks \in [1 .. Slots -> TrickType]
        BY Layout DEF MapType
    <2>3. CASE n = Slots
        BY <1>7, <2>1, <2>3 DEF decodeTricks
    <2>4. CASE n = Slots - 1
        BY <1>7, <2>1, <2>2, <2>4, Layout DEF decodeTricks
    <2> QED BY <2>3, <2>4
<1>9. MapOf(in, n) \in MapType
    BY <1>5, <1>6, <1>8 DEF MapOf, MapType
<1> QED BY <1>2, <1>9

LEMMA MapReadsBack == ASSUME NEW m \in MapType PROVE decodeBindings(encodeBindings(m)) = <<m>>
<1> DEFINE e == encodeBindings(m)
           n == FirstTrick + 2 * Slots
<1>c. n \in Nat
    BY Layout
<1>a. \A k \in 1 .. n : e[k] = IF k <= 2 * NumAxes THEN PairField(m.axes, k)
                                ELSE IF k <= FirstTrick THEN m.switches[k - 2 * NumAxes]
                                ELSE PairField(m.tricks, k - FirstTrick)
    BY Zenon DEF encodeBindings
<1>b. DOMAIN e = 1 .. n /\ e = [k \in 1 .. n |-> e[k]]
    BY DEF encodeBindings
<1> HIDE DEF e
<1>1. \A i \in 1 .. NumAxes : e[2 * i - 1] = m.axes[i][1] /\ e[2 * i] = m.axes[i][2]
    <2> TAKE i \in 1 .. NumAxes
    <2>1. 2 * i - 1 \in 1 .. n /\ 2 * i \in 1 .. n /\ 2 * i - 1 <= 2 * NumAxes /\ 2 * i <= 2 * NumAxes
        BY Layout
    <2>2. (2 * i - 1 + 1) \div 2 = i /\ (2 * i + 1) \div 2 = i /\ (2 * i - 1) % 2 = 1 /\ (2 * i) % 2 # 1
        BY Halves, Layout
    <2>3. e[2 * i - 1] = PairField(m.axes, 2 * i - 1) /\ e[2 * i] = PairField(m.axes, 2 * i)
        BY <2>1, <1>a, Layout
    <2> QED BY <2>2, <2>3 DEF PairField
<1>2. \A i \in 1 .. NumSwitches : e[2 * NumAxes + i] = m.switches[i]
    <2> TAKE i \in 1 .. NumSwitches
    <2>1. /\ 2 * NumAxes + i \in 1 .. n /\ ~(2 * NumAxes + i <= 2 * NumAxes) /\ 2 * NumAxes + i <= FirstTrick
          /\ 2 * NumAxes + i - 2 * NumAxes = i
        BY Layout
    <2> QED BY <2>1, <1>a, Layout
<1>3. \A i \in 1 .. Slots : e[FirstTrick + 2 * i - 1] = m.tricks[i][1] /\ e[FirstTrick + 2 * i] = m.tricks[i][2]
    <2> TAKE i \in 1 .. Slots
    <2>1. /\ FirstTrick + 2 * i - 1 \in 1 .. n /\ FirstTrick + 2 * i \in 1 .. n
          /\ ~(FirstTrick + 2 * i - 1 <= FirstTrick) /\ ~(FirstTrick + 2 * i <= FirstTrick)
          /\ ~(FirstTrick + 2 * i - 1 <= 2 * NumAxes) /\ ~(FirstTrick + 2 * i <= 2 * NumAxes)
          /\ FirstTrick + 2 * i - 1 - FirstTrick = 2 * i - 1 /\ FirstTrick + 2 * i - FirstTrick = 2 * i
        BY Layout
    <2>2. (2 * i - 1 + 1) \div 2 = i /\ (2 * i + 1) \div 2 = i /\ (2 * i - 1) % 2 = 1 /\ (2 * i) % 2 # 1
        BY Halves, Layout
    <2>3. e[FirstTrick + 2 * i - 1] = PairField(m.tricks, 2 * i - 1) /\ e[FirstTrick + 2 * i] = PairField(m.tricks, 2 * i)
        BY <2>1, <1>a, Layout
    <2> QED BY <2>2, <2>3 DEF PairField
<1>4. /\ m.axes \in [1 .. NumAxes -> AxisType] /\ m.switches \in [1 .. NumSwitches -> 0 .. LastSource]
      /\ m.tricks \in [1 .. Slots -> TrickType]
      /\ m = [axes |-> m.axes, switches |-> m.switches, tricks |-> m.tricks]
    BY DEF MapType
<1>5. \A i \in 1 .. NumAxes : m.axes[i] = <<m.axes[i][1], m.axes[i][2]>>
                              /\ m.axes[i][1] \in 0 .. LastSource /\ m.axes[i][2] \in 0 .. FullScale
    <2> TAKE i \in 1 .. NumAxes
    <2>1. m.axes[i] \in AxisType
        BY <1>4
    <2> QED BY <2>1, PairParts, Zenon DEF AxisType
<1>6. \A i \in 1 .. Slots : m.tricks[i] = <<m.tricks[i][1], m.tricks[i][2]>>
                            /\ m.tricks[i][1] \in 0 .. LastSource /\ m.tricks[i][2] \in 0 .. LastTrick
    <2> TAKE i \in 1 .. Slots
    <2>1. m.tricks[i] \in TrickType
        BY <1>4
    <2> QED BY <2>1, PairParts, Zenon DEF TrickType
<1>7. e \in Seq(Int) /\ Len(e) = n
    <2>1. \A k \in 1 .. n : e[k] \in Int
        <3> TAKE k \in 1 .. n
        <3>1. CASE k <= 2 * NumAxes
            <4>1. PICK i \in 1 .. NumAxes : k = 2 * i - 1 \/ k = 2 * i
                <5>1. (k + 1) \div 2 \in 1 .. NumAxes /\ (k = 2 * ((k + 1) \div 2) - 1 \/ k = 2 * ((k + 1) \div 2))
                    BY <3>1, Layout
                <5> QED BY <5>1
            <4>2. m.axes[i][1] \in Int /\ m.axes[i][2] \in Int
                BY <1>5, Layout
            <4>3. e[2 * i - 1] \in Int /\ e[2 * i] \in Int
                BY <1>1, <4>2
            <4> QED BY <4>1, <4>3
        <3>2. CASE ~(k <= 2 * NumAxes) /\ k <= FirstTrick
            <4>1. PICK i \in 1 .. NumSwitches : k = 2 * NumAxes + i
                <5>1. k - 2 * NumAxes \in 1 .. NumSwitches /\ k = 2 * NumAxes + (k - 2 * NumAxes)
                    BY <3>2, Layout
                <5> QED BY <5>1
            <4> QED BY <4>1, <1>2, <1>4, Layout
        <3>3. CASE ~(k <= FirstTrick)
            <4>1. PICK i \in 1 .. Slots : k = FirstTrick + 2 * i - 1 \/ k = FirstTrick + 2 * i
                <5> DEFINE d == k - FirstTrick
                <5>0. d \in 1 .. 2 * Slots /\ k = FirstTrick + d
                    BY <3>3, Layout
                <5> HIDE DEF d
                <5>1. (d + 1) \div 2 \in 1 .. Slots /\ (d = 2 * ((d + 1) \div 2) - 1 \/ d = 2 * ((d + 1) \div 2))
                    BY <5>0, Layout
                <5> QED BY <5>0, <5>1, Layout
            <4>2. m.tricks[i][1] \in Int /\ m.tricks[i][2] \in Int
                BY <1>6, Layout
            <4>3. e[FirstTrick + 2 * i - 1] \in Int /\ e[FirstTrick + 2 * i] \in Int
                BY <1>3, <4>2
            <4> QED BY <4>1, <4>3
        <3> QED BY <3>1, <3>2, <3>3, Layout
    <2>3. e \in [1 .. n -> Int]
        BY <2>1, <1>b
    <2> HIDE DEF n
    <2> QED BY <2>3, <1>c
<1>8. decodeBindings(e) = IF Acceptable(e, Slots) THEN <<MapOf(e, Slots)>> ELSE <<>>
    BY <1>7, Layout, Decoded
<1>9. Acceptable(e, Slots)
    <2>1. \A i \in 1 .. NumAxes : Within(e[2 * i - 1], LastSource)
        <3> TAKE i \in 1 .. NumAxes
        <3>1. e[2 * i - 1] = m.axes[i][1] /\ m.axes[i][1] \in 0 .. LastSource
            BY <1>1, <1>5
        <3> QED BY <3>1, Layout DEF Within
    <2>2. \A i \in 1 .. NumSwitches : Within(e[2 * NumAxes + i], LastSource)
        BY <1>2, <1>4, Layout DEF Within
    <2>3. \A i \in 1 .. Slots : Within(e[FirstTrick + 2 * i - 1], LastSource) /\ Within(e[FirstTrick + 2 * i], LastTrick)
        <3> TAKE i \in 1 .. Slots
        <3>1. /\ e[FirstTrick + 2 * i - 1] = m.tricks[i][1] /\ e[FirstTrick + 2 * i] = m.tricks[i][2]
              /\ m.tricks[i][1] \in 0 .. LastSource /\ m.tricks[i][2] \in 0 .. LastTrick
            BY <1>3, <1>6
        <3> QED BY <3>1, Layout DEF Within
    <2> QED BY <2>1, <2>2, <2>3 DEF Acceptable
<1>10. [i \in 1 .. NumAxes |-> getAxis(Pairs(e, 0, NumAxes)[i])] = m.axes
    <2>1. \A i \in 1 .. NumAxes : getAxis(Pairs(e, 0, NumAxes)[i]) = m.axes[i]
        <3> TAKE i \in 1 .. NumAxes
        <3>1. Pairs(e, 0, NumAxes)[i] = <<e[2 * i - 1], e[2 * i]>>
            BY Layout DEF Pairs
        <3>2. Pairs(e, 0, NumAxes)[i] = <<m.axes[i][1], m.axes[i][2]>>
            BY <3>1, <1>1
        <3> QED BY <3>2, <1>5, Layout DEF getAxis
    <2> QED BY <2>1, <1>4
<1>11. [i \in 1 .. NumSwitches |-> e[2 * NumAxes + i]] = m.switches
    BY <1>2, <1>4
<1>12. Pairs(e, FirstTrick, Slots) = m.tricks
    BY <1>3, <1>4, <1>6 DEF Pairs
<1>13. decodeTricks(m.tricks) = m.tricks
    <2>1. Len(m.tricks) = Slots
        BY <1>4, Layout
    <2> QED BY <2>1 DEF decodeTricks
<1>14. MapOf(e, Slots) = m
    BY <1>4, <1>10, <1>11, <1>12, <1>13 DEF MapOf
<1> QED BY <1>8, <1>9, <1>14 DEF e

-----------------------------------------------------------------------------
(***************************************************************************)
(* The bindings.  The slot is never written while rcTask may read it.       *)
(***************************************************************************)
BindInv ==
    /\ LastBindingsWin
    /\ slotValid \in BOOLEAN /\ (pc = "slot" => ~slotValid)
    /\ pending # <<>> => \E m \in MapType : pending = <<m>>
    /\ slot \in MapType /\ active \in MapType /\ published \in MapType

LEMMA BindInvStep == BindInv /\ [BindNext]_bindVars => BindInv'
<1> SUFFICES ASSUME BindInv, [BindNext]_bindVars PROVE BindInv'
    OBVIOUS
<1>1. CASE \E in \in BindMessages : SetBindings(in)
    <2>1. PICK in \in BindMessages : SetBindings(in)
        BY <1>1
    <2> DEFINE d == decodeBindings(in)
    <2>2. /\ IF d # <<>> THEN pending' = d /\ accepted' = d[1] ELSE UNCHANGED <<pending, accepted>>
          /\ pc = "wait" /\ pc' = "frame" /\ UNCHANGED <<slot, slotValid, active, published>>
        BY <2>1 DEF SetBindings
    <2>3. d # <<>> => \E m \in MapType : d = <<m>>
        BY DecodedIsMap, BindingsAssumption
    <2> HIDE DEF d
    <2> QED BY <2>2, <2>3 DEF BindInv, LastBindingsWin
<1>2. CASE OtherFrame
    BY <1>2 DEF OtherFrame, BindInv, LastBindingsWin
<1>3. CASE Stage
    BY <1>3 DEF Stage, BindInv, LastBindingsWin
<1>4. CASE StageFlag
    BY <1>4 DEF StageFlag, BindInv, LastBindingsWin
<1>5. CASE RcAdopts
    BY <1>5 DEF RcAdopts, BindInv, LastBindingsWin
<1>6. CASE UNCHANGED bindVars
    BY <1>6 DEF bindVars, BindInv, LastBindingsWin
<1> QED BY <1>1, <1>2, <1>3, <1>4, <1>5, <1>6 DEF BindNext

(***************************************************************************)
(* For any messages, valid or not, and any interleaving of rcTask with the  *)
(* stores of apiTask: the last map the host was told Ok for is in use or on *)
(* its way, never lost to a full slot nor overtaken, and the map that is    *)
(* reported, sent back, is the map in use, whatever layout it came in       *)
(* (controller_api.cpp and apiTask and rcTask of app/tasks.cpp).            *)
(***************************************************************************)
THEOREM BindingsArrive == BindSpec => [](LastBindingsWin /\ BindingsReadBack)
<1>1. BindInit => BindInv
    BY Layout DEF BindInit, BindInv, LastBindingsWin
<1>2. BindInv => LastBindingsWin /\ BindingsReadBack
    BY MapReadsBack DEF BindInv, BindingsReadBack
<1> QED BY <1>1, <1>2, BindInvStep, PTL DEF BindSpec

-----------------------------------------------------------------------------
(***************************************************************************)
(* The requests.  Counters are compared for equality only, so what carries  *)
(* the proof is their order: a scan that is owed has a count newer than the *)
(* one i2cTask answered and, during a scan, than the one it answers next; a *)
(* foot that is owed a baseline belongs to a newer calibration, or to the   *)
(* one in progress and is still to be captured.                             *)
(***************************************************************************)
RequestTypeOK ==
    /\ requested \in Nat /\ scan \in Nat
    /\ cal \in [seq : Nat, mask : SUBSET Feet]
    /\ i2c \in [pc : {"config", "scan", "scanning", "cal", "mask", "capture", "publish"}, want : Nat,
                scanned : Nat, calibrated : Nat, feet : SUBSET Feet]
    /\ owed \in [scan : BOOLEAN, feet : SUBSET Feet]

CountersOrdered ==
    /\ requested <= MaxAsked /\ scan <= requested /\ cal.seq <= requested
    /\ i2c.scanned <= scan /\ i2c.calibrated <= cal.seq

ScanOwed ==
    /\ i2c.pc = "scanning" => i2c.want <= scan
    /\ owed.scan => i2c.scanned < scan
    /\ owed.scan /\ i2c.pc = "scanning" => i2c.want < scan

CalibrationOwed ==
    /\ owed.feet \subseteq cal.mask
    /\ i2c.pc \in {"mask", "capture"} => i2c.want <= cal.seq
    /\ owed.feet # {} => i2c.calibrated < cal.seq
    /\ owed.feet # {} /\ i2c.pc = "capture" => i2c.want < cal.seq \/ owed.feet \subseteq i2c.feet

RequestInv == RequestTypeOK /\ CountersOrdered /\ ScanOwed /\ CalibrationOwed

LEMMA CountsUp == ASSUME NEW n \in Nat, n < MaxAsked PROVE (n + 1) % CountMod = n + 1
BY RequestsAssumption

LEMMA RequestTypes ==
    ASSUME RequestInv
    PROVE  /\ requested \in Nat /\ scan \in Nat /\ cal.seq \in Nat /\ cal.mask \in SUBSET Feet
           /\ i2c.want \in Nat /\ i2c.scanned \in Nat /\ i2c.calibrated \in Nat /\ i2c.feet \in SUBSET Feet
           /\ owed.scan \in BOOLEAN /\ owed.feet \in SUBSET Feet
BY DEF RequestInv, RequestTypeOK

\* the steps of i2cTask, and of apiTask, that have to do with scans and calibrations
StageStep ==
    \/ I2cScan \/ I2cReadsScan \/ I2cReadsCal \/ I2cReadsMask \/ I2cCaptures
    \/ \E mux \in BOOLEAN, feet \in SUBSET Feet : I2cScanned(mux, feet)
    \/ \E mask \in SUBSET Feet : stageCalibrate(mask)

\* the others leave the counters, or only move i2cTask on
OtherStep ==
    /\ UNCHANGED <<scan, cal, owed>>
    /\ requested' = requested \/ Ask
    /\ \/ UNCHANGED i2c
       \/ I2cAt("config", "scan") \/ I2cAt("publish", "config")

LEMMA NextIsStageOrOther == [RequestsNext]_requestVars => StageStep \/ OtherStep
<1> SUFFICES ASSUME [RequestsNext]_requestVars PROVE StageStep \/ OtherStep
    OBVIOUS
<1>1. CASE SetBodyTwist(1) \/ SetGait("Tripod") \/ StopMotion
    BY <1>1 DEF SetBodyTwist, SetGait, StopMotion, OtherStep, stageVars
<1>2. CASE \E f \in Features, on \in BOOLEAN : FeatureSet(f, on)
    BY <1>2 DEF FeatureSet, FeatureRequest, OtherStep, stageVars
<1>3. CASE (\E on \in BOOLEAN : SensorSwitch(on)) \/ FeatureResetDefaults
    BY <1>3 DEF SensorSwitch, applyFeature, FeatureResetDefaults, FeatureRequest, OtherStep, stageVars
<1>4. CASE CommitConfig \/ SensingAges \/ \E p \in BOOLEAN : ControlCycleRuns(p)
    BY <1>4 DEF CommitConfig, SensingAges, ControlCycleRuns, OtherStep, stageVars
<1>5. CASE I2cStep
    BY <1>5 DEF I2cStep, I2cAppliesConfig, I2cPublishes, StageStep, OtherStep
<1>6. CASE I2cScan
    BY <1>6 DEF StageStep
<1>7. CASE (\E m \in {{x} : x \in Feet} \cup {Feet} : ContactCalibrate(m)) \/ SensorCalibrate
    BY <1>7 DEF ContactCalibrate, SensorCalibrate, StageStep
<1>8. CASE UNCHANGED requestVars
    BY <1>8 DEF requestVars, OtherStep
<1> QED BY <1>1, <1>2, <1>3, <1>4, <1>5, <1>6, <1>7, <1>8 DEF RequestsNext

LEMMA RequestInvStep == RequestInv /\ [RequestsNext]_requestVars => RequestInv'
<1> SUFFICES ASSUME RequestInv, StageStep \/ OtherStep PROVE RequestInv'
    BY NextIsStageOrOther
<1>m. MaxAsked \in Nat /\ CountMod \in Nat
    BY RequestsAssumption
<1>t. /\ requested \in Nat /\ scan \in Nat /\ cal.seq \in Nat /\ cal.mask \in SUBSET Feet
      /\ i2c.want \in Nat /\ i2c.scanned \in Nat /\ i2c.calibrated \in Nat /\ i2c.feet \in SUBSET Feet
      /\ owed.scan \in BOOLEAN /\ owed.feet \in SUBSET Feet
    BY RequestTypes
<1>r. /\ cal \in [seq : Nat, mask : SUBSET Feet]
      /\ i2c \in [pc : {"config", "scan", "scanning", "cal", "mask", "capture", "publish"}, want : Nat,
                  scanned : Nat, calibrated : Nat, feet : SUBSET Feet]
      /\ owed \in [scan : BOOLEAN, feet : SUBSET Feet]
    BY DEF RequestInv, RequestTypeOK
<1>o. CountersOrdered /\ ScanOwed /\ CalibrationOwed
    BY DEF RequestInv
<1>1. CASE OtherStep
    <2>1. UNCHANGED <<scan, cal, owed>>
        BY <1>1 DEF OtherStep
    <2>2. requested' \in Nat /\ requested <= requested' /\ requested' <= MaxAsked
        BY <1>1, <1>t, <1>m, <1>o DEF OtherStep, Ask, CountersOrdered
    <2>3. /\ i2c' \in [pc : {"config", "scan", "scanning", "cal", "mask", "capture", "publish"}, want : Nat,
                       scanned : Nat, calibrated : Nat, feet : SUBSET Feet]
          /\ i2c'.want = i2c.want /\ i2c'.scanned = i2c.scanned /\ i2c'.calibrated = i2c.calibrated
          /\ i2c'.feet = i2c.feet
          /\ i2c'.pc = i2c.pc \/ i2c'.pc \in {"config", "scan"}
        BY <1>1, <1>r DEF OtherStep, I2cAt
    <2> QED BY <1>t, <1>r, <1>m, <1>o, <2>1, <2>2, <2>3
            DEF RequestInv, RequestTypeOK, CountersOrdered, ScanOwed, CalibrationOwed
<1>2. CASE I2cScan
    <2>1. /\ requested < MaxAsked /\ requested' = requested + 1 /\ scan' = (scan + 1) % CountMod
          /\ owed' = [owed EXCEPT !.scan = TRUE] /\ UNCHANGED <<cal, i2c>>
        BY <1>2 DEF I2cScan, Ask
    <2>2. scan' = scan + 1
        BY <2>1, <1>t, <1>o, <1>m, CountsUp DEF CountersOrdered
    <2>3. owed' \in [scan : BOOLEAN, feet : SUBSET Feet] /\ owed'.scan /\ owed'.feet = owed.feet
        BY <2>1, <1>r
    <2> QED BY <1>t, <1>r, <1>m, <1>o, <2>1, <2>2, <2>3
            DEF RequestInv, RequestTypeOK, CountersOrdered, ScanOwed, CalibrationOwed
<1>3. CASE I2cReadsScan
    <2>1. /\ i2c.pc = "scan" /\ UNCHANGED <<requested, scan, cal>>
          /\ i2c' = [i2c EXCEPT !.pc = IF scan # i2c.scanned THEN "scanning" ELSE "cal", !.want = scan]
          /\ owed' = IF scan # i2c.scanned THEN [owed EXCEPT !.scan = FALSE] ELSE owed
        BY <1>3 DEF I2cReadsScan
    <2>2. /\ i2c' \in [pc : {"config", "scan", "scanning", "cal", "mask", "capture", "publish"}, want : Nat,
                       scanned : Nat, calibrated : Nat, feet : SUBSET Feet]
          /\ i2c'.want = scan /\ i2c'.scanned = i2c.scanned /\ i2c'.calibrated = i2c.calibrated
          /\ i2c'.feet = i2c.feet
          /\ i2c'.pc = IF scan # i2c.scanned THEN "scanning" ELSE "cal"
        BY <2>1, <1>r, <1>t
    <2>3. /\ owed' \in [scan : BOOLEAN, feet : SUBSET Feet] /\ owed'.feet = owed.feet
          /\ owed'.scan => owed.scan /\ scan = i2c.scanned
        BY <2>1, <1>r, <1>t
    <2> QED BY <1>t, <1>r, <1>m, <1>o, <2>1, <2>2, <2>3
            DEF RequestInv, RequestTypeOK, CountersOrdered, ScanOwed, CalibrationOwed
<1>4. CASE \E mux \in BOOLEAN, feet \in SUBSET Feet : I2cScanned(mux, feet)
    <2>1. /\ i2c.pc = "scanning" /\ UNCHANGED <<requested, scan, cal, owed>>
          /\ i2c' = [i2c EXCEPT !.pc = "cal", !.scanned = i2c.want]
        BY <1>4 DEF I2cScanned, AnswersOwnCount
    <2>2. /\ i2c' \in [pc : {"config", "scan", "scanning", "cal", "mask", "capture", "publish"}, want : Nat,
                       scanned : Nat, calibrated : Nat, feet : SUBSET Feet]
          /\ i2c'.pc = "cal" /\ i2c'.scanned = i2c.want /\ i2c'.calibrated = i2c.calibrated
        BY <2>1, <1>r, <1>t
    <2> QED BY <1>t, <1>r, <1>m, <1>o, <2>1, <2>2
            DEF RequestInv, RequestTypeOK, CountersOrdered, ScanOwed, CalibrationOwed
<1>5. CASE I2cReadsCal
    <2>1. /\ i2c.pc = "cal" /\ UNCHANGED <<requested, scan, cal, owed>>
          /\ i2c' = [i2c EXCEPT !.pc = IF cal.seq # i2c.calibrated THEN "mask" ELSE "publish", !.want = cal.seq]
        BY <1>5 DEF I2cReadsCal
    <2>2. /\ i2c' \in [pc : {"config", "scan", "scanning", "cal", "mask", "capture", "publish"}, want : Nat,
                       scanned : Nat, calibrated : Nat, feet : SUBSET Feet]
          /\ i2c'.pc \in {"mask", "publish"} /\ i2c'.want = cal.seq
          /\ i2c'.scanned = i2c.scanned /\ i2c'.calibrated = i2c.calibrated
        BY <2>1, <1>r, <1>t
    <2> QED BY <1>t, <1>r, <1>m, <1>o, <2>1, <2>2
            DEF RequestInv, RequestTypeOK, CountersOrdered, ScanOwed, CalibrationOwed
<1>6. CASE I2cReadsMask
    <2>1. /\ i2c.pc = "mask" /\ UNCHANGED <<requested, scan, cal, owed>>
          /\ i2c' = [i2c EXCEPT !.pc = "capture", !.feet = cal.mask]
        BY <1>6 DEF I2cReadsMask
    <2>2. /\ i2c' \in [pc : {"config", "scan", "scanning", "cal", "mask", "capture", "publish"}, want : Nat,
                       scanned : Nat, calibrated : Nat, feet : SUBSET Feet]
          /\ i2c'.pc = "capture" /\ i2c'.want = i2c.want /\ i2c'.feet = cal.mask
          /\ i2c'.scanned = i2c.scanned /\ i2c'.calibrated = i2c.calibrated
        BY <2>1, <1>r, <1>t
    <2> QED BY <1>t, <1>r, <1>m, <1>o, <2>1, <2>2
            DEF RequestInv, RequestTypeOK, CountersOrdered, ScanOwed, CalibrationOwed
<1>7. CASE I2cCaptures
    <2>1. i2c.pc = "capture" /\ UNCHANGED <<requested, scan, cal>>
        BY <1>7 DEF I2cCaptures
    <2>2. CASE i2c.feet = {}
        <3>1. i2c' = [i2c EXCEPT !.pc = "publish", !.calibrated = i2c.want] /\ owed' = owed
            BY <1>7, <2>2 DEF I2cCaptures
        <3>2. /\ i2c' \in [pc : {"config", "scan", "scanning", "cal", "mask", "capture", "publish"}, want : Nat,
                           scanned : Nat, calibrated : Nat, feet : SUBSET Feet]
              /\ i2c'.pc = "publish" /\ i2c'.calibrated = i2c.want /\ i2c'.scanned = i2c.scanned
            BY <3>1, <1>r, <1>t
        <3>3. owed.feet # {} => i2c.want < cal.seq
            BY <2>1, <2>2, <1>o DEF CalibrationOwed
        <3> QED BY <1>t, <1>r, <1>m, <1>o, <2>1, <3>1, <3>2, <3>3
                DEF RequestInv, RequestTypeOK, CountersOrdered, ScanOwed, CalibrationOwed
    <2>3. CASE i2c.feet # {}
        <3>1. PICK x \in i2c.feet : /\ i2c' = [i2c EXCEPT !.feet = @ \ {x}]
                                    /\ owed' = [owed EXCEPT !.feet = @ \ {x}]
            BY <1>7, <2>3 DEF I2cCaptures
        <3>2. /\ i2c' \in [pc : {"config", "scan", "scanning", "cal", "mask", "capture", "publish"}, want : Nat,
                           scanned : Nat, calibrated : Nat, feet : SUBSET Feet]
              /\ i2c'.pc = "capture" /\ i2c'.want = i2c.want /\ i2c'.feet = i2c.feet \ {x}
              /\ i2c'.scanned = i2c.scanned /\ i2c'.calibrated = i2c.calibrated
            BY <2>1, <3>1, <1>r, <1>t
        <3>3. /\ owed' \in [scan : BOOLEAN, feet : SUBSET Feet] /\ owed'.scan = owed.scan
              /\ owed'.feet = owed.feet \ {x}
            BY <3>1, <1>r, <1>t
        <3>4. CalibrationOwed'
            BY <1>t, <1>o, <2>1, <3>2, <3>3 DEF CalibrationOwed
        <3> QED BY <1>t, <1>r, <1>m, <1>o, <2>1, <3>2, <3>3, <3>4
                DEF RequestInv, RequestTypeOK, CountersOrdered, ScanOwed
    <2> QED BY <2>2, <2>3
<1>8. CASE \E mask \in SUBSET Feet : stageCalibrate(mask)
    <2>1. PICK mask \in SUBSET Feet :
              /\ requested < MaxAsked /\ requested' = requested + 1
              /\ cal' = [seq |-> (cal.seq + 1) % CountMod, mask |-> mask]
              /\ owed' = [owed EXCEPT !.feet = mask] /\ UNCHANGED <<scan, i2c>>
        BY <1>8 DEF stageCalibrate, Ask
    <2>2. (cal.seq + 1) % CountMod = cal.seq + 1
        BY <2>1, <1>t, <1>o, <1>m, CountsUp DEF CountersOrdered
    <2>3. cal' \in [seq : Nat, mask : SUBSET Feet] /\ cal'.seq = cal.seq + 1 /\ cal'.mask = mask
        BY <2>1, <2>2, <1>t
    <2>4. owed' \in [scan : BOOLEAN, feet : SUBSET Feet] /\ owed'.scan = owed.scan /\ owed'.feet = mask
        BY <2>1, <1>r
    <2> QED BY <1>t, <1>r, <1>m, <1>o, <2>1, <2>3, <2>4
            DEF RequestInv, RequestTypeOK, CountersOrdered, ScanOwed, CalibrationOwed
<1> QED BY <1>1, <1>2, <1>3, <1>4, <1>5, <1>6, <1>7, <1>8 DEF StageStep

\* An acknowledged stop leaves no twist in the intent, whoever reseeds its gait.
StopInv ==
    /\ intent = [twist |-> intent.twist, gait |-> intent.gait]
    /\ stopped \in BOOLEAN
    /\ stopped => intent.twist = 0

LEMMA StopInvStep ==
    StopInv /\ [RequestsNext]_requestVars
      => StopInv' /\ [stopped /\ driven' # driven => driven' = 0]_requestVars
<1> SUFFICES ASSUME StopInv, [RequestsNext]_requestVars
             PROVE  StopInv' /\ (stopped /\ driven' # driven => driven' = 0)
    OBVIOUS
<1>1. CASE SetBodyTwist(1)
    <2>1. intent' = [intent EXCEPT !.twist = 1] /\ ~stopped' /\ stopped' \in BOOLEAN /\ driven' = driven
        BY <1>1 DEF SetBodyTwist
    <2>2. intent' = [twist |-> intent'.twist, gait |-> intent'.gait]
        BY <2>1 DEF StopInv
    <2> QED BY <2>1, <2>2 DEF StopInv
<1>2. CASE SetGait("Tripod")
    <2>1. intent' = [intent EXCEPT !.gait = "Tripod"] /\ UNCHANGED <<stopped, driven>>
        BY <1>2 DEF SetGait
    <2>2. intent' = [twist |-> intent.twist, gait |-> "Tripod"]
        BY <2>1 DEF StopInv
    <2> QED BY <2>1, <2>2 DEF StopInv
<1>3. CASE StopMotion
    <2>1. intent' = [twist |-> 0, gait |-> "Stand"] /\ stopped' = TRUE /\ driven' = driven
        BY <1>3 DEF StopMotion
    <2> QED BY <2>1 DEF StopInv
<1>4. CASE \E p \in BOOLEAN : ControlCycleRuns(p)
    BY <1>4 DEF ControlCycleRuns, StopInv
<1>5. CASE \E mask \in {{"SensorPolling"}, {"FootContact", "TerrainLeveling"}} : I2cAppliesConfig("Tripod", mask)
    <2>1. /\ intent' = IF revised THEN [intent EXCEPT !.gait = "Tripod"] ELSE intent
          /\ UNCHANGED <<stopped, driven>>
        BY <1>5 DEF I2cAppliesConfig, setDefaults
    <2>2. intent' = [twist |-> intent.twist, gait |-> intent'.gait]
        BY <2>1 DEF StopInv
    <2> QED BY <2>1, <2>2 DEF StopInv
<1>6. CASE UNCHANGED <<intent, stopped, driven>>
    BY <1>6 DEF StopInv
<1> QED BY <1>1, <1>2, <1>3, <1>4, <1>5, <1>6
        DEF RequestsNext, I2cStep, FeatureSet, SensorSwitch, applyFeature, FeatureResetDefaults, FeatureRequest,
            I2cScan, CommitConfig, SensingAges, ContactCalibrate, SensorCalibrate, stageCalibrate, I2cReadsScan,
            I2cReadsCal, I2cReadsMask, I2cCaptures, I2cPublishes, I2cScanned, motionVars, requestVars

\* Only controlTask's refresh changes what is available.
LEMMA ContactPolled ==
    [RequestsNext]_requestVars
      => [available' # available /\ EffectiveOf(desired', available', "FootContact")
            => polling' /\ sensing.fresh /\ sensing.mux]_requestVars
<1> SUFFICES ASSUME [RequestsNext]_requestVars, available' # available,
                    EffectiveOf(desired', available', "FootContact")
             PROVE  polling' /\ sensing.fresh /\ sensing.mux
    OBVIOUS
<1>1. \E p \in BOOLEAN : ControlCycleRuns(p)
    BY DEF RequestsNext, I2cStep, SetBodyTwist, SetGait, StopMotion, FeatureSet, SensorSwitch, applyFeature,
           FeatureResetDefaults, FeatureRequest, I2cScan, CommitConfig, SensingAges, ContactCalibrate,
           SensorCalibrate, stageCalibrate, I2cAppliesConfig, I2cReadsScan, I2cReadsCal, I2cReadsMask, I2cCaptures,
           I2cPublishes, I2cScanned, featureVars, requestVars
<1> DEFINE mux == sensing.fresh /\ sensing.mux
           foot == sensing.fresh /\ sensing.feet # {}
<1>2. /\ desired' = desired /\ available' = AvailableNow(mux, foot)
      /\ polling' = EffectiveOf(desired, available', "SensorPolling")
    BY <1>1 DEF ControlCycleRuns, updateFeatureFlags
<1>3. /\ available'["SensorPolling"] = mux
      /\ available'["FootContact"] = (mux /\ foot /\ desired["SensorPolling"])
    BY <1>2 DEF AvailableNow, Features
<1> QED BY <1>2, <1>3 DEF EffectiveOf

(***************************************************************************)
(* For any number of feet and of requests a counter can tell apart: when    *)
(* i2cTask has answered every request, a scan was started and every foot of *)
(* the latest calibration captured after it was asked for, also when the    *)
(* request came in during another one; an acknowledged stop stays a stop;   *)
(* and foot contact is on only with polled, fresh sensors (motion_api.cpp,  *)
(* feature_api.cpp, sensor_api.cpp; controlTask and i2cTask of tasks.cpp).  *)
(***************************************************************************)
THEOREM RequestsTakeEffect ==
    RequestsSpec => [](ScanAfterRequest /\ CalibrationAfterRequest) /\ StopMeansStill /\ ContactNeedsPolling
<1>1. RequestsInit => RequestInv /\ StopInv
    <2> SUFFICES ASSUME RequestsInit PROVE RequestInv /\ StopInv
        OBVIOUS
    <2>1. /\ cal \in [seq : Nat, mask : SUBSET Feet] /\ cal.seq = 0 /\ cal.mask = {}
        BY DEF RequestsInit
    <2>2. /\ i2c \in [pc : {"config", "scan", "scanning", "cal", "mask", "capture", "publish"}, want : Nat,
                      scanned : Nat, calibrated : Nat, feet : SUBSET Feet]
          /\ i2c.pc = "config" /\ i2c.scanned = 0 /\ i2c.calibrated = 0
        BY DEF RequestsInit
    <2>3. owed \in [scan : BOOLEAN, feet : SUBSET Feet] /\ ~owed.scan /\ owed.feet = {}
        BY DEF RequestsInit
    <2>4. requested = 0 /\ scan = 0 /\ MaxAsked \in Nat
        BY RequestsAssumption DEF RequestsInit
    <2>5. StopInv
        BY DEF RequestsInit, StopInv
    <2> QED BY <2>1, <2>2, <2>3, <2>4, <2>5
            DEF RequestInv, RequestTypeOK, CountersOrdered, ScanOwed, CalibrationOwed
<1>2. RequestInv => ScanAfterRequest /\ CalibrationAfterRequest
    BY RequestTypes DEF RequestInv, ScanOwed, CalibrationOwed, ScanAfterRequest, CalibrationAfterRequest
<1>3. RequestInv /\ StopInv /\ [RequestsNext]_requestVars => (RequestInv /\ StopInv)'
    BY RequestInvStep, StopInvStep
<1>4. RequestInv /\ StopInv /\ [RequestsNext]_requestVars
        => [stopped /\ driven' # driven => driven' = 0]_requestVars
    BY StopInvStep
<1> QED BY <1>1, <1>2, <1>3, <1>4, ContactPolled, PTL DEF RequestsSpec, StopMeansStill, ContactNeedsPolling

(***************************************************************************)
(* The host's settings as the run host checks them: both parts together.    *)
(***************************************************************************)
THEOREM SettingsHold == BindSpec /\ RequestsSpec => SettingsAreCurrent
BY BindingsArrive, RequestsTakeEffect, PTL DEF SettingsAreCurrent

-----------------------------------------------------------------------------
(***************************************************************************)
(* The servo jobs.  A scan in progress owns the slot, so whoever completes  *)
(* under the slot's id completes the job that was accepted under it.        *)
(***************************************************************************)
JobSlots == {"Empty", "Pending", "Running", "Done"}
JobCodes == {"none", "Ok", "BusError", "VerifyFailed", "OutputDisabled", "NotFound"}
QueueType == [slot : JobSlots, id : Nat, next : Nat, req : HostJobs \cup {NoJob}, result : JobCodes]
BusType == [known : Seq(Servos), cached : SUBSET Servos, on : SUBSET Servos,
            reg : [Servos -> [low : Values \cup {0}, high : Values \cup {0}]], released : SUBSET Nat]

JobsTypeOK ==
    /\ queue \in QueueType /\ bus \in BusType
    /\ queue.slot = "Pending" => queue.req \in HostJobs

ScanOwnsSlot == cursor # <<>> => queue.slot = "Running"

JobsInv == JobsTypeOK /\ ScanOwnsSlot /\ PollReturnsOwnResult

\* what a job may do to the bus: registers of one known servo, and only with its torque off
JobEffect(b, c, s) ==
    /\ c \in BusType
    /\ \A x \in Servos \ {s} : c.reg[x] = b.reg[x]
    /\ c.reg[s] # b.reg[s] => s \notin c.on

\* the outcome w of a checked write of v to a register of s
WriteEffect(b, w, s, cell, v) ==
    /\ w.bus \in BusType /\ w.code \in {"BusError", "VerifyFailed", "Ok"}
    /\ \A x \in Servos \ {s} : w.bus.reg[x] = b.reg[x]
    /\ w.bus.on \subseteq b.on
    /\ w.bus.reg[s] # b.reg[s] => s \notin w.bus.on
    /\ w.code = "Ok" => w.bus.reg[s] = [b.reg[s] EXCEPT ![cell] = v]

CellEffect(b, c, s, cell, v, done) ==
    /\ c \in BusType /\ c.on = b.on
    /\ \A x \in Servos \ {s} : c.reg[x] = b.reg[x]
    /\ done => c.reg[s] = [b.reg[s] EXCEPT ![cell] = v]

LEMMA KnownAreServos == ASSUME NEW b \in BusType PROVE Known(b) \subseteq Servos
BY DEF BusType, Known

LEMMA TorqueOffEffect ==
    ASSUME NEW b \in BusType, NEW s \in Servos, NEW f \in Faults
    PROVE  /\ TorqueOff(b, s, f) \in BusType /\ TorqueOff(b, s, f).reg = b.reg
           /\ TorqueOff(b, s, f).on \subseteq b.on
           /\ f.at # "off" => s \notin TorqueOff(b, s, f).on
BY DEF BusType, TorqueOff

LEMMA WriteCellEffect ==
    ASSUME NEW b \in BusType, NEW s \in Servos, NEW f \in Faults, NEW v \in Values, NEW cell \in {"low", "high"}
    PROVE  CellEffect(b, WriteCell(b, s, cell, v, f), s, cell, v, f.at \notin {"refused", "write"})
<1>1. b.reg \in [Servos -> [low : Values \cup {0}, high : Values \cup {0}]]
    BY DEF BusType
<1>2. [b.reg[s] EXCEPT ![cell] = v] \in [low : Values \cup {0}, high : Values \cup {0}]
    <2>1. CASE cell = "low"
        BY <1>1, <2>1
    <2>2. CASE cell = "high"
        BY <1>1, <2>2
    <2> QED BY <2>1, <2>2
<1> DEFINE regs == [b.reg EXCEPT ![s] = [b.reg[s] EXCEPT ![cell] = v]]
           c == WriteCell(b, s, cell, v, f)
<1>3. regs \in [Servos -> [low : Values \cup {0}, high : Values \cup {0}]]
    BY <1>1, <1>2
<1>4. c = b \/ c = [b EXCEPT !.reg = regs]
    BY DEF WriteCell
<1>5. f.at \notin {"refused", "write"} => c = [b EXCEPT !.reg = regs]
    BY DEF WriteCell
<1>6. regs[s] = [b.reg[s] EXCEPT ![cell] = v] /\ \A x \in Servos \ {s} : regs[x] = b.reg[x]
    BY <1>1
<1> HIDE DEF regs, c
<1>7. [b EXCEPT !.reg = regs] \in BusType /\ [b EXCEPT !.reg = regs].on = b.on /\ [b EXCEPT !.reg = regs].reg = regs
    BY <1>3 DEF BusType
<1>8. CellEffect(b, c, s, cell, v, f.at \notin {"refused", "write"})
    BY <1>4, <1>5, <1>6, <1>7 DEF CellEffect
<1> QED BY <1>8 DEF c

LEMMA WriteEepromEffect ==
    ASSUME NEW b \in BusType, NEW s \in Servos, NEW f \in Faults, NEW v \in Values, NEW cell \in {"low", "high"}
    PROVE  WriteEffect(b, WriteEeprom(b, s, cell, v, f), s, cell, v)
<1> DEFINE b1 == TorqueOff(b, s, f)
           c == WriteCell(b1, s, cell, v, f)
           w == WriteEeprom(b, s, cell, v, f)
<1>1. b1 \in BusType /\ b1.reg = b.reg /\ b1.on \subseteq b.on /\ (f.at # "off" => s \notin b1.on)
    BY TorqueOffEffect
<1>2. CellEffect(b1, c, s, cell, v, f.at \notin {"refused", "write"})
    <2> HIDE DEF b1
    <2> QED BY <1>1, WriteCellEffect
<1>3. CASE f.at \in {"off", "check"}
    <2>1. w = [bus |-> b1, code |-> "BusError"]
        BY <1>3 DEF WriteEeprom
    <2> HIDE DEF b1, w
    <2>2. WriteEffect(b, w, s, cell, v)
        BY <2>1, <1>1 DEF WriteEffect
    <2> QED BY <2>2 DEF w
<1>4. CASE f.at \notin {"off", "check"}
    <2>1. w = [bus |-> c, code |-> IF f.at \in {"write", "read"} THEN "BusError"
                                   ELSE IF f.at = "refused" THEN "VerifyFailed" ELSE "Ok"]
        BY <1>4 DEF WriteEeprom
    <2> HIDE DEF b1, c, w
    <2>2. WriteEffect(b, w, s, cell, v)
        BY <2>1, <1>1, <1>2, <1>4 DEF WriteEffect, CellEffect
    <2> QED BY <2>2 DEF w
<1> QED BY <1>3, <1>4

LEMMA SetLimitsEffect ==
    ASSUME NEW b \in BusType, NEW s \in Servos, NEW f \in Faults, NEW g \in Faults, NEW v \in Values,
           NEW r, r = SetLimits(b, s, v, f, g)
    PROVE  /\ JobEffect(b, r.bus, s) /\ r.code \in JobCodes
           /\ r.code = "Ok" => r.bus.reg[s].low = v /\ r.bus.reg[s].high = v
<1> DEFINE low == WriteEeprom(b, s, "low", v, f)
           high == WriteEeprom(low.bus, s, "high", v, g)
<1>1. WriteEffect(b, low, s, "low", v)
    BY WriteEepromEffect
<1>2. WriteEffect(low.bus, high, s, "high", v)
    <2>1. low.bus \in BusType
        BY <1>1 DEF WriteEffect
    <2> HIDE DEF low
    <2> QED BY <2>1, WriteEepromEffect
<1>5. r = [bus |-> high.bus,
           code |-> IF "BusError" \in {low.code, high.code} THEN "BusError"
                    ELSE IF "VerifyFailed" \in {low.code, high.code} THEN "VerifyFailed" ELSE "Ok"]
    BY DEF SetLimits
<1>6. b.reg[s] \in [low : Values \cup {0}, high : Values \cup {0}]
    BY DEF BusType
<1> HIDE DEF low, high
<1>7. JobEffect(b, r.bus, s)
    BY <1>1, <1>2, <1>5 DEF JobEffect, WriteEffect
<1>8. r.code = "Ok" => r.bus.reg[s].low = v /\ r.bus.reg[s].high = v
    <2> SUFFICES ASSUME r.code = "Ok" PROVE r.bus.reg[s].low = v /\ r.bus.reg[s].high = v
        OBVIOUS
    <2>1. low.code = "Ok" /\ high.code = "Ok" /\ r.bus = high.bus
        BY <1>1, <1>2, <1>5 DEF WriteEffect
    <2>2. high.bus.reg[s] = [[b.reg[s] EXCEPT !.low = v] EXCEPT !.high = v]
        BY <2>1, <1>1, <1>2 DEF WriteEffect
    <2> QED BY <2>1, <2>2, <1>6
<1> QED BY <1>5, <1>7, <1>8 DEF JobCodes

LEMMA WriteTorqueEffect ==
    ASSUME NEW b \in BusType, NEW s \in Known(b), NEW f \in Faults, NEW on \in BOOLEAN,
           NEW w, w = WriteTorque(b, s, on, f)
    PROVE  w.bus \in BusType /\ w.bus.reg = b.reg /\ w.code \in JobCodes
<1>1. s \in Servos
    BY KnownAreServos
<1> DEFINE b1 == IF on THEN TorqueOn(b, s, f) ELSE TorqueOff(b, s, f)
           i == IndexOf(b, s)
<1>2. b1 \in BusType /\ b1.reg = b.reg
    BY <1>1 DEF BusType, TorqueOn, TorqueOff
<1>3. i \in DOMAIN b.known
    BY DEF Known, IndexOf
<1>4. i \in Nat
    BY <1>3 DEF BusType
<1> DEFINE b2 == [b1 EXCEPT !.released = IF on THEN @ \ {i} ELSE @ \cup {i}]
<1>5. w = IF f.at \in {"off", "check"} THEN [bus |-> b1, code |-> "BusError"] ELSE [bus |-> b2, code |-> "Ok"]
    BY DEF WriteTorque
<1> HIDE DEF b1, i
<1>6. b2 \in BusType /\ b2.reg = b.reg
    BY <1>2, <1>4 DEF BusType
<1> HIDE DEF b2
<1> QED BY <1>2, <1>5, <1>6 DEF JobCodes

LEMMA HoldAllEffect ==
    ASSUME NEW b \in BusType, NEW f \in Faults, NEW w, w = HoldAll(b, f)
    PROVE  w.bus \in BusType /\ w.bus.reg = b.reg /\ w.code \in JobCodes
BY KnownAreServos DEF HoldAll, BusType, JobCodes

\* a job that is not a scan
LEMMA RunJobEffect ==
    ASSUME NEW b \in BusType, NEW j \in HostJobs, j.type # "Scan", NEW f \in Faults, NEW g \in Faults,
           NEW r, r = RunJob(b, j, f, g)
    PROVE  /\ r.bus \in BusType /\ r.code \in JobCodes
           /\ r.bus.reg # b.reg => j.servo \in Servos /\ JobEffect(b, r.bus, j.servo)
           /\ j.type = "Limits" /\ r.code = "Ok"
                => r.bus.reg[j.servo].low = j.value /\ r.bus.reg[j.servo].high = j.value
<1>1. CASE disabled
    BY <1>1 DEF RunJob, JobCodes
<1>2. CASE ~disabled /\ j.type = "AllOn"
    BY <1>2, HoldAllEffect DEF RunJob
<1>3. CASE ~disabled /\ j.type # "AllOn" /\ j.servo \notin Known(b)
    BY <1>3 DEF RunJob, JobCodes
<1>4. CASE ~disabled /\ j.type # "AllOn" /\ j.servo \in Known(b)
    <2>1. j.type \in {"Release", "Hold", "Limits"} /\ j.servo \in Servos
        BY <1>4, KnownAreServos DEF HostJobs
    <2>2. CASE j.type \in {"Release", "Hold"}
        <3>1. \E on \in BOOLEAN : r = WriteTorque(b, j.servo, on, f)
            BY <1>4, <2>2 DEF RunJob
        <3> QED BY <1>4, <2>2, <3>1, WriteTorqueEffect
    <2>3. CASE j.type = "Limits"
        <3>1. r = SetLimits(b, j.servo, j.value, f, g) /\ j.value \in Values
            BY <1>4, <2>3 DEF RunJob, HostJobs
        <3>2. /\ JobEffect(b, r.bus, j.servo) /\ r.code \in JobCodes
              /\ r.code = "Ok" => r.bus.reg[j.servo].low = j.value /\ r.bus.reg[j.servo].high = j.value
            BY <2>1, <3>1, SetLimitsEffect
        <3> QED BY <2>1, <3>2 DEF JobEffect
    <2> QED BY <2>1, <2>2, <2>3
<1> QED BY <1>1, <1>2, <1>3, <1>4

\* what a step of the jobs may do to the registers, and what an Ok says about them
RegistersKept ==
    \A s \in Servos : bus.reg[s].low # bus'.reg[s].low \/ bus.reg[s].high # bus'.reg[s].high => s \notin bus'.on
OkIsStored ==
    queue.slot = "Pending" /\ queue'.slot = "Done" /\ queue.req.type = "Limits" /\ queue'.result = "Ok"
       => \A c \in {"low", "high"} : bus'.reg[queue.req.servo][c] = queue.req.value

LEMMA JobsStep ==
    JobsInv /\ [JobsNext]_jobVars => JobsInv' /\ RegistersKept /\ OkIsStored
<1> SUFFICES ASSUME JobsInv, [JobsNext]_jobVars PROVE JobsInv' /\ RegistersKept /\ OkIsStored
    OBVIOUS
<1>t. queue \in QueueType /\ bus \in BusType /\ (queue.slot = "Pending" => queue.req \in HostJobs)
    BY DEF JobsInv, JobsTypeOK
<1>i. ScanOwnsSlot /\ PollReturnsOwnResult
    BY DEF JobsInv
<1>1. CASE \E j \in HostJobs : Submit(j)
    <2>1. PICK j \in HostJobs : Submit(j)
        BY <1>1
    <2>2. nextJobId(queue.next) \in Nat
        BY <1>t DEF nextJobId, QueueType
    <2>3. /\ queue.slot \in {"Empty", "Done"} /\ UNCHANGED <<cursor, bus>>
          /\ queue' \in QueueType /\ queue'.slot = "Pending" /\ queue'.req \in HostJobs
        BY <1>t, <2>1, <2>2 DEF Submit, QueueType, JobSlots, JobCodes
    <2> QED BY <1>t, <1>i, <2>3
            DEF JobsInv, JobsTypeOK, ScanOwnsSlot, PollReturnsOwnResult, poll, RegistersKept, OkIsStored
<1>2. CASE LeaveMaintenance \/ NoneClaimed \/ UNCHANGED jobVars
    <2>1. UNCHANGED <<queue, cursor, bus, outcome>>
        BY <1>2 DEF LeaveMaintenance, NoneClaimed, jobVars
    <2> QED BY <1>t, <1>i, <2>1
            DEF JobsInv, JobsTypeOK, ScanOwnsSlot, PollReturnsOwnResult, poll, RegistersKept, OkIsStored
<1>3. CASE ScanBegins
    <2>1. queue' \in QueueType /\ queue'.slot = "Running"
        BY <1>3, <1>t DEF ScanBegins, QueueType, JobSlots
    <2>2. bus' \in BusType /\ bus'.reg = bus.reg
        <3>1. <<>> \in Seq(Servos)
            OBVIOUS
        <3> QED BY <1>3, <1>t, <3>1 DEF ScanBegins, BusType
    <2> QED BY <2>1, <2>2 DEF JobsInv, JobsTypeOK, ScanOwnsSlot, PollReturnsOwnResult, poll, RegistersKept, OkIsStored
<1>4. CASE \E a \in BOOLEAN : ScanAdvances(a)
    <2>1. PICK a \in BOOLEAN : ScanAdvances(a)
        BY <1>4
    <2>2. queue.slot = "Running"
        BY <1>i, <2>1 DEF ScanAdvances, ScanOwnsSlot
    <2>3. bus' \in BusType /\ bus'.reg = bus.reg
        <3>1. CASE a
            <4>1. cursor[1] \in Servos
                BY <2>1, <3>1 DEF ScanAdvances
            <4>2. bus' = [bus EXCEPT !.known = Append(@, cursor[1]),
                                     !.cached = IF cursor[1] \in bus.on THEN @ \cup {cursor[1]} ELSE @]
                BY <2>1, <3>1 DEF ScanAdvances
            <4>3. Append(bus.known, cursor[1]) \in Seq(Servos)
                BY <4>1, <1>t DEF BusType
            <4> QED BY <1>t, <4>1, <4>2, <4>3 DEF BusType
        <3>2. CASE ~a
            BY <1>t, <2>1, <3>2 DEF ScanAdvances
        <3> QED BY <3>1, <3>2
    <2>4. \/ /\ cursor' = <<>> /\ outcome' = IF queue.id = 1 THEN "Ok" ELSE outcome
             /\ queue' = [queue EXCEPT !.slot = "Done", !.result = "Ok", !.req = NoJob]
          \/ UNCHANGED <<queue, outcome>>
        BY <2>1, <2>2 DEF ScanAdvances, complete
    <2>5. /\ queue' \in QueueType /\ queue'.id = queue.id
          /\ \/ cursor' = <<>> /\ queue'.slot = "Done" /\ queue'.result = "Ok" /\ (queue.id = 1 => outcome' = "Ok")
             \/ queue'.slot = "Running"
        BY <1>t, <2>2, <2>4 DEF QueueType, JobSlots, JobCodes
    <2> QED BY <2>2, <2>3, <2>5
            DEF JobsInv, JobsTypeOK, ScanOwnsSlot, PollReturnsOwnResult, poll, RegistersKept, OkIsStored
<1>5. CASE \E f \in Faults, g \in Faults : JobRuns(f, g)
    <2>1. PICK f \in Faults, g \in Faults : JobRuns(f, g)
        BY <1>5
    <2> DEFINE r == RunJob(bus, queue.req, f, g)
    <2>2. /\ cursor = <<>> /\ cursor' = cursor /\ queue.slot = "Pending" /\ queue.req.type # "Scan"
          /\ bus' = r.bus
          /\ queue' = [queue EXCEPT !.slot = "Done", !.result = r.code, !.req = NoJob]
          /\ outcome' = IF queue.id = 1 THEN r.code ELSE outcome
        BY <2>1 DEF JobRuns
    <2>3. queue.req \in HostJobs
        BY <1>t, <2>2
    <2>4. /\ r.bus \in BusType /\ r.code \in JobCodes
          /\ r.bus.reg # bus.reg => queue.req.servo \in Servos /\ JobEffect(bus, r.bus, queue.req.servo)
          /\ queue.req.type = "Limits" /\ r.code = "Ok"
               => r.bus.reg[queue.req.servo].low = queue.req.value /\ r.bus.reg[queue.req.servo].high = queue.req.value
        BY <1>t, <2>2, <2>3, RunJobEffect
    <2> HIDE DEF r
    <2>5. queue' \in QueueType /\ queue'.slot = "Done" /\ queue'.id = queue.id /\ queue'.result = r.code
        BY <1>t, <2>2, <2>4 DEF QueueType, JobSlots
    <2>6. RegistersKept
        BY <2>2, <2>4 DEF RegistersKept, JobEffect
    <2> QED BY <2>2, <2>4, <2>5, <2>6
            DEF JobsInv, JobsTypeOK, ScanOwnsSlot, PollReturnsOwnResult, poll, OkIsStored
<1>6. CASE CycleTail
    <2>1. UNCHANGED <<queue, cursor, outcome>> /\ bus'.reg = bus.reg /\ bus' \in BusType
        BY <1>6, <1>t DEF CycleTail, BusType
    <2> QED BY <1>t, <1>i, <2>1
            DEF JobsInv, JobsTypeOK, ScanOwnsSlot, PollReturnsOwnResult, poll, RegistersKept, OkIsStored
<1> QED BY <1>1, <1>2, <1>3, <1>4, <1>5, <1>6 DEF JobsNext, DxlTask

(***************************************************************************)
(* The targets.  A stored target is at least as new as the session the      *)
(* control cycle last saw start: that cycle cleared the older ones, and a    *)
(* handler cut between its gate check and its stores belongs to the session *)
(* it passed the gate in, or to a session that has ended.                   *)
(***************************************************************************)
TargetsInv ==
    /\ target \in [Sites -> Nat] /\ goals \in [Sites -> Nat] /\ session \in Nat /\ began \in 0..session
    /\ handler # Quiet => handler.session = session
    /\ \A x \in Sites : target[x] # 0 => target[x] >= began
    /\ NoReplayedTargets

LEMMA TargetsInvStep == TargetsInv /\ [TargetsNext]_targetVars => TargetsInv'
<1> SUFFICES ASSUME TargetsInv, [TargetsNext]_targetVars PROVE TargetsInv'
    OBVIOUS
<1>1. CASE AskLock
    BY <1>1 DEF AskLock, TargetsInv, NoReplayedTargets, Quiet
<1>2. CASE Store
    BY <1>2 DEF Store, TargetsInv, NoReplayedTargets
<1>3. CASE LockLapses \/ UNCHANGED targetVars
    BY <1>3 DEF LockLapses, targetVars, TargetsInv, NoReplayedTargets
<1>4. CASE TargetCycle
    <2>1. CASE lock /\ ~authority
        BY <1>4, <2>1 DEF TargetCycle, SessionStart, Cleared, TargetsInv, NoReplayedTargets
    <2>2. CASE ~(lock /\ ~authority)
        <3>1. UNCHANGED <<target, began, session, handler>>
            BY <1>4, <2>2 DEF TargetCycle
        <3>2. goals' = Cleared \/ goals' = [x \in Sites |-> IF x \in Mapped THEN target[x] ELSE 0]
            BY <1>4 DEF TargetCycle
        <3> QED BY <3>1, <3>2 DEF Cleared, TargetsInv, NoReplayedTargets
    <2> QED BY <2>1, <2>2
<1>5. CASE \E r \in Requests : PassGate(r)
    BY <1>5 DEF PassGate, TargetsInv, NoReplayedTargets
<1> QED BY <1>1, <1>2, <1>3, <1>4, <1>5 DEF TargetsNext

(***************************************************************************)
(* For any servos, values, job ids and failures of the bus, and any number  *)
(* of sessions: a poll returns the result of the job it names, EEPROM is    *)
(* written only to a servo that is limp, Ok means stored, and no target of  *)
(* an earlier session moves a joint (dxl_job_api.cpp, runQueuedDxlJob and   *)
(* dxlTask of app/tasks.cpp, maintenance_target_api.cpp).                   *)
(***************************************************************************)
THEOREM SessionsAreHonest == JobsSpec /\ TargetsSpec => MaintenanceIsHonest
<1>1. JobsInit => JobsInv
    <2> SUFFICES ASSUME JobsInit PROVE JobsInv
        OBVIOUS
    <2>1. queue \in QueueType /\ queue.slot = "Empty" /\ cursor = <<>>
        BY DEF JobsInit, QueueType, JobSlots, JobCodes
    <2>2. <<>> \in Seq(Servos) /\ [s \in Servos |-> [low |-> 0, high |-> 0]]
                                   \in [Servos -> [low : Values \cup {0}, high : Values \cup {0}]]
        OBVIOUS
    <2>3. bus \in BusType
        BY <2>2 DEF JobsInit, BusType
    <2> QED BY <2>1, <2>3 DEF JobsInv, JobsTypeOK, ScanOwnsSlot, PollReturnsOwnResult, poll
<1>2. TargetsInit => TargetsInv
    BY DEF TargetsInit, TargetsInv, NoReplayedTargets, Cleared
<1>3. JobsInv /\ TargetsInv => PollReturnsOwnResult /\ NoReplayedTargets
    BY DEF JobsInv, TargetsInv
<1>4. JobsInv /\ [JobsNext]_jobVars
        => [\A s \in Servos : bus.reg[s].low # bus'.reg[s].low \/ bus.reg[s].high # bus'.reg[s].high
              => s \notin bus'.on]_jobVars
    BY JobsStep DEF RegistersKept
<1>5. JobsInv /\ [JobsNext]_jobVars
        => [/\ queue.slot = "Pending" /\ queue'.slot = "Done" /\ queue.req.type = "Limits" /\ queue'.result = "Ok"
            => \A c \in {"low", "high"} : bus'.reg[queue.req.servo][c] = queue.req.value]_jobVars
    BY JobsStep DEF OkIsStored
<1>6. JobsInv /\ [JobsNext]_jobVars => JobsInv'
    BY JobsStep
<1> QED BY <1>1, <1>2, <1>3, <1>4, <1>5, <1>6, TargetsInvStep, PTL
        DEF JobsSpec, TargetsSpec, MaintenanceIsHonest, EepromOnlyWhenLimp, OkMeansStored
======================================================================
