---------------------------- MODULE ConfigProofs ----------------------------
(***************************************************************************)
(* Proofs about the configuration journal (ConfigStore) and the commit     *)
(* mailbox in front of it (ConfigCommit), for any payloads, payload        *)
(* length, file limit and number of faults.                                *)
(***************************************************************************)
EXTENDS ConfigCommit, WellFoundedInduction, TLAPS

LEMMA LeastNatural == ASSUME NEW S \in SUBSET Nat, S # {} PROVE \E m \in S : \A n \in S : m <= n
<1> DEFINE R == OpToRel(<, Nat)
<1>1. IsWellFoundedOn(R, Nat)
    BY NatLessThanWellFounded
<1>2. \A a, b \in Nat : <<a, b>> \in R <=> a < b
    BY DEF OpToRel
<1> HIDE DEF R
<1>3. PICK x \in S : \A y \in S : ~ (<<y, x>> \in R)
    BY <1>1, WFMin, Zenon
<1>4. \A y \in S : ~(y < x)
    BY <1>2, <1>3, Zenon
<1>5. \A y \in S : x <= y
    BY <1>4
<1> QED BY <1>5

(* Induction over a range: upwards ...                                        *)
LEMMA UpRange ==
    ASSUME NEW M \in Nat, NEW S, 0 \in S, \A k \in Nat : k < M /\ k \in S => k + 1 \in S
    PROVE  \A k \in 0 .. M : k \in S
<1> SUFFICES ASSUME NEW k \in 0 .. M, k \notin S PROVE FALSE
    OBVIOUS
<1> DEFINE T == {n \in 0 .. M : n \notin S}
<1>1. T \in SUBSET Nat /\ T # {}
    OBVIOUS
<1>2. PICK m \in T : \A n \in T : m <= n
    BY <1>1, LeastNatural
<1>3. m # 0 /\ m - 1 \in Nat /\ m - 1 < M /\ m - 1 \notin T
    BY <1>2
<1>4. m - 1 \in S
    BY <1>2, <1>3
<1> QED BY <1>2, <1>3, <1>4

(* ... and downwards, from all larger values                                  *)
LEMMA DownRange ==
    ASSUME NEW L \in Nat, NEW S, \A o \in 1 .. L : (\A x \in o + 1 .. L : x \in S) => o \in S
    PROVE  \A o \in 1 .. L : o \in S
<1> SUFFICES ASSUME NEW z \in 1 .. L, z \notin S PROVE FALSE
    OBVIOUS
<1> DEFINE T == {n \in 0 .. L - 1 : L - n \notin S}
<1>1. T \in SUBSET Nat
    OBVIOUS
<1>2. T # {}
    <2>1. L - z \in 0 .. L - 1 /\ L - (L - z) = z
        OBVIOUS
    <2> QED BY <2>1
<1>3. PICK m \in T : \A n \in T : m <= n
    BY <1>1, <1>2, LeastNatural
<1>4. L - m \in 1 .. L /\ L - m \notin S
    BY <1>3
<1>5. ASSUME NEW x \in (L - m) + 1 .. L PROVE x \in S
    <2>1. L - x \in 0 .. L - 1 /\ L - (L - x) = x /\ L - x < m
        BY <1>3, <1>4
    <2>2. L - x \notin T
        BY <1>3, <2>1
    <2> QED BY <2>1, <2>2
<1> QED BY <1>4, <1>5

-----------------------------------------------------------------------------
Contents == AllPayloads \cup {NoPayload}
Units == [kind : {"header", "payload", "trailer", "junk", "half"}, seq : Nat, payload : Contents, at : Nat]
Records == [seq : Nat, payload : Contents]

LEMMA RecordSize == RecordLen \in Nat /\ RecordLen >= 3 /\ PayloadLen \in Nat /\ PayloadLen >= 1 /\ RecordLen = PayloadLen + 2
BY StoreAssumption DEF RecordLen

LEMMA FileFacts ==
    ASSUME NEW f \in Seq(Units)
    PROVE  /\ Len(f) \in Nat /\ DOMAIN f = 1 .. Len(f)
           /\ \A i \in 1 .. Len(f) : f[i] \in Units /\ f[i].seq \in Nat /\ f[i].payload \in Contents
<1>1. Len(f) \in Nat /\ DOMAIN f = 1 .. Len(f) /\ \A i \in 1 .. Len(f) : f[i] \in Units
    OBVIOUS
<1>2. \A u \in Units : u.seq \in Nat /\ u.payload \in Contents
    BY DEF Units
<1> QED BY <1>1, <1>2

(* What is kept from o on depends on what is kept further on only             *)
LEMMA ScanStepLocal ==
    ASSUME NEW f \in Seq(Units), NEW U, NEW g, NEW h, NEW o \in 1 .. Len(f) + RecordLen,
           \A x \in o + 1 .. Len(f) + RecordLen : g[x] = h[x]
    PROVE  ScanStep(f, U, g, o) = ScanStep(f, U, h, o)
<1>1. Len(f) \in Nat /\ RecordLen \in Nat /\ RecordLen >= 3
    BY FileFacts, RecordSize
<1>2. CASE Len(f) - (o - 1) < 2
    BY <1>2 DEF ScanStep
<1>3. CASE ~(Len(f) - (o - 1) < 2)
    <2>1. o + 1 \in o + 1 .. Len(f) + RecordLen /\ o + RecordLen \in o + 1 .. Len(f) + RecordLen
        BY <1>1, <1>3
    <2>2. g[o + 1] = h[o + 1] /\ g[o + RecordLen] = h[o + RecordLen]
        BY <2>1
    <2> QED BY <2>2 DEF ScanStep
<1> QED BY <1>2, <1>3

(* The recursion of scan() has a solution, so that it can be unfolded.        *)
LEMMA ScanUnfolds ==
    ASSUME NEW f \in Seq(Units), NEW U
    PROVE  \A o \in 1 .. Len(f) + RecordLen : scanFrom(f, U)[o] = ScanStep(f, U, scanFrom(f, U), o)
<1> DEFINE M == Len(f) + RecordLen
           Solved(k) == \E g : \A o \in 1 .. M : o > M - k => g[o] = ScanStep(f, U, g, o)
           S == {k \in Nat : Solved(k)}
<1>0. M \in Nat
    BY FileFacts, RecordSize
<1>1. 0 \in S
    BY <1>0
<1>2. ASSUME NEW k \in Nat, k < M, k \in S PROVE k + 1 \in S
    <2>1. PICK g : \A o \in 1 .. M : o > M - k => g[o] = ScanStep(f, U, g, o)
        BY <1>2
    <2> DEFINE h == [o \in 1 .. M |-> IF o = M - k THEN ScanStep(f, U, g, o) ELSE g[o]]
    <2>2. M - k \in 1 .. M /\ k + 1 \in Nat
        BY <1>0, <1>2
    <2>3. ASSUME NEW o \in 1 .. M, o > M - (k + 1) PROVE h[o] = ScanStep(f, U, h, o)
        <3>1. \A x \in o + 1 .. M : h[x] = g[x]
            BY <1>0, <1>2, <2>2, <2>3
        <3> HIDE DEF h
        <3>2. ScanStep(f, U, h, o) = ScanStep(f, U, g, o)
            BY <3>1, ScanStepLocal
        <3>3. CASE o = M - k
            BY <3>2, <3>3 DEF h
        <3>4. CASE o > M - k
            <4>1. h[o] = g[o]
                BY <1>0, <2>2, <3>4 DEF h
            <4> QED BY <2>1, <3>2, <3>4, <4>1
        <3> QED BY <1>0, <1>2, <2>3, <3>3, <3>4
    <2> HIDE DEF h
    <2> QED BY <2>2, <2>3
<1>3. M \in S
    <2> HIDE DEF S
    <2>1. \A k \in 0 .. M : k \in S
        BY <1>0, <1>1, <1>2, UpRange
    <2> QED BY <1>0, <2>1
<1>4. PICK g : \A o \in 1 .. M : g[o] = ScanStep(f, U, g, o)
    BY <1>0, <1>3
<1> DEFINE Solves(x) == x = [o \in 1 .. M |-> ScanStep(f, U, x, o)]
           h == [o \in 1 .. M |-> g[o]]
<1>5. Solves(h)
    <2>1. ASSUME NEW o \in 1 .. M PROVE h[o] = ScanStep(f, U, h, o)
        <3>1. \A x \in o + 1 .. M : h[x] = g[x]
            BY <1>0
        <3> HIDE DEF h
        <3>2. ScanStep(f, U, h, o) = ScanStep(f, U, g, o)
            BY <3>1, ScanStepLocal
        <3> QED BY <1>4, <3>2 DEF h
    <2> QED BY <2>1
<1>6. scanFrom(f, U) = CHOOSE x : Solves(x)
    BY DEF scanFrom
<1> HIDE DEF h, M
<1>7. Solves(scanFrom(f, U))
    <2> HIDE DEF Solves
    <2> QED BY <1>5, <1>6, Zenon
<1>8. \A o \in 1 .. M : scanFrom(f, U)[o] = ScanStep(f, U, scanFrom(f, U), o)
    BY <1>7
<1> QED BY <1>8 DEF M

LEMMA KeepFacts ==
    ASSUME NEW f \in Seq(Units), NEW U, NEW o \in 1 .. Len(f), NEW rest, rest.seq \in Nat
    PROVE  /\ Keep(f, U, o, rest).seq \in Nat /\ rest.seq <= Keep(f, U, o, rest).seq
           /\ ~(payloadValid(f, U, o) /\ Committed(f, o)) => Keep(f, U, o, rest) = rest
           /\ Keep(f, U, o, rest) = rest \/ Keep(f, U, o, rest).seq = f[o].seq
           /\ payloadValid(f, U, o) /\ Committed(f, o) => f[o].seq <= Keep(f, U, o, rest).seq
<1>1. f[o].seq \in Nat
    BY FileFacts
<1>2. CASE payloadValid(f, U, o) /\ Committed(f, o) /\ f[o].seq >= rest.seq
    BY <1>1, <1>2 DEF Keep
<1>3. CASE ~(payloadValid(f, U, o) /\ Committed(f, o) /\ f[o].seq >= rest.seq)
    BY <1>1, <1>3 DEF Keep
<1> QED BY <1>2, <1>3

LEMMA ScanRecords ==
    ASSUME NEW f \in Seq(Units), NEW U
    PROVE  \A o \in 1 .. Len(f) + RecordLen : scanFrom(f, U)[o] \in Records
<1> DEFINE L == Len(f) + RecordLen
           F == scanFrom(f, U)
           S == {o \in 1 .. L : F[o] \in Records}
<1>0. L \in Nat /\ Len(f) \in Nat /\ RecordLen \in Nat /\ RecordLen >= 3
    BY FileFacts, RecordSize
<1>1. ASSUME NEW o \in 1 .. L, \A x \in o + 1 .. L : x \in S PROVE o \in S
    <2>1. F[o] = ScanStep(f, U, F, o)
        BY ScanUnfolds
    <2>0. NoRecord \in Records
        BY DEF NoRecord, Records, Contents
    <2> HIDE DEF F
    <2>2. CASE Len(f) - (o - 1) < 2
        BY <2>0, <2>1, <2>2 DEF ScanStep
    <2>3. CASE ~(Len(f) - (o - 1) < 2)
        <3>1. o + 1 \in o + 1 .. L /\ o + RecordLen \in o + 1 .. L /\ o \in 1 .. Len(f)
            BY <1>0, <2>3
        <3>2. F[o + 1] \in Records /\ F[o + RecordLen] \in Records
            BY <1>1, <3>1
        <3>3. [seq |-> f[o].seq, payload |-> f[o].payload] \in Records
            BY <3>1, FileFacts DEF Records
        <3>4. Keep(f, U, o, F[o + RecordLen]) \in Records
            BY <3>2, <3>3 DEF Keep
        <3> QED BY <2>0, <2>1, <3>2, <3>4 DEF ScanStep
    <2> QED BY <2>2, <2>3
<1> HIDE DEF S
<1>2. \A o \in 1 .. L : o \in S
    BY <1>0, <1>1, DownRange
<1> QED BY <1>2 DEF S

LEMMA ScanTypes ==
    ASSUME NEW f \in Seq(Units), NEW U
    PROVE  \A o \in 1 .. Len(f) + RecordLen : scanFrom(f, U)[o].seq \in Nat
<1>1. \A r \in Records : r.seq \in Nat
    BY DEF Records
<1> QED BY <1>1, ScanRecords

LEMMA SeenIsRecord == ASSUME NEW q \in Seq(Units), NEW U PROVE seen(q, U).seq \in Nat /\ seen(q, U).payload \in Contents
<1>1. 1 \in 1 .. Len(q) + RecordLen
    BY FileFacts, RecordSize
<1>2. seen(q, U) \in Records
    BY <1>1, ScanRecords DEF seen
<1> QED BY <1>2 DEF Records

(* A scan that cannot read some of the payloads finds nothing newer.          *)
LEMMA SeenIsNoNewer ==
    ASSUME NEW f \in Seq(Units), NEW U
    PROVE  seen(f, U).seq <= scan(f).seq
<1> DEFINE L == Len(f) + RecordLen
           F == scanFrom(f, U)
           G == scanFrom(f, {})
           S == {o \in 1 .. L : F[o].seq <= G[o].seq}
<1>0. L \in Nat /\ Len(f) \in Nat /\ RecordLen \in Nat /\ RecordLen >= 3
    BY FileFacts, RecordSize
<1>1. ASSUME NEW o \in 1 .. L, \A x \in o + 1 .. L : x \in S PROVE o \in S
    <2>1. F[o] = ScanStep(f, U, F, o) /\ G[o] = ScanStep(f, {}, G, o)
        BY ScanUnfolds
    <2>2. \A x \in 1 .. L : F[x].seq \in Nat /\ G[x].seq \in Nat
        BY ScanTypes
    <2>3. NoRecord.seq = 0
        BY DEF NoRecord
    <2> HIDE DEF F, G
    <2>4. CASE Len(f) - (o - 1) < 2
        BY <2>1, <2>3, <2>4 DEF ScanStep
    <2>5. CASE ~(Len(f) - (o - 1) < 2)
        <3>1. o + 1 \in o + 1 .. L /\ o + RecordLen \in o + 1 .. L /\ o \in 1 .. Len(f)
            BY <1>0, <2>5
        <3>2. CASE f[o].kind # "header"
            <4>1. F[o + 1].seq <= G[o + 1].seq
                BY <1>1, <3>1
            <4> QED BY <2>1, <2>5, <3>2, <4>1 DEF ScanStep
        <3>3. CASE f[o].kind = "header" /\ o - 1 + RecordLen > Len(f)
            BY <2>1, <2>3, <2>5, <3>3 DEF ScanStep
        <3>4. CASE f[o].kind = "header" /\ ~(o - 1 + RecordLen > Len(f))
            <4> DEFINE rf == F[o + RecordLen]
                       rg == G[o + RecordLen]
            <4>1. F[o] = Keep(f, U, o, rf) /\ G[o] = Keep(f, {}, o, rg)
                BY <2>1, <2>5, <3>4 DEF ScanStep
            <4>2. rf.seq \in Nat /\ rg.seq \in Nat /\ rf.seq <= rg.seq
                BY <1>0, <1>1, <2>2, <3>1
            <4> HIDE DEF rf, rg
            <4>3a. /\ Keep(f, {}, o, rg).seq \in Nat /\ rg.seq <= Keep(f, {}, o, rg).seq
                   /\ ~(payloadValid(f, {}, o) /\ Committed(f, o)) => Keep(f, {}, o, rg) = rg
                   /\ Keep(f, {}, o, rg) = rg \/ Keep(f, {}, o, rg).seq = f[o].seq
                   /\ payloadValid(f, {}, o) /\ Committed(f, o) => f[o].seq <= Keep(f, {}, o, rg).seq
                BY <3>1, <4>2, KeepFacts, Zenon
            <4>3. /\ rg.seq <= G[o].seq
                  /\ payloadValid(f, {}, o) /\ Committed(f, o) => f[o].seq <= G[o].seq
                BY <4>1, <4>3a
            <4>4a. /\ Keep(f, U, o, rf).seq \in Nat /\ rf.seq <= Keep(f, U, o, rf).seq
                   /\ ~(payloadValid(f, U, o) /\ Committed(f, o)) => Keep(f, U, o, rf) = rf
                   /\ Keep(f, U, o, rf) = rf \/ Keep(f, U, o, rf).seq = f[o].seq
                   /\ payloadValid(f, U, o) /\ Committed(f, o) => f[o].seq <= Keep(f, U, o, rf).seq
                BY <3>1, <4>2, KeepFacts, Zenon
            <4>4. /\ ~(payloadValid(f, U, o) /\ Committed(f, o)) => F[o] = rf
                  /\ F[o] = rf \/ F[o].seq = f[o].seq
                BY <4>1, <4>4a
            <4>5. payloadValid(f, U, o) => payloadValid(f, {}, o)
                BY DEF payloadValid
            <4>6. CASE F[o] = rf
                BY <2>2, <4>2, <4>3, <4>6
            <4>7. CASE F[o] # rf
                BY <4>3, <4>4, <4>5, <4>7
            <4> QED BY <4>6, <4>7
        <3> QED BY <3>2, <3>3, <3>4
    <2> QED BY <2>4, <2>5
<1> HIDE DEF S
<1>2. \A o \in 1 .. L : o \in S
    BY <1>0, <1>1, DownRange
<1>3. 1 \in 1 .. L
    BY <1>0
<1> QED BY <1>2, <1>3 DEF S, scan, seen

-----------------------------------------------------------------------------
(* The file g is f with more units behind it.                                 *)
Longer(g, f) == Len(g) >= Len(f) /\ \A i \in 1 .. Len(f) : g[i] = f[i]

(* A record inside f is the same in g                                         *)
LEMMA SameRecord ==
    ASSUME NEW f \in Seq(Units), NEW g \in Seq(Units), Longer(g, f), NEW o \in 1 .. Len(f), o - 1 + RecordLen <= Len(f)
    PROVE  /\ g[o] = f[o]
           /\ payloadValid(g, {}, o) <=> payloadValid(f, {}, o)
           /\ Committed(g, o) <=> Committed(f, o)
<1>1. /\ Len(f) \in Nat /\ Len(g) \in Nat /\ RecordLen = PayloadLen + 2 /\ PayloadLen \in Nat
    BY FileFacts, RecordSize
<1>2. g[o] = f[o]
    BY DEF Longer
<1>3. ASSUME NEW i \in 1 .. PayloadLen + 1 PROVE g[o + i] = f[o + i]
    <2>1. o + i \in 1 .. Len(f)
        BY <1>1
    <2> QED BY <2>1 DEF Longer
<1>4. payloadValid(g, {}, o) <=> payloadValid(f, {}, o)
    <2>1. \A i \in 1 .. PayloadLen : g[o + i] = f[o + i]
        BY <1>1, <1>3
    <2> QED BY <1>2, <2>1 DEF payloadValid
<1>5. Committed(g, o) <=> Committed(f, o)
    <2>1. PayloadLen + 1 \in 1 .. PayloadLen + 1 /\ o + PayloadLen + 1 = o + (PayloadLen + 1)
        BY <1>1
    <2>2. g[o + PayloadLen + 1] = f[o + PayloadLen + 1]
        BY <1>3, <2>1
    <2> QED BY <1>2, <2>2 DEF Committed
<1> QED BY <1>2, <1>4, <1>5

(* The units of a record, in order                                            *)
RecordUnit(s, p, j) ==
    IF j = 1 THEN Header(s, p) ELSE IF j <= PayloadLen + 1 THEN Chunk(p, j - 1) ELSE Trailer(s)

(* The file g holds a whole record behind its first n units.                  *)
RecordAt(g, n, s, p) == \A j \in 1 .. RecordLen : g[n + j] = RecordUnit(s, p, j)

(* No header whose record the end of the file cuts                            *)
WholeEnd(f) == \A i \in 1 .. Len(f) : f[i].kind = "header" => i - 1 + RecordLen <= Len(f)

(* A record behind a file that ends whole is kept, if its sequence is higher  *)
LEMMA NextRecordIsKept ==
    ASSUME NEW f \in Seq(Units), NEW g \in Seq(Units), Longer(g, f), Len(g) = Len(f) + RecordLen, WholeEnd(f),
           NEW s \in Nat, NEW p, RecordAt(g, Len(f), s, p),
           s > scan(f).seq
    PROVE  scan(g) = [seq |-> s, payload |-> p]
<1> DEFINE n == Len(f)
           F == scanFrom(f, {})
           G == scanFrom(g, {})
           r == [seq |-> s, payload |-> p]
           S == {o \in 1 .. n + 1 : s > F[o].seq => G[o] = r}
<1>0. n \in Nat /\ Len(g) = n + RecordLen /\ RecordLen = PayloadLen + 2 /\ PayloadLen \in Nat /\ PayloadLen >= 1
    BY FileFacts, RecordSize
<1>1. /\ \A o \in 1 .. n + RecordLen : F[o] = ScanStep(f, {}, F, o) /\ F[o].seq \in Nat
      /\ \A o \in 1 .. Len(g) + RecordLen : G[o] = ScanStep(g, {}, G, o) /\ G[o].seq \in Nat
    BY ScanUnfolds, ScanTypes
<1>2. r.seq = s /\ r.payload = p
    OBVIOUS
<1> HIDE DEF F, G, r
<1>3. G[n + 1] = r
    <2>1. g[n + 1] = Header(s, p)
        <3>1. 1 \in 1 .. RecordLen
            BY <1>0
        <3> QED BY <3>1 DEF RecordAt, RecordUnit
    <2>2. g[n + 1].kind = "header" /\ g[n + 1].seq = s /\ g[n + 1].payload = p
        BY <2>1 DEF Header
    <2>3. payloadValid(g, {}, n + 1)
        <3>1. ASSUME NEW i \in 1 .. PayloadLen PROVE g[(n + 1) + i] = Chunk(p, i)
            <4>1. i + 1 \in 1 .. RecordLen /\ i + 1 # 1 /\ i + 1 <= PayloadLen + 1 /\ (i + 1) - 1 = i /\ n + (i + 1) = (n + 1) + i
                BY <1>0
            <4> QED BY <4>1 DEF RecordAt, RecordUnit
        <3> QED BY <2>2, <3>1 DEF payloadValid
    <2>4. Committed(g, n + 1)
        <3>1. /\ RecordLen \in 1 .. RecordLen /\ RecordLen # 1 /\ ~(RecordLen <= PayloadLen + 1)
              /\ n + RecordLen = (n + 1) + PayloadLen + 1
            BY <1>0
        <3>2. g[(n + 1) + PayloadLen + 1] = Trailer(s)
            BY <3>1 DEF RecordAt, RecordUnit
        <3> QED BY <2>2, <3>2 DEF Committed
    <2>5. G[n + 1 + RecordLen] = NoRecord
        <3>1. n + 1 + RecordLen \in 1 .. Len(g) + RecordLen /\ Len(g) - ((n + 1 + RecordLen) - 1) < 2
            BY <1>0
        <3> QED BY <1>1, <3>1 DEF ScanStep
    <2>6. Keep(g, {}, n + 1, NoRecord) = r
        BY <2>2, <2>3, <2>4 DEF Keep, NoRecord, r
    <2>7. /\ n + 1 \in 1 .. Len(g) + RecordLen /\ ~(Len(g) - ((n + 1) - 1) < 2)
          /\ ~((n + 1) - 1 + RecordLen > Len(g))
        BY <1>0
    <2>8. G[n + 1] = ScanStep(g, {}, G, n + 1)
        BY <1>1, <2>7
    <2> QED BY <2>2, <2>5, <2>6, <2>7, <2>8 DEF ScanStep
<1>4. ASSUME NEW o \in 1 .. n + 1, \A x \in o + 1 .. n + 1 : x \in S PROVE o \in S
    <2>1. CASE o = n + 1
        BY <1>3, <2>1
    <2>2. CASE o \in 1 .. n
        <3>0. /\ o \in 1 .. n + RecordLen /\ o \in 1 .. Len(g) + RecordLen /\ o + 1 \in o + 1 .. n + 1
              /\ o + 1 \in 1 .. n + RecordLen /\ ~(Len(g) - (o - 1) < 2)
            BY <1>0, <2>2
        <3>1. F[o] = ScanStep(f, {}, F, o) /\ G[o] = ScanStep(g, {}, G, o) /\ F[o + 1].seq \in Nat
            BY <1>1, <3>0
        <3>2. g[o] = f[o]
            BY <2>2 DEF Longer
        <3>3. CASE f[o].kind # "header"
            <4>1. G[o] = G[o + 1]
                BY <3>0, <3>1, <3>2, <3>3 DEF ScanStep
            <4>2. F[o].seq = F[o + 1].seq
                <5>1. CASE o = n
                    <6>1. n - (o - 1) < 2 /\ n - ((o + 1) - 1) < 2 /\ F[o + 1] = ScanStep(f, {}, F, o + 1)
                        BY <1>0, <1>1, <3>0, <5>1
                    <6> QED BY <3>1, <6>1 DEF ScanStep
                <5>2. CASE o # n
                    <6>1. ~(n - (o - 1) < 2)
                        BY <1>0, <2>2, <5>2
                    <6> QED BY <3>1, <3>3, <6>1 DEF ScanStep
                <5> QED BY <5>1, <5>2
            <4> QED BY <1>4, <3>0, <4>1, <4>2
        <3>4. CASE f[o].kind = "header"
            <4>1. o - 1 + RecordLen <= n
                BY <2>2, <3>4 DEF WholeEnd
            <4>2. /\ o + RecordLen \in o + 1 .. n + 1 /\ o + RecordLen \in 1 .. n + RecordLen /\ ~(n - (o - 1) < 2)
                  /\ ~(o - 1 + RecordLen > n) /\ ~(o - 1 + RecordLen > Len(g)) /\ o \in 1 .. Len(g)
                BY <1>0, <2>2, <4>1
            <4> DEFINE rf == F[o + RecordLen]
                       rg == G[o + RecordLen]
            <4>3. F[o] = Keep(f, {}, o, rf) /\ G[o] = Keep(g, {}, o, rg)
                BY <3>0, <3>1, <3>2, <3>4, <4>2 DEF ScanStep
            <4>4. rf.seq \in Nat /\ (s > rf.seq => rg = r)
                BY <1>1, <1>4, <4>2
            <4> HIDE DEF rf, rg
            <4>5. SUFFICES ASSUME s > F[o].seq PROVE G[o] = r
                OBVIOUS
            <4>6. f[o].seq \in Nat /\ F[o].seq \in Nat
                BY <1>1, <2>2, <3>0, FileFacts
            <4>7a. /\ Keep(f, {}, o, rf).seq \in Nat /\ rf.seq <= Keep(f, {}, o, rf).seq
                   /\ ~(payloadValid(f, {}, o) /\ Committed(f, o)) => Keep(f, {}, o, rf) = rf
                   /\ Keep(f, {}, o, rf) = rf \/ Keep(f, {}, o, rf).seq = f[o].seq
                   /\ payloadValid(f, {}, o) /\ Committed(f, o) => f[o].seq <= Keep(f, {}, o, rf).seq
                BY <2>2, <4>4, KeepFacts, Zenon
            <4>7. /\ rf.seq <= F[o].seq
                  /\ payloadValid(f, {}, o) /\ Committed(f, o) => f[o].seq <= F[o].seq
                BY <4>3, <4>7a
            <4>8. rg = r
                BY <4>4, <4>5, <4>6, <4>7
            <4>9. ~(payloadValid(g, {}, o) /\ Committed(g, o) /\ g[o].seq >= rg.seq)
                <5>1. (payloadValid(g, {}, o) /\ Committed(g, o)) => (payloadValid(f, {}, o) /\ Committed(f, o))
                    BY <2>2, <4>1, SameRecord
                <5>2. rg.seq = s /\ g[o].seq = f[o].seq
                    BY <1>2, <3>2, <4>8
                <5> QED BY <4>5, <4>6, <4>7, <5>1, <5>2
            <4> QED BY <4>3, <4>8, <4>9 DEF Keep
        <3> QED BY <3>3, <3>4
    <2> QED BY <1>0, <2>1, <2>2
<1>5. \A o \in 1 .. n + 1 : o \in S
    <2> HIDE DEF S
    <2>1. n + 1 \in Nat
        BY <1>0
    <2> QED BY <1>4, <2>1, DownRange
<1>6. 1 \in 1 .. n + 1
    BY <1>0
<1> QED BY <1>5, <1>6 DEF scan, seen, F, G, r

(* What a commit leaves behind, whole or torn, shows no sequence above its own *)
LEMMA TailBounds ==
    ASSUME NEW f \in Seq(Units), NEW g \in Seq(Units), Longer(g, f), NEW s \in Nat,
           \A i \in Len(f) + 2 .. Len(g) : g[i].kind # "header",
           Len(g) > Len(f) => /\ g[Len(f) + 1].kind \in {"header", "junk", "half"}
                              /\ g[Len(f) + 1].kind = "header" => g[Len(f) + 1].seq <= s
    PROVE  scan(g).seq <= s \/ scan(g).seq <= scan(f).seq
<1> DEFINE n == Len(f)
           m == Len(g)
           F == scanFrom(f, {})
           G == scanFrom(g, {})
           L == m + RecordLen
           S == {o \in 1 .. L : \/ G[o].seq <= s
                                \/ o <= n /\ G[o].seq <= F[o].seq}
<1>0. /\ n \in Nat /\ m \in Nat /\ m >= n /\ RecordLen = PayloadLen + 2 /\ PayloadLen \in Nat /\ PayloadLen >= 1
      /\ L \in Nat /\ L = m + RecordLen
    BY FileFacts, RecordSize DEF Longer
<1>1. /\ \A o \in 1 .. n + RecordLen : F[o] = ScanStep(f, {}, F, o) /\ F[o].seq \in Nat
      /\ \A o \in 1 .. L : G[o] = ScanStep(g, {}, G, o) /\ G[o].seq \in Nat
    BY ScanUnfolds, ScanTypes
<1>2. NoRecord.seq = 0
    BY DEF NoRecord
<1> HIDE DEF F, G, L
<1>3. ASSUME NEW o \in 1 .. L, \A x \in o + 1 .. L : x \in S PROVE o \in S
    <2>0. G[o] = ScanStep(g, {}, G, o) /\ G[o].seq \in Nat
        BY <1>1
    <2>1. CASE G[o] = NoRecord
        BY <1>2, <2>1
    <2>2. CASE G[o] # NoRecord
        <3>1. ~(m - (o - 1) < 2)
            BY <2>0, <2>2 DEF ScanStep
        <3>2. o \in 1 .. m /\ o + 1 \in o + 1 .. L /\ o + RecordLen \in o + 1 .. L
            BY <1>0, <3>1
        <3>3. CASE g[o].kind # "header"
            <4>1. G[o] = G[o + 1] /\ o + 1 \in S
                BY <1>3, <2>0, <3>1, <3>2, <3>3 DEF ScanStep
            <4>2. CASE G[o + 1].seq <= s
                BY <4>1, <4>2
            <4>3. CASE o + 1 <= n /\ G[o + 1].seq <= F[o + 1].seq
                <5>1. o \in 1 .. n /\ o \in 1 .. n + RecordLen /\ ~(n - (o - 1) < 2) /\ o <= n
                    BY <1>0, <3>2, <4>3
                <5>2. g[o] = f[o] /\ F[o] = ScanStep(f, {}, F, o)
                    BY <1>1, <5>1 DEF Longer
                <5>3. F[o] = F[o + 1]
                    BY <3>3, <5>1, <5>2 DEF ScanStep
                <5> QED BY <4>1, <4>3, <5>1, <5>3
            <4> QED BY <4>1, <4>2, <4>3
        <3>4. CASE g[o].kind = "header"
            <4> DEFINE rg == G[o + RecordLen]
            <4>1. ~(o - 1 + RecordLen > m) /\ G[o] = Keep(g, {}, o, rg)
                BY <2>0, <2>2, <3>1, <3>4 DEF ScanStep
            <4>2. rg.seq \in Nat /\ o + RecordLen \in S
                BY <1>1, <1>3, <3>2
            <4>3. rg.seq <= s \/ (o + RecordLen <= n /\ rg.seq <= F[o + RecordLen].seq)
                BY <4>2
            <4> HIDE DEF rg
            <4>4a. /\ Keep(g, {}, o, rg).seq \in Nat /\ rg.seq <= Keep(g, {}, o, rg).seq
                   /\ ~(payloadValid(g, {}, o) /\ Committed(g, o)) => Keep(g, {}, o, rg) = rg
                   /\ Keep(g, {}, o, rg) = rg \/ Keep(g, {}, o, rg).seq = g[o].seq
                   /\ payloadValid(g, {}, o) /\ Committed(g, o) => g[o].seq <= Keep(g, {}, o, rg).seq
                BY <3>2, <4>2, KeepFacts, Zenon
            <4>4. /\ ~(payloadValid(g, {}, o) /\ Committed(g, o)) => G[o] = rg
                  /\ G[o] = rg \/ G[o].seq = g[o].seq
                BY <4>1, <4>4a
            <4>5. CASE o > n
                <5>1. o = n + 1
                    BY <1>0, <3>2, <3>4, <4>5
                <5>2. g[o].seq <= s
                    BY <1>0, <3>2, <3>4, <5>1
                <5>3. rg.seq <= s
                    BY <1>0, <4>3, <5>1
                <5> QED BY <4>4, <5>2, <5>3
            <4>6. CASE o <= n /\ o - 1 + RecordLen > n
                <5>1. ~(payloadValid(g, {}, o) /\ Committed(g, o))
                    <6> DEFINE i == n + 1 - o
                    <6>1. i \in 1 .. PayloadLen + 1 /\ o + i = n + 1 /\ m > n
                        BY <1>0, <3>2, <4>1, <4>6
                    <6> HIDE DEF i
                    <6>2. g[o + i].kind \in {"header", "junk", "half"}
                        BY <6>1
                    <6>3. CASE i \in 1 .. PayloadLen
                        <7>1. g[o + i] # Chunk(g[o].payload, i)
                            BY <6>2 DEF Chunk
                        <7> QED BY <6>3, <7>1 DEF payloadValid
                    <6>4. CASE i = PayloadLen + 1
                        <7>1. o + PayloadLen + 1 = o + i
                            BY <1>0, <3>2, <6>4
                        <7>2. g[o + PayloadLen + 1] # Trailer(g[o].seq)
                            BY <6>2, <7>1 DEF Trailer
                        <7> QED BY <7>2 DEF Committed
                    <6> QED BY <1>0, <6>1, <6>3, <6>4
                <5>2. ~(o + RecordLen <= n)
                    BY <1>0, <3>2, <4>6
                <5> QED BY <4>3, <4>4, <5>1, <5>2
            <4>7. CASE o <= n /\ ~(o - 1 + RecordLen > n)
                <5> DEFINE rf == F[o + RecordLen]
                <5>1. /\ o \in 1 .. n /\ o \in 1 .. n + RecordLen /\ o + RecordLen \in 1 .. n + RecordLen
                      /\ o - 1 + RecordLen <= n /\ ~(n - (o - 1) < 2)
                    BY <1>0, <3>2, <4>7
                <5>2. g[o] = f[o] /\ ((payloadValid(g, {}, o) /\ Committed(g, o)) => (payloadValid(f, {}, o) /\ Committed(f, o)))
                    BY <5>1, SameRecord
                <5>3. F[o] = ScanStep(f, {}, F, o) /\ F[o].seq \in Nat /\ rf.seq \in Nat
                    BY <1>1, <5>1
                <5>4. F[o] = Keep(f, {}, o, rf)
                    BY <3>4, <4>7, <5>1, <5>2, <5>3 DEF ScanStep
                <5> HIDE DEF rf
                <5>5a. /\ Keep(f, {}, o, rf).seq \in Nat /\ rf.seq <= Keep(f, {}, o, rf).seq
                       /\ ~(payloadValid(f, {}, o) /\ Committed(f, o)) => Keep(f, {}, o, rf) = rf
                       /\ Keep(f, {}, o, rf) = rf \/ Keep(f, {}, o, rf).seq = f[o].seq
                       /\ payloadValid(f, {}, o) /\ Committed(f, o) => f[o].seq <= Keep(f, {}, o, rf).seq
                    BY <5>1, <5>3, KeepFacts, Zenon
                <5>5. /\ rf.seq <= F[o].seq
                      /\ payloadValid(f, {}, o) /\ Committed(f, o) => f[o].seq <= F[o].seq
                    BY <5>4, <5>5a
                <5>6. CASE G[o] = rg
                    BY <4>2, <4>3, <4>7, <5>3, <5>5, <5>6 DEF rf
                <5>7. CASE G[o] # rg
                    BY <4>4, <4>7, <5>2, <5>5, <5>7
                <5> QED BY <5>6, <5>7
            <4> QED BY <1>0, <3>2, <4>5, <4>6, <4>7
        <3> QED BY <3>3, <3>4
    <2> QED BY <2>1, <2>2
<1>4. \A o \in 1 .. L : o \in S
    <2> HIDE DEF S
    <2> QED BY <1>0, <1>3, DownRange
<1>5. 1 \in 1 .. L
    BY <1>0
<1> QED BY <1>4, <1>5 DEF scan, seen, F, G

-----------------------------------------------------------------------------
(* Sequences of units: a prefix, a unit more, a fragment more                 *)
LEMMA Prefix ==
    ASSUME NEW q \in Seq(Units), NEW n \in 0 .. Len(q)
    PROVE  /\ SubSeq(q, 1, n) \in Seq(Units) /\ Len(SubSeq(q, 1, n)) = n
           /\ \A i \in 1 .. n : SubSeq(q, 1, n)[i] = q[i]
BY SMT

LEMMA SameUnits ==
    ASSUME NEW q \in Seq(Units), NEW t \in Seq(Units), Len(q) = Len(t), \A i \in 1 .. Len(q) : q[i] = t[i]
    PROVE  q = t
BY SMT

LEMMA WholePrefix == ASSUME NEW q \in Seq(Units) PROVE SubSeq(q, 1, Len(q)) = q
<1>1. Len(q) \in 0 .. Len(q)
    BY FileFacts
<1> QED BY <1>1, Prefix, SameUnits

LEMMA UnitMore ==
    ASSUME NEW q \in Seq(Units), NEW u \in Units
    PROVE  /\ Append(q, u) \in Seq(Units) /\ Len(Append(q, u)) = Len(q) + 1
           /\ Append(q, u)[Len(q) + 1] = u /\ \A i \in 1 .. Len(q) : Append(q, u)[i] = q[i]
BY SMT

LEMMA FragmentMore ==
    ASSUME NEW q \in Seq(Units), NEW t \in Fragments
    PROVE  /\ q \o t \in Seq(Units) /\ Len(q \o t) \in {Len(q), Len(q) + 1}
           /\ \A i \in 1 .. Len(q) : (q \o t)[i] = q[i]
           /\ Len(q \o t) = Len(q) + 1 => (q \o t)[Len(q) + 1].kind \in {"junk", "half"}
           /\ t = <<>> => q \o t = q
<1>0. Len(q) \in Nat
    BY FileFacts
<1>1. CASE t = <<>>
    <2>1. q \o t = q
        BY <1>1
    <2> QED BY <1>0, <2>1
<1>2. CASE t # <<>>
    <2>1. PICK j \in {Junk, Half} : t = <<j>>
        BY <1>2 DEF Fragments
    <2>2. j \in Units /\ j.kind \in {"junk", "half"}
        BY <2>1 DEF Junk, Half, Units, Contents
    <2>3. q \o t = Append(q, j)
        BY <2>1, <2>2
    <2> QED BY <1>0, <1>2, <2>2, <2>3, UnitMore
<1> QED BY <1>1, <1>2

(* Two prefixes of the same units                                             *)
LEMMA SamePrefix ==
    ASSUME NEW q \in Seq(Units), NEW t \in Seq(Units), Longer(t, q), NEW n \in 0 .. Len(q)
    PROVE  SubSeq(t, 1, n) = SubSeq(q, 1, n)
<1>1. n \in 0 .. Len(t) /\ \A i \in 1 .. n : i \in 1 .. Len(q)
    BY FileFacts DEF Longer
<1>2. \A i \in 1 .. n : t[i] = q[i]
    BY <1>1 DEF Longer
<1> QED BY <1>1, <1>2, Prefix, SameUnits

-----------------------------------------------------------------------------
OpType == [phase : {"header", "payload", "trailer", "sync"}, seq : Nat, payload : Contents, at : 0 .. PayloadLen]

(* Units of the record in progress that are in the file                       *)
Appended ==
    IF op.phase = "payload" THEN op.at
    ELSE IF op.phase = "trailer" THEN PayloadLen + 1
    ELSE IF op.phase = "sync" THEN RecordLen ELSE 0

Base == Len(file) - Appended
Before == SubSeq(file, 1, Base)

(* What the commit in progress has in the file: its record, or garbage if the *)
(* file ended at an odd character                                             *)
Written(j) == IF Odd(Before) THEN Half ELSE RecordUnit(op.seq, op.payload, j)

(* A sequence number that the limit bounds, or what the last scan missed and  *)
(* the commits since then have not made up for                                *)
Within(n, limit) == n <= limit \/ n + streak <= latestSequence + missed

(* Between commits the sequence is at most one behind what a clean scan sees, *)
(* or by what the last scan missed; after a commit that returned true only    *)
(* the latter, and the file ends with its record                              *)
IdleInv ==
    /\ sequenceKnown => Within(scan(file).seq, latestSequence + 1)
    /\ streak >= 1 => /\ synced = Len(file) /\ WholeEnd(file)
                      /\ sequenceKnown => Within(scan(file).seq, latestSequence)

(* During a commit the same holds of the file it was started on               *)
BusyInv ==
    /\ op \in OpType /\ (op.phase = "payload" => op.at >= 1)
    /\ sequenceKnown = TRUE /\ op.seq = latestSequence + 1
    /\ Base \in Nat /\ synced <= Base
    /\ \A j \in 1 .. Appended : file[Base + j] = Written(j)
    /\ Within(scan(Before).seq, op.seq)
    /\ streak >= 1 => synced = Base /\ WholeEnd(Before) /\ Within(scan(Before).seq, latestSequence)

StoreInv ==
    /\ file \in Seq(Units) /\ synced \in 0 .. Len(file) /\ latestSequence \in Nat /\ sequenceKnown \in BOOLEAN
    /\ streak \in Nat /\ missed \in Nat /\ bootBuf \in Contents
    /\ boot \in {"load", "verify"} => op = Idle
    /\ op = Idle => IdleInv
    /\ op # Idle => BusyInv
    /\ SecondCommitSticks

LEMMA ScanIsNatural == ASSUME NEW q \in Seq(Units) PROVE scan(q).seq \in Nat /\ scan(q).payload \in Contents
BY SeenIsRecord DEF scan

LEMMA OpFields ==
    ASSUME NEW o \in OpType
    PROVE  /\ o.phase \in {"header", "payload", "trailer", "sync"} /\ o.seq \in Nat /\ o.payload \in Contents
           /\ o.at \in 0 .. PayloadLen /\ o # Idle
<1>1. o.phase # "idle" /\ Idle.phase = "idle"
    BY DEF OpType, Idle
<1> QED BY <1>1 DEF OpType

LEMMA RecordUnits ==
    ASSUME NEW s \in Nat, NEW p \in Contents, NEW j \in 1 .. RecordLen
    PROVE  /\ RecordUnit(s, p, j) \in Units
           /\ RecordUnit(s, p, j).kind # "half"
           /\ j = 1 => RecordUnit(s, p, j).kind = "header" /\ RecordUnit(s, p, j).seq = s
           /\ j # 1 => RecordUnit(s, p, j).kind # "header"
<1>0. PayloadLen \in Nat /\ RecordLen = PayloadLen + 2
    BY RecordSize
<1>1. Header(s, p) \in Units /\ Header(s, p).kind = "header" /\ Header(s, p).seq = s
    BY DEF Header, Units
<1>2. Trailer(s) \in Units /\ Trailer(s).kind \notin {"header", "half"}
    BY DEF Trailer, Units, Contents
<1>3. ASSUME NEW i \in Nat PROVE Chunk(p, i) \in Units /\ Chunk(p, i).kind \notin {"header", "half"}
    BY DEF Chunk, Units
<1>4. CASE j = 1
    BY <1>1, <1>4 DEF RecordUnit
<1>5. CASE j # 1
    <2>1. j - 1 \in Nat
        BY <1>0
    <2>2. Chunk(p, j - 1) \in Units /\ Chunk(p, j - 1).kind \notin {"header", "half"}
        BY <1>3, <2>1
    <2> QED BY <1>2, <1>5, <2>2 DEF RecordUnit
<1> QED BY <1>4, <1>5

(* Numbers and prefix of the commit in progress                               *)
LEMMA BusyFacts ==
    ASSUME StoreInv, op # Idle
    PROVE  /\ op \in OpType /\ op.seq = latestSequence + 1 /\ latestSequence \in Nat /\ sequenceKnown = TRUE
           /\ Appended \in 0 .. RecordLen /\ Len(file) \in Nat /\ Base \in 0 .. Len(file) /\ Base + Appended = Len(file)
           /\ Before \in Seq(Units) /\ Len(Before) = Base /\ Longer(file, Before)
           /\ synced \in 0 .. Base /\ scan(Before).seq \in Nat /\ Within(scan(Before).seq, op.seq)
           /\ Durable \in Seq(Units) /\ streak \in Nat /\ missed \in Nat
<1>1. /\ op \in OpType /\ op.seq = latestSequence + 1 /\ latestSequence \in Nat /\ sequenceKnown = TRUE /\ file \in Seq(Units)
      /\ Base \in Nat /\ synced <= Base /\ synced \in 0 .. Len(file) /\ Within(scan(Before).seq, op.seq)
      /\ streak \in Nat /\ missed \in Nat
    BY DEF StoreInv, BusyInv
<1>2. Len(file) \in Nat
    BY <1>1, FileFacts
<1>3. Appended \in 0 .. RecordLen
    BY <1>1, OpFields, RecordSize DEF Appended
<1>4. Base \in 0 .. Len(file) /\ Base + Appended = Len(file) /\ synced \in 0 .. Base
    BY <1>1, <1>2, <1>3, RecordSize DEF Base
<1>5. Before \in Seq(Units) /\ Len(Before) = Base /\ \A i \in 1 .. Base : Before[i] = file[i]
    BY <1>1, <1>4, Prefix DEF Before
<1>6. Longer(file, Before)
    BY <1>2, <1>4, <1>5 DEF Longer
<1>7. Durable \in Seq(Units)
    BY <1>1, Prefix DEF Durable
<1> QED BY <1>1, <1>2, <1>3, <1>4, <1>5, <1>6, <1>7, ScanIsNatural

LEMMA OddEnd == ASSUME NEW f \in Seq(Units) PROVE Odd(f) <=> Len(f) # 0 /\ f[Len(f)].kind = "half"
<1>1. f # <<>> <=> Len(f) # 0
    OBVIOUS
<1> QED BY <1>1 DEF Odd

LEMMA WrittenUnits ==
    ASSUME op.seq \in Nat, op.payload \in Contents, NEW j \in 1 .. RecordLen
    PROVE  /\ Written(j) \in Units
           /\ Odd(Before) <=> Written(j).kind = "half"
           /\ j = 1 /\ Written(j).kind = "header" => Written(j).seq = op.seq
           /\ j = 1 => Written(j).kind \in {"header", "half"}
           /\ j # 1 => Written(j).kind # "header"
<1>1. /\ RecordUnit(op.seq, op.payload, j) \in Units /\ RecordUnit(op.seq, op.payload, j).kind # "half"
      /\ j = 1 => RecordUnit(op.seq, op.payload, j).kind = "header" /\ RecordUnit(op.seq, op.payload, j).seq = op.seq
      /\ j # 1 => RecordUnit(op.seq, op.payload, j).kind # "header"
    BY RecordUnits
<1>2. Half \in Units /\ Half.kind = "half"
    BY DEF Half, Units, Contents
<1>3. CASE Odd(Before)
    BY <1>2, <1>3 DEF Written
<1>4. CASE ~Odd(Before)
    BY <1>1, <1>4 DEF Written
<1> QED BY <1>3, <1>4

(* A commit keeps the parity it found                                         *)
LEMMA SameParity ==
    ASSUME StoreInv, op # Idle
    PROVE  Odd(file) <=> Odd(Before)
<1>1. /\ Appended \in 0 .. RecordLen /\ Len(file) \in Nat /\ Base \in 0 .. Len(file) /\ Base + Appended = Len(file)
      /\ Before \in Seq(Units) /\ Len(Before) = Base /\ op \in OpType
    BY BusyFacts
<1>2. file \in Seq(Units) /\ RecordLen \in Nat
    BY RecordSize DEF StoreInv
<1>3. CASE Appended = 0
    <2>1. Base = Len(file)
        BY <1>1, <1>3
    <2> QED BY <1>2, <2>1, WholePrefix DEF Before
<1>4. CASE Appended # 0
    <2>1. Appended \in 1 .. Appended /\ Appended \in 1 .. RecordLen /\ Len(file) # 0
        BY <1>1, <1>2, <1>4
    <2>2. file[Len(file)] = Written(Appended)
        BY <1>1, <2>1 DEF StoreInv, BusyInv
    <2>3. op.seq \in Nat /\ op.payload \in Contents
        BY <1>1, OpFields
    <2>4. Odd(Before) <=> Written(Appended).kind = "half"
        BY <2>1, <2>3, WrittenUnits
    <2> QED BY <1>2, <2>1, <2>2, <2>4, OddEnd
<1> QED BY <1>3, <1>4

(* The units of the commit in progress, whole or torn, are bounded by its sequence *)
LEMMA CommitBounds ==
    ASSUME StoreInv, op # Idle, NEW g \in Seq(Units), Longer(g, file), Len(g) \in {Len(file), Len(file) + 1},
           Len(g) = Len(file) + 1 => g[Len(file) + 1].kind \in {"junk", "half"}
    PROVE  Within(scan(g).seq, op.seq)
<1> DEFINE a == Appended
           b == Base
           n == Len(file)
<1>1. /\ op \in OpType /\ a \in 0 .. RecordLen /\ n \in Nat /\ b \in 0 .. n /\ b + a = n
      /\ Before \in Seq(Units) /\ Len(Before) = b /\ Longer(file, Before)
      /\ scan(Before).seq \in Nat /\ Within(scan(Before).seq, op.seq)
      /\ streak \in Nat /\ missed \in Nat /\ latestSequence \in Nat
    BY BusyFacts
<1>2. op.seq \in Nat /\ op.payload \in Contents /\ RecordLen \in Nat /\ scan(g).seq \in Nat
    BY <1>1, OpFields, RecordSize, ScanIsNatural
<1>3. \A j \in 1 .. a : file[b + j] = Written(j)
    BY DEF StoreInv, BusyInv
<1> HIDE DEF a, b
<1>4. Longer(g, Before)
    <2>1. Len(g) >= n /\ Len(g) \in Nat /\ \A i \in 1 .. n : g[i] = file[i]
        BY FileFacts DEF Longer
    <2> QED BY <1>1, <2>1 DEF Longer
<1>5. ASSUME NEW i \in b + 1 .. Len(g)
      PROVE  /\ i # b + 1 => g[i].kind # "header"
             /\ i = b + 1 => g[i].kind \in {"header", "junk", "half"} /\ (g[i].kind = "header" => g[i].seq <= op.seq)
    <2>1. CASE i <= n
        <3>1. /\ i - b \in 1 .. a /\ i - b \in 1 .. RecordLen /\ b + (i - b) = i /\ i \in 1 .. n
              /\ (i - b = 1 <=> i = b + 1)
            BY <1>1, <1>2, <2>1
        <3>2. g[i] = Written(i - b)
            <4>1. g[i] = file[i]
                BY <3>1 DEF Longer
            <4> QED BY <1>3, <3>1, <4>1
        <3>3. /\ i - b = 1 => g[i].kind \in {"header", "half"} /\ (g[i].kind = "header" => g[i].seq = op.seq)
              /\ i - b # 1 => g[i].kind # "header"
            BY <1>2, <3>1, <3>2, WrittenUnits
        <3> QED BY <1>2, <3>1, <3>3
    <2>2. CASE i > n
        <3>1. i = n + 1 /\ Len(g) = n + 1
            BY <1>1, <2>2
        <3>2. g[i].kind \in {"junk", "half"}
            BY <3>1
        <3> QED BY <3>2
    <2> QED BY <1>1, <2>1, <2>2, FileFacts
<1>6. \A i \in Len(Before) + 2 .. Len(g) : g[i].kind # "header"
    <2>1. \A i \in b + 2 .. Len(g) : i \in b + 1 .. Len(g) /\ i # b + 1
        BY <1>1, FileFacts
    <2> QED BY <1>1, <1>5, <2>1
<1>7. Len(g) > Len(Before) => /\ g[Len(Before) + 1].kind \in {"header", "junk", "half"}
                              /\ g[Len(Before) + 1].kind = "header" => g[Len(Before) + 1].seq <= op.seq
    <2>1. Len(g) > b => b + 1 \in b + 1 .. Len(g)
        BY <1>1, FileFacts
    <2> QED BY <1>1, <1>5, <2>1
<1>8. scan(g).seq <= op.seq \/ scan(g).seq <= scan(Before).seq
    BY <1>1, <1>2, <1>4, <1>6, <1>7, TailBounds
<1> QED BY <1>1, <1>2, <1>8 DEF Within

-----------------------------------------------------------------------------
(* While nothing is written, the file is the one that was scanned             *)
LEMMA IdleFacts ==
    ASSUME StoreInv, op = Idle
    PROVE  /\ IdleInv /\ file \in Seq(Units) /\ Len(file) \in Nat /\ scan(file).seq \in Nat /\ scan(file).payload \in Contents
           /\ latestSequence \in Nat /\ streak \in Nat /\ missed \in Nat /\ synced \in 0 .. Len(file)
<1>1. /\ IdleInv /\ file \in Seq(Units) /\ latestSequence \in Nat /\ streak \in Nat /\ missed \in Nat
      /\ synced \in 0 .. Len(file)
    BY DEF StoreInv
<1> QED BY <1>1, FileFacts, ScanIsNatural

LEMMA ShortBy ==
    ASSUME NEW v \in Nat, NEW l \in Nat, NEW m \in Nat, NEW s \in Nat, v = l + m, s = 0 \/ m = 0
    PROVE  v <= l \/ v + s <= l + m
OBVIOUS

LEMMA OneMore == ASSUME NEW v \in Nat, NEW l \in Nat, v <= l PROVE v <= l + 1
OBVIOUS

(* A scan that succeeds, whatever payloads it could not read                  *)
LEMMA ScannedInv ==
    ASSUME StoreInv, op = Idle, NEW U, Scanned(U), UNCHANGED <<file, synced, confirmed>>
    PROVE  /\ latestSequence' \in Nat /\ sequenceKnown' = TRUE /\ streak' \in Nat /\ missed' \in Nat
           /\ IdleInv' /\ SecondCommitSticks'
<1> DEFINE v == scan(file).seq
           w == seen(file, U).seq
<1>1. /\ IdleInv /\ file \in Seq(Units) /\ v \in Nat /\ streak \in Nat /\ missed \in Nat
    BY IdleFacts
<1>2. w \in Nat /\ w <= v
    BY <1>1, SeenIsRecord, SeenIsNoNewer
<1>3. /\ latestSequence' = w /\ sequenceKnown' = TRUE /\ missed' = v - w
      /\ streak' = IF missed = 0 /\ missed' = 0 THEN streak ELSE 0
    BY DEF Scanned
<1>4. scan(file').seq = v
    OBVIOUS
<1> HIDE DEF v, w
<1>5. /\ missed' \in Nat /\ streak' \in Nat /\ latestSequence' \in Nat /\ v = latestSequence' + missed'
      /\ streak' = 0 \/ (missed' = 0 /\ missed = 0 /\ streak' = streak)
    BY <1>1, <1>2, <1>3
<1>6. Within(v, latestSequence)' /\ Within(v, latestSequence + 1)'
    <2>1. v \in Nat /\ v' = v
        BY <1>1, <1>4 DEF v
    <2>2. streak' = 0 \/ missed' = 0
        BY <1>5
    <2>3. \/ v <= latestSequence'
          \/ v + streak' <= latestSequence' + missed'
        BY <1>5, <2>1, <2>2, ShortBy
    <2>4. v <= latestSequence' => v <= latestSequence' + 1
        BY <1>5, <2>1, OneMore
    <2> QED BY <2>1, <2>3, <2>4 DEF Within
<1>7. IdleInv'
    <2>1. streak' >= 1 => streak >= 1
        BY <1>1, <1>5
    <2>2. streak >= 1 => synced = Len(file) /\ WholeEnd(file)
        BY <1>1 DEF IdleInv
    <2> QED BY <1>6, <2>1, <2>2 DEF IdleInv, v
<1>8. SecondCommitSticks'
    <2>1. SecondCommitSticks
        BY DEF StoreInv
    <2>2. SUFFICES ASSUME streak' >= 2, streak' > missed', ~Odd(Durable) PROVE Newest.payload = confirmed
        BY DEF SecondCommitSticks, Newest, Durable
    <2>3. streak >= 2 /\ streak > missed
        BY <1>1, <1>5, <2>2
    <2> QED BY <2>1, <2>2, <2>3 DEF SecondCommitSticks
<1> QED BY <1>3, <1>5, <1>7, <1>8

LEMMA LoadInv ==
    ASSUME StoreInv, op = Idle, LoadSucceeds \/ LoadFails \/ BootSizeFails, UNCHANGED <<file, synced, op, confirmed>>
    PROVE  StoreInv'
<1>1. IdleInv /\ file \in Seq(Units) /\ latestSequence \in Nat /\ streak \in Nat /\ missed \in Nat /\ synced \in 0 .. Len(file)
    BY IdleFacts
<1>2. Defaults \in Contents /\ Mixed \in Contents
    BY DEF Contents, AllPayloads
<1>3. bootBuf' \in Contents
    BY <1>1, <1>2, SeenIsRecord DEF LoadSucceeds, LoadFails, LoadScanFails, LoadReadFails, LoadFindsNothing, BootSizeFails
<1>4. /\ latestSequence' \in Nat /\ sequenceKnown' \in BOOLEAN /\ streak' \in Nat /\ missed' \in Nat
      /\ IdleInv' /\ SecondCommitSticks'
    <2>1. CASE \E unread \in Unreadable : Scanned(unread)
        <3>1. PICK unread \in Unreadable : Scanned(unread)
            BY <2>1
        <3> QED BY <3>1, ScannedInv
    <2>2. CASE LoadScanFails \/ BootSizeFails
        <3>1. /\ UNCHANGED <<latestSequence, missed, streak>> /\ (sequenceKnown' = FALSE \/ sequenceKnown' = sequenceKnown)
            BY <2>2 DEF LoadScanFails, BootSizeFails
        <3>2. sequenceKnown \in BOOLEAN /\ SecondCommitSticks
            BY DEF StoreInv
        <3>3. IdleInv'
            BY <1>1, <3>1 DEF IdleInv, Within
        <3>4. SecondCommitSticks'
            BY <3>1, <3>2 DEF SecondCommitSticks, Newest, Durable
        <3> QED BY <1>1, <3>1, <3>2, <3>3, <3>4
    <2> QED BY <2>1, <2>2 DEF LoadSucceeds, LoadFails, LoadReadFails, LoadFindsNothing
<1> QED BY <1>1, <1>3, <1>4 DEF StoreInv

LEMMA StartInv ==
    ASSUME StoreInv, NEW p \in Contents, CommitStart(p), boot \in {"init", "done"}
    PROVE  StoreInv'
<1>1. /\ op = Idle /\ KnownSequence
      /\ op' = [phase |-> "header", seq |-> latestSequence' + 1, payload |-> p, at |-> 0]
      /\ UNCHANGED <<file, synced, boot, bootBuf, confirmed>>
    BY DEF CommitStart
<1>2. /\ IdleInv /\ file \in Seq(Units) /\ Len(file) \in Nat /\ latestSequence \in Nat /\ streak \in Nat
      /\ missed \in Nat /\ synced \in 0 .. Len(file)
    BY <1>1, IdleFacts
<1>3. /\ latestSequence' \in Nat /\ sequenceKnown' = TRUE /\ streak' \in Nat /\ missed' \in Nat
      /\ IdleInv' /\ SecondCommitSticks'
    <2>1. CASE sequenceKnown /\ UNCHANGED <<latestSequence, sequenceKnown, missed, streak, faults>>
        <3>1. SecondCommitSticks /\ sequenceKnown \in BOOLEAN
            BY DEF StoreInv
        <3> QED BY <1>1, <1>2, <2>1, <3>1 DEF IdleInv, Within, SecondCommitSticks, Newest, Durable
    <2>2. CASE \E unread \in Unreadable : Scanned(unread)
        <3>1. PICK unread \in Unreadable : Scanned(unread)
            BY <2>2
        <3> QED BY <1>1, <3>1, ScannedInv
    <2> QED BY <1>1, <2>1, <2>2 DEF KnownSequence
<1>4. op' \in OpType /\ op'.phase = "header" /\ op'.seq = latestSequence' + 1
    <2>1. 0 \in 0 .. PayloadLen
        BY RecordSize
    <2>2. latestSequence' \in Nat
        BY <1>3
    <2>3. latestSequence' + 1 \in Nat
        <3>1. \A n \in Nat : n + 1 \in Nat
            OBVIOUS
        <3> QED BY <2>2, <3>1, Zenon
    <2> QED BY <1>1, <2>1, <2>3 DEF OpType
<1>5. Appended' = 0 /\ Base' = Len(file) /\ Before' = file
    <2>1. Appended' = 0
        BY <1>4 DEF Appended
    <2>2. Base' = Len(file)
        BY <1>1, <1>2, <2>1 DEF Base
    <2> QED BY <1>1, <1>2, <2>1, <2>2, WholePrefix DEF Before
<1>6. BusyInv'
    <2>1. (streak >= 1 => synced = Base /\ WholeEnd(Before) /\ Within(scan(Before).seq, latestSequence))'
        BY <1>1, <1>2, <1>3, <1>5 DEF IdleInv, Within
    <2>2. (Base \in Nat /\ synced <= Base /\ Within(scan(Before).seq, op.seq))'
        BY <1>1, <1>2, <1>3, <1>4, <1>5 DEF IdleInv, Within
    <2>3. (\A j \in 1 .. Appended : file[Base + j] = Written(j))'
        BY <1>5
    <2> QED BY <1>3, <1>4, <2>1, <2>2, <2>3 DEF BusyInv
<1>7. op' # Idle
    BY <1>4, OpFields
<1>8. (boot \in {"load", "verify"} => op = Idle)'
    BY <1>1
<1>9. bootBuf' \in Contents
    BY <1>1 DEF StoreInv
<1> QED BY <1>1, <1>2, <1>3, <1>6, <1>7, <1>8, <1>9 DEF StoreInv

(* A commit that returns false: nothing is promised, the file is bounded      *)
LEMMA FailureInv ==
    ASSUME StoreInv, Returned(FALSE), file' \in Seq(Units), Len(file') >= Len(file), Within(scan(file').seq, latestSequence + 1) \/ ~sequenceKnown,
           UNCHANGED <<synced, latestSequence, sequenceKnown, bootBuf>>
    PROVE  StoreInv'
<1>1. op' = Idle /\ streak' = 0 /\ missed' = missed
    BY DEF Returned
<1>2. /\ file \in Seq(Units) /\ synced \in 0 .. Len(file) /\ latestSequence \in Nat /\ sequenceKnown \in BOOLEAN
      /\ bootBuf \in Contents /\ streak \in Nat /\ missed \in Nat
    BY DEF StoreInv
<1>3. synced' \in 0 .. Len(file')
    BY <1>2, FileFacts
<1>4. IdleInv'
    <2>1. scan(file').seq \in Nat
        BY ScanIsNatural
    <2>2. sequenceKnown => scan(file').seq <= latestSequence + 1 \/ scan(file').seq + 0 <= latestSequence + missed
        BY <1>2, <2>1 DEF Within
    <2>3. (sequenceKnown => Within(scan(file).seq, latestSequence + 1))'
        BY <1>1, <2>2 DEF Within
    <2> QED BY <1>1, <2>3 DEF IdleInv
<1>5. SecondCommitSticks'
    BY <1>1 DEF SecondCommitSticks
<1> QED BY <1>1, <1>2, <1>3, <1>4, <1>5 DEF StoreInv

LEMMA AppendInv ==
    ASSUME StoreInv, CommitAppend(op.payload)
    PROVE  StoreInv'
<1> DEFINE u == NextUnit(op.payload)
           a == Appended
           b == Base
<1>1. /\ Appending /\ file' = Append(file, u) /\ op' = AfterAppend
      /\ UNCHANGED <<synced, latestSequence, sequenceKnown, boot, bootBuf, faults, historyVars>>
    BY DEF CommitAppend
<1>2. op # Idle
    BY <1>1 DEF Appending, Idle
<1>3. /\ op \in OpType /\ op.seq = latestSequence + 1 /\ latestSequence \in Nat /\ sequenceKnown = TRUE
      /\ a \in 0 .. RecordLen /\ Len(file) \in Nat /\ b \in 0 .. Len(file) /\ b + a = Len(file)
      /\ Before \in Seq(Units) /\ Len(Before) = b /\ Longer(file, Before)
      /\ synced \in 0 .. b /\ scan(Before).seq \in Nat /\ Within(scan(Before).seq, op.seq)
    BY <1>2, BusyFacts
<1>h. UNCHANGED <<confirmed, streak, missed>>
    BY <1>1 DEF historyVars
<1>o. (Odd(file) <=> Odd(Before)) /\ (Odd(file) => u = Half)
    BY <1>2, SameParity DEF NextUnit
<1>4. /\ op.phase \in {"header", "payload", "trailer"} /\ op.seq \in Nat /\ op.payload \in Contents
      /\ op.at \in 0 .. PayloadLen /\ (op.phase = "payload" => op.at >= 1) /\ file \in Seq(Units)
    BY <1>1, <1>2, <1>3, OpFields DEF Appending, StoreInv, BusyInv
<1>5. /\ op' \in OpType /\ (op'.phase = "payload" => op'.at >= 1) /\ op'.seq = op.seq /\ op'.payload = op.payload
      /\ Appended' = a + 1 /\ (~Odd(file) => u = RecordUnit(op.seq, op.payload, a + 1)) /\ a + 1 \in 1 .. RecordLen
    <2>0. PayloadLen \in Nat /\ PayloadLen >= 1 /\ RecordLen = PayloadLen + 2
        BY RecordSize
    <2>9. 0 \in 0 .. PayloadLen /\ 1 \in 0 .. PayloadLen
        BY <2>0
    <2>1. CASE op.phase = "header"
        <3>1. op' = [op EXCEPT !.phase = "payload", !.at = 1]
            BY <1>1, <2>1 DEF AfterAppend
        <3>2. op' \in OpType /\ op'.phase = "payload" /\ op'.at = 1 /\ op'.seq = op.seq /\ op'.payload = op.payload
            BY <1>3, <2>9, <3>1 DEF OpType
        <3>3. a = 0 /\ Appended' = 1
            BY <2>1, <3>2 DEF Appended
        <3>4. ~Odd(file) => u = Header(op.seq, op.payload)
            BY <2>1 DEF NextUnit
        <3> QED BY <2>0, <3>2, <3>3, <3>4 DEF RecordUnit
    <2>2. CASE op.phase = "payload" /\ op.at < PayloadLen
        <3>1. op' = [op EXCEPT !.at = @ + 1]
            BY <1>1, <2>2 DEF AfterAppend
        <3>0. op.at + 1 \in 0 .. PayloadLen
            BY <1>4, <2>0, <2>2
        <3>2. op' \in OpType /\ op'.phase = "payload" /\ op'.at = op.at + 1 /\ op'.seq = op.seq /\ op'.payload = op.payload
            BY <1>3, <2>2, <3>0, <3>1 DEF OpType
        <3>3. a = op.at /\ Appended' = op.at + 1
            BY <2>2, <3>2 DEF Appended
        <3>4. ~Odd(file) => u = Chunk(op.payload, op.at)
            BY <2>2 DEF NextUnit
        <3>5. a + 1 # 1 /\ a + 1 <= PayloadLen + 1 /\ (a + 1) - 1 = op.at /\ a + 1 \in 1 .. RecordLen /\ op'.at >= 1
            BY <1>4, <2>0, <2>2, <3>2, <3>3
        <3>6. RecordUnit(op.seq, op.payload, a + 1) = Chunk(op.payload, op.at)
            BY <3>5 DEF RecordUnit
        <3> QED BY <3>2, <3>3, <3>4, <3>5, <3>6
    <2>3. CASE op.phase = "payload" /\ ~(op.at < PayloadLen)
        <3>1. op' = [op EXCEPT !.phase = "trailer", !.at = 0]
            BY <1>1, <2>3 DEF AfterAppend
        <3>2. op' \in OpType /\ op'.phase = "trailer" /\ op'.seq = op.seq /\ op'.payload = op.payload
            BY <1>3, <2>9, <3>1 DEF OpType
        <3>3. a = op.at /\ Appended' = PayloadLen + 1 /\ op.at = PayloadLen
            BY <1>4, <2>0, <2>3, <3>2 DEF Appended
        <3>4. ~Odd(file) => u = Chunk(op.payload, op.at)
            BY <2>3 DEF NextUnit
        <3>5. a + 1 # 1 /\ a + 1 <= PayloadLen + 1 /\ (a + 1) - 1 = op.at /\ a + 1 \in 1 .. RecordLen
            BY <1>4, <2>0, <2>3, <3>3
        <3>6. RecordUnit(op.seq, op.payload, a + 1) = Chunk(op.payload, op.at)
            BY <3>5 DEF RecordUnit
        <3> QED BY <3>2, <3>3, <3>4, <3>5, <3>6
    <2>4. CASE op.phase = "trailer"
        <3>1. op' = [op EXCEPT !.phase = "sync"]
            BY <1>1, <2>4 DEF AfterAppend
        <3>2. op' \in OpType /\ op'.phase = "sync" /\ op'.seq = op.seq /\ op'.payload = op.payload
            BY <1>3, <3>1 DEF OpType
        <3>3. a = PayloadLen + 1 /\ Appended' = RecordLen
            BY <2>4, <3>2 DEF Appended
        <3>4. ~Odd(file) => u = Trailer(op.seq)
            BY <2>4 DEF NextUnit
        <3>5. a + 1 # 1 /\ ~(a + 1 <= PayloadLen + 1) /\ RecordLen = a + 1 /\ a + 1 \in 1 .. RecordLen
            BY <2>0, <3>3
        <3>6. RecordUnit(op.seq, op.payload, a + 1) = Trailer(op.seq)
            BY <3>5 DEF RecordUnit
        <3> QED BY <3>2, <3>3, <3>4, <3>5, <3>6
    <2> QED BY <1>4, <2>1, <2>2, <2>3, <2>4
<1>w. u = Written(a + 1)
    BY <1>5, <1>o DEF Written
<1>6. u \in Units
    BY <1>4, <1>5, <1>w, WrittenUnits
<1> HIDE DEF u, a, b
<1>7. /\ file' \in Seq(Units) /\ Len(file') = Len(file) + 1
      /\ file'[Len(file) + 1] = u /\ \A i \in 1 .. Len(file) : file'[i] = file[i]
    BY <1>1, <1>4, <1>6, UnitMore
<1>8. Longer(file', file)
    BY <1>3, <1>7 DEF Longer
<1>9. Base' = b
    <2>1. Base' = Len(file') - Appended'
        BY DEF Base
    <2> QED BY <1>3, <1>5, <1>7, <2>1, RecordSize
<1>10. Before' = Before
    <2>1. Before' = SubSeq(file', 1, b)
        BY <1>9 DEF Before
    <2>2. SubSeq(file', 1, b) = SubSeq(file, 1, b)
        BY <1>3, <1>4, <1>7, <1>8, SamePrefix
    <2> QED BY <2>1, <2>2 DEF Before, b
<1>11. Durable' = Durable
    <2>1. synced \in 0 .. Len(file)
        BY DEF StoreInv
    <2> QED BY <1>1, <1>4, <1>7, <1>8, <2>1, SamePrefix DEF Durable
<1>12. ASSUME NEW j \in 1 .. a + 1 PROVE file'[b + j] = Written(j)
    <2>1. CASE j = a + 1
        <3>1. b + j = Len(file) + 1
            BY <1>3, <2>1
        <3> QED BY <1>w, <1>7, <2>1, <3>1
    <2>2. CASE j # a + 1
        <3>1. j \in 1 .. a /\ b + j \in 1 .. Len(file)
            BY <1>3, <2>2
        <3>2. file[b + j] = Written(j)
            BY <1>2, <3>1 DEF StoreInv, BusyInv, a, b
        <3> QED BY <1>7, <3>1, <3>2
    <2> QED BY <2>1, <2>2
<1>13. BusyInv'
    <2>0. \A j \in 1 .. a + 1 : Written(j)' = Written(j)
        BY <1>5, <1>10 DEF Written
    <2>1. (\A j \in 1 .. Appended : file[Base + j] = Written(j))'
        BY <1>5, <1>9, <1>12, <2>0
    <2>2. streak >= 1 => synced = b /\ WholeEnd(Before) /\ Within(scan(Before).seq, latestSequence)
        BY <1>2 DEF StoreInv, BusyInv, b
    <2>3. (streak >= 1 => synced = Base /\ WholeEnd(Before) /\ Within(scan(Before).seq, latestSequence))'
        BY <1>1, <1>9, <1>10, <1>h, <2>2 DEF Within
    <2>4. (Base \in Nat /\ synced <= Base)'
        BY <1>1, <1>3, <1>9
    <2>5. Within(scan(Before).seq, op.seq)' /\ (sequenceKnown = TRUE /\ op.seq = latestSequence + 1)'
        BY <1>1, <1>3, <1>5, <1>10, <1>h DEF Within
    <2> QED BY <1>5, <2>1, <2>3, <2>4, <2>5 DEF BusyInv
<1>14. SecondCommitSticks'
    <2>1. SecondCommitSticks
        BY DEF StoreInv
    <2> QED BY <1>h, <1>11, <2>1 DEF SecondCommitSticks, Newest
<1>15. /\ synced' \in 0 .. Len(file') /\ latestSequence' \in Nat /\ sequenceKnown' \in BOOLEAN
       /\ streak' \in Nat /\ missed' \in Nat /\ bootBuf' \in Contents
    <2>1. /\ synced \in 0 .. Len(file) /\ latestSequence \in Nat /\ sequenceKnown \in BOOLEAN
          /\ streak \in Nat /\ missed \in Nat /\ bootBuf \in Contents
        BY DEF StoreInv
    <2> QED BY <1>1, <1>3, <1>7, <1>h, <2>1
<1>16. op' # Idle
    BY <1>5, OpFields
<1>17. (boot \in {"load", "verify"} => op = Idle)'
    BY <1>1, <1>2 DEF StoreInv
<1> QED BY <1>7, <1>13, <1>14, <1>15, <1>16, <1>17 DEF StoreInv

LEMMA SyncInv ==
    ASSUME StoreInv, CommitSync
    PROVE  StoreInv'
<1> DEFINE b == Base
<1>1. /\ op.phase = "sync" /\ synced' = Len(file) /\ latestSequence' = op.seq /\ Returned(TRUE)
      /\ UNCHANGED <<file, sequenceKnown, bootBuf, faults>>
    BY DEF CommitSync
<1>2. op # Idle
    BY <1>1 DEF Idle
<1>3. /\ op \in OpType /\ op.seq = latestSequence + 1 /\ latestSequence \in Nat /\ sequenceKnown = TRUE
      /\ Appended \in 0 .. RecordLen /\ Len(file) \in Nat /\ b \in 0 .. Len(file) /\ b + Appended = Len(file)
      /\ Before \in Seq(Units) /\ Len(Before) = b /\ Longer(file, Before)
      /\ synced \in 0 .. b /\ scan(Before).seq \in Nat /\ Within(scan(Before).seq, op.seq)
      /\ streak \in Nat /\ missed \in Nat
    BY <1>2, BusyFacts
<1>4. /\ op.seq \in Nat /\ op.payload \in Contents /\ file \in Seq(Units) /\ RecordLen \in Nat /\ RecordLen >= 3
      /\ scan(file).seq \in Nat
    BY <1>3, OpFields, RecordSize, ScanIsNatural DEF StoreInv
<1>5. Appended = RecordLen
    BY <1>1 DEF Appended
<1>6. \A j \in 1 .. RecordLen : file[b + j] = Written(j)
    BY <1>2, <1>5 DEF StoreInv, BusyInv
<1> HIDE DEF b
<1>7. b + RecordLen = Len(file)
    BY <1>3, <1>5
<1>8. Within(scan(file).seq, op.seq)
    <2>1. Longer(file, file)
        BY <1>3 DEF Longer
    <2> QED BY <1>2, <1>3, <1>4, <2>1, CommitBounds
<1>9. WholeEnd(file)
    <2> SUFFICES ASSUME NEW i \in 1 .. Len(file), file[i].kind = "header" PROVE i - 1 + RecordLen <= Len(file)
        BY DEF WholeEnd
    <2>1. CASE i > b + 1
        <3>1. i - b \in 1 .. RecordLen /\ i - b # 1 /\ b + (i - b) = i
            BY <1>3, <1>4, <1>7, <2>1
        <3>2. file[i] = Written(i - b)
            BY <1>6, <3>1
        <3> QED BY <1>4, <3>1, <3>2, WrittenUnits
    <2>2. CASE ~(i > b + 1)
        BY <1>3, <1>4, <1>7, <2>2
    <2> QED BY <2>1, <2>2
<1>10. op' = Idle /\ confirmed' = op.payload /\ streak' = streak + 1 /\ missed' = missed
    BY <1>1 DEF Returned
<1>11. streak' \in Nat /\ missed' \in Nat
    BY <1>3, <1>10
<1>12. IdleInv'
    <2>1. (Within(scan(file).seq, latestSequence) /\ Within(scan(file).seq, latestSequence + 1))'
        BY <1>1, <1>3, <1>4, <1>8, <1>10 DEF Within
    <2> QED BY <1>1, <1>9, <2>1 DEF IdleInv
<1>13. SecondCommitSticks'
    <2> SUFFICES ASSUME streak' >= 2, streak' > missed', ~Odd(Durable') PROVE Newest'.payload = confirmed'
        BY DEF SecondCommitSticks, Odd
    <2>1. streak >= 1 /\ streak >= missed
        BY <1>3, <1>10
    <2>a. WholeEnd(Before) /\ Within(scan(Before).seq, latestSequence)
        BY <1>2, <2>1 DEF StoreInv, BusyInv
    <2>2. WholeEnd(Before) /\ scan(Before).seq <= latestSequence
        BY <1>3, <2>1, <2>a DEF Within
    <2>3. op.seq > scan(Before).seq
        BY <1>3, <2>2
    <2>5. Durable' = file
        BY <1>1, <1>4, WholePrefix DEF Durable
    <2>6. ~Odd(Before)
        BY <1>2, <2>5, SameParity
    <2>4. scan(file) = [seq |-> op.seq, payload |-> op.payload]
        <3>1. Len(file) = Len(Before) + RecordLen /\ \A j \in 1 .. RecordLen : file[Len(Before) + j] = RecordUnit(op.seq, op.payload, j)
            BY <1>3, <1>6, <1>7, <2>6 DEF Written
        <3>2. Before \in Seq(Units) /\ Longer(file, Before) /\ file \in Seq(Units) /\ op.seq \in Nat /\ WholeEnd(Before)
            BY <1>3, <1>4, <2>2
        <3>3. RecordAt(file, Len(Before), op.seq, op.payload)
            BY <3>1 DEF RecordAt
        <3> QED BY <2>3, <3>1, <3>2, <3>3, NextRecordIsKept
    <2> QED BY <1>10, <2>4, <2>5 DEF Newest
<1>14. synced' \in 0 .. Len(file') /\ latestSequence' \in Nat /\ sequenceKnown' \in BOOLEAN /\ bootBuf' \in Contents
    <2>1. bootBuf \in Contents
        BY DEF StoreInv
    <2> QED BY <1>1, <1>3, <1>4, <2>1
<1> QED BY <1>1, <1>4, <1>10, <1>11, <1>12, <1>13, <1>14 DEF StoreInv

LEMMA ResetInv ==
    ASSUME StoreInv, Reset
    PROVE  StoreInv'
<1>1. PICK n \in synced .. Len(file), torn \in Fragments :
          (n = Len(file) => torn = <<>>) /\ file' = SubSeq(file, 1, n) \o torn
    BY DEF Reset
<1>2. /\ latestSequence' = 0 /\ sequenceKnown' = FALSE /\ op' = Idle /\ bootBuf' = Defaults /\ synced' = Len(file')
      /\ streak' = (IF op = Idle THEN streak ELSE 0) /\ confirmed' = confirmed /\ missed' = missed
    BY DEF Reset
<1>3. file \in Seq(Units) /\ Len(file) \in Nat /\ synced \in 0 .. Len(file) /\ streak \in Nat /\ missed \in Nat
    BY FileFacts DEF StoreInv
<1>4. n \in 0 .. Len(file) /\ SubSeq(file, 1, n) \in Seq(Units)
    <2>1. n \in 0 .. Len(file)
        BY <1>1, <1>3
    <2> QED BY <1>3, <2>1, Prefix
<1>5. file' \in Seq(Units) /\ synced' \in 0 .. Len(file')
    <2>1. file' \in Seq(Units)
        BY <1>1, <1>4, FragmentMore
    <2>2. Len(file') \in Nat
        BY <2>1, FileFacts
    <2> QED BY <1>2, <2>1, <2>2
<1>6. ASSUME streak' >= 1 PROVE op = Idle /\ streak' = streak /\ synced = Len(file) /\ WholeEnd(file) /\ file' = file /\ synced' = synced
    <2>1. op = Idle /\ streak' = streak /\ streak >= 1
        BY <1>2, <1>6
    <2>2. synced = Len(file) /\ WholeEnd(file)
        BY <2>1, IdleFacts DEF IdleInv
    <2>3. n = Len(file) /\ torn = <<>>
        BY <1>1, <1>3, <2>2
    <2>4. file' = file
        BY <1>1, <1>3, <1>4, <2>3, FragmentMore, WholePrefix
    <2> QED BY <1>2, <2>1, <2>2, <2>4
<1>7. IdleInv'
    BY <1>2, <1>6 DEF IdleInv
<1>8. SecondCommitSticks'
    <2> SUFFICES ASSUME streak' >= 2 PROVE SecondCommitSticks'
        BY DEF SecondCommitSticks
    <2>1. streak' >= 1
        BY <1>2, <1>3
    <2>2. streak' = streak /\ missed' = missed /\ file' = file /\ synced' = synced /\ confirmed' = confirmed
        BY <1>2, <1>6, <2>1
    <2>3. SecondCommitSticks
        BY DEF StoreInv
    <2> QED BY <2>2, <2>3 DEF SecondCommitSticks, Newest, Durable
<1>9. latestSequence' \in Nat /\ sequenceKnown' \in BOOLEAN /\ streak' \in Nat /\ missed' \in Nat /\ bootBuf' \in Contents
    <2>1. latestSequence' \in Nat /\ sequenceKnown' \in BOOLEAN
        BY <1>2
    <2>2. streak' \in Nat /\ missed' \in Nat
        BY <1>2, <1>3
    <2>3. bootBuf' \in Contents
        BY <1>2 DEF Contents, AllPayloads
    <2> QED BY <2>1, <2>2, <2>3
<1> QED BY <1>2, <1>5, <1>7, <1>8, <1>9 DEF StoreInv

LEMMA StoreInitInv == StoreInit => StoreInv
<1> SUFFICES ASSUME StoreInit PROVE StoreInv
    OBVIOUS
<1>1. file \in Seq(Units)
    <2>1. <<>> \in Seq(Units)
        OBVIOUS
    <2>2. Junk \in Units /\ Half \in Units
        BY DEF Junk, Half, Units, Contents
    <2>3. <<Junk>> \in Seq(Units) /\ <<Half>> \in Seq(Units)
        BY <2>2
    <2> QED BY <2>1, <2>3 DEF StoreInit, Fragments
<1>2. synced \in 0 .. Len(file)
    BY <1>1, FileFacts DEF StoreInit
<1>3. bootBuf \in Contents
    BY DEF StoreInit, Contents, AllPayloads
<1>4. IdleInv /\ SecondCommitSticks
    BY DEF StoreInit, IdleInv, SecondCommitSticks
<1>5. op = Idle /\ latestSequence \in Nat /\ streak \in Nat /\ missed \in Nat
    BY DEF StoreInit
<1>6. sequenceKnown \in BOOLEAN
    BY DEF StoreInit
<1> QED BY <1>1, <1>2, <1>3, <1>4, <1>5, <1>6 DEF StoreInv

LEMMA StoreStepInv == StoreInv /\ [StoreNext]_storeVars => StoreInv'
<1> SUFFICES ASSUME StoreInv, [StoreNext]_storeVars PROVE StoreInv'
    OBVIOUS
<1>1. CASE BootLoad
    BY <1>1, LoadInv DEF BootLoad, StoreInv
<1>2. CASE BootVerify
    BY <1>2, LoadInv DEF BootVerify, StoreInv
<1>3. CASE BootInit
    BY <1>3, StartInv DEF BootInit, StoreInv
<1>4. CASE HostCommit
    <2>1. PICK p \in Payloads : CommitStart(p)
        BY <1>4 DEF HostCommit
    <2>2. p \in Contents /\ boot = "done"
        BY <1>4 DEF HostCommit, Contents, AllPayloads
    <2> QED BY <2>1, <2>2, StartInv
<1>5. CASE CommitScanFails
    <2>1. file' = file /\ file \in Seq(Units)
        BY <1>5 DEF CommitScanFails, StoreInv
    <2>2. Len(file') >= Len(file)
        BY <2>1, FileFacts
    <2> QED BY <1>5, <2>1, <2>2, FailureInv DEF CommitScanFails
<1>6. CASE CommitAppend(op.payload)
    BY <1>6, AppendInv
<1>7. CASE CommitAppendFails
    <2>1. op # Idle
        BY <1>7 DEF CommitAppendFails, Appending, Idle
    <2>2. PICK t \in Fragments : file' = file \o t
        BY <1>7 DEF CommitAppendFails
    <2>3. file \in Seq(Units) /\ Len(file) \in Nat
        BY FileFacts DEF StoreInv
    <2>4. /\ file' \in Seq(Units) /\ Len(file') \in {Len(file), Len(file) + 1}
          /\ \A i \in 1 .. Len(file) : file'[i] = file[i]
          /\ Len(file') = Len(file) + 1 => file'[Len(file) + 1].kind \in {"junk", "half"}
        BY <2>2, <2>3, FragmentMore
    <2>5. Len(file') >= Len(file) /\ Longer(file', file)
        BY <2>3, <2>4 DEF Longer
    <2>6. Within(scan(file').seq, latestSequence + 1)
        <3>1. Within(scan(file').seq, op.seq)
            BY <2>1, <2>4, <2>5, CommitBounds
        <3> QED BY <2>1, <3>1, BusyFacts
    <2> QED BY <1>7, <2>4, <2>5, <2>6, FailureInv DEF CommitAppendFails
<1>8. CASE CommitSync
    BY <1>8, SyncInv
<1>9. CASE CommitSyncFails
    <2>1. op # Idle
        BY <1>9 DEF CommitSyncFails, Idle
    <2>2. file' = file /\ file \in Seq(Units) /\ Len(file) \in Nat
        BY <1>9, FileFacts DEF CommitSyncFails, StoreInv
    <2>3. Longer(file, file) /\ Len(file') >= Len(file)
        BY <2>2 DEF Longer
    <2>4. Within(scan(file).seq, latestSequence + 1)
        <3>1. Within(scan(file).seq, op.seq)
            BY <2>1, <2>2, <2>3, CommitBounds
        <3> QED BY <2>1, <3>1, BusyFacts
    <2> QED BY <1>9, <2>2, <2>3, <2>4, FailureInv DEF CommitSyncFails
<1>10. CASE Reset
    BY <1>10, ResetInv
<1>11. CASE UNCHANGED storeVars
    <2>1. UNCHANGED <<file, synced, latestSequence, sequenceKnown, op, boot, bootBuf, confirmed, streak, missed>>
        BY <1>11 DEF storeVars, historyVars
    <2> QED BY <2>1 DEF StoreInv, IdleInv, BusyInv, Written, Within, Before, Base, Appended, SecondCommitSticks, Newest, Durable
<1> QED BY <1>1, <1>2, <1>3, <1>4, <1>5, <1>6, <1>7, <1>8, <1>9, <1>10, <1>11 DEF StoreNext, StoreStep

(* For any payloads, payload length, file limit and number of faults: the     *)
(* scan of commit() and load() (config/config_store.cpp) finds the later of   *)
(* two commits in a row that returned true, whatever torn records, reused     *)
(* sequence numbers and lost tails the journal holds and whatever payload     *)
(* reads failed in the scans before; after a scan whose failed reads made it  *)
(* miss the newest records, the later of as many more commits as it missed    *)
(* sequence numbers.  An odd character at the end of the file is excepted.    *)
THEOREM SecondCommitHolds == StoreSpec => []SecondCommitSticks
<1>1. StoreInv => SecondCommitSticks
    BY DEF StoreInv
<1> QED BY <1>1, StoreInitInv, StoreStepInv, PTL DEF StoreSpec

---------------------------------------------------------------------------
(* Proof that the answer is the request's own.                                *)

(* A commit in progress is a record of these fields, so that its payload      *)
(* survives the updates of the others.                                        *)
OpShape == op = [phase |-> op.phase, seq |-> op.seq, payload |-> op.payload, at |-> op.at]

(* apiTask and i2cTask serve requests only once the bootstrap is over, which  *)
(* keeps the bootstrap's own commit away from `confirmed`.                    *)
ServesAfterBoot == (api # ApiIdle \/ i2c # "poll") => boot = "done"

(* The hand-over while no wait has timed out: exactly one of "requested" and  *)
(* "done" holds while apiTask waits and none while it does not; i2cTask works *)
(* on the request apiTask waits for; and what it reported is what it stored.  *)
HandOver ==
    timeouts = 0 =>
        /\ api # ApiIdle => mailbox.payload = api.payload
        /\ mailbox.requested \/ commitDone => api # ApiIdle
        /\ i2c # "poll" => mailbox.requested
        /\ commitDone => ~mailbox.requested
        /\ i2c = "commit" => op.payload = mailbox.payload
        /\ i2c = "ok" \/ (commitDone /\ mailbox.ok) => confirmed = mailbox.payload

CommitInv ==
    /\ timeouts \in Nat /\ commitDone \in BOOLEAN
    /\ mailbox.requested \in BOOLEAN /\ mailbox.ok \in BOOLEAN
    /\ mailbox = [requested |-> mailbox.requested, ok |-> mailbox.ok, payload |-> mailbox.payload]
    /\ OpShape /\ ServesAfterBoot /\ HandOver

LEMMA CommitInvStep == CommitInv /\ [Next]_vars => CommitInv'
<1> SUFFICES ASSUME CommitInv, [Next]_vars PROVE CommitInv'
    OBVIOUS
<1> USE DEF ApiIdle
<1>i. OpShape /\ ServesAfterBoot /\ HandOver /\ timeouts \in Nat
    BY DEF CommitInv
<1>1. CASE GaitPress \/ SetBlock \/ ResetDefaults \/ AdoptPayload \/ SaveGaitRefused
    <2>1. UNCHANGED <<op, boot, confirmed, api, i2c, mailbox, commitDone, timeouts>>
        BY <1>1 DEF GaitPress, SetBlock, ResetDefaults, AdoptPayload, SaveGaitRefused, storeVars, historyVars, boxVars
    <2> QED BY <2>1 DEF CommitInv, OpShape, ServesAfterBoot, HandOver
<1>2. CASE Commit \/ SaveGait
    <2>1. PICK pc \in {"commit", "gait"}, p \in {staging, [shadow EXCEPT !.gait = gaitPending]} :
              Post(pc, p) /\ api = ApiIdle
        BY <1>2 DEF Commit, SaveGait
    <2>2. /\ UNCHANGED <<op, boot, confirmed, i2c, commitDone, timeouts>> /\ boot = "done"
          /\ mailbox' = [requested |-> TRUE, ok |-> FALSE, payload |-> p]
          /\ api' = [pc |-> pc, payload |-> p]
        BY <2>1 DEF Post, persistent, storeVars, historyVars
    <2>3. /\ mailbox'.requested /\ ~mailbox'.ok /\ mailbox'.payload = p /\ api'.payload = p /\ api' # ApiIdle
        BY <2>2
    <2>4. OpShape' /\ ServesAfterBoot'
        BY <2>2, <1>i DEF OpShape, ServesAfterBoot
    <2>5. HandOver'
        BY <2>1, <2>2, <2>3, <1>i DEF HandOver
    <2> QED BY <2>2, <2>3, <2>4, <2>5 DEF CommitInv
<1>3. CASE WaitSucceeds
    <2>1. /\ UNCHANGED <<op, boot, confirmed, i2c, mailbox, timeouts>>
          /\ api # ApiIdle /\ commitDone /\ ~commitDone' /\ commitDone' \in BOOLEAN /\ api' = ApiIdle
        BY <1>3 DEF WaitSucceeds, CommitReturns, storeVars, historyVars
    <2>2. OpShape' /\ ServesAfterBoot'
        BY <2>1, <1>i DEF OpShape, ServesAfterBoot
    <2>3. HandOver'
        BY <2>1, <1>i DEF HandOver
    <2> QED BY <2>1, <2>2, <2>3 DEF CommitInv
<1>4. CASE WaitTimesOut
    <2>1. /\ UNCHANGED <<op, boot, confirmed, i2c, mailbox, commitDone>>
          /\ api' = ApiIdle /\ timeouts' = timeouts + 1
        BY <1>4 DEF WaitTimesOut, CommitReturns, storeVars, historyVars
    <2>2. OpShape' /\ ServesAfterBoot'
        BY <2>1, <1>i DEF OpShape, ServesAfterBoot
    <2>3. HandOver' /\ timeouts' \in Nat
        BY <2>1, <1>i DEF HandOver
    <2> QED BY <2>1, <2>2, <2>3 DEF CommitInv
<1>5. CASE I2cBoot
    <2>1. i2c = "poll" /\ boot # "done" /\ OpShape'
        BY <1>5, <1>i DEF I2cBoot, OpShape, BootLoad, BootInit, BootVerify, CommitStart, CommitAppend, AfterAppend,
           CommitScanFails, CommitAppendFails, CommitSync, CommitSyncFails, Returned, Idle
    <2>2. UNCHANGED <<api, i2c, mailbox, commitDone, timeouts>>
        BY <1>5 DEF I2cBoot, i2cOnly
    <2>3. api = ApiIdle
        BY <2>1, <1>i DEF ServesAfterBoot
    <2>4. ServesAfterBoot'
        BY <2>1, <2>2, <2>3 DEF ServesAfterBoot
    <2>5. HandOver'
        BY <2>1, <2>2, <2>3, <1>i DEF HandOver
    <2> QED BY <2>1, <2>2, <2>4, <2>5 DEF CommitInv
<1>6. CASE I2cCommit
    <2>1. /\ UNCHANGED <<api, mailbox, commitDone, timeouts, boot, confirmed>>
          /\ boot = "done" /\ mailbox.requested /\ i2c = "poll" /\ i2c' = "commit"
          /\ op' = [phase |-> "header", seq |-> latestSequence' + 1, payload |-> mailbox.payload, at |-> 0]
        BY <1>6 DEF I2cCommit, i2cOnly, CommitStart
    <2>2. OpShape' /\ op'.payload = mailbox.payload
        BY <2>1 DEF OpShape
    <2>3. ServesAfterBoot'
        BY <2>1 DEF ServesAfterBoot
    <2>4. HandOver'
        BY <2>1, <2>2, <1>i DEF HandOver
    <2> QED BY <2>1, <2>2, <2>3, <2>4 DEF CommitInv
<1>7. CASE I2cWrite
    <2>1. UNCHANGED <<api, mailbox, commitDone, timeouts>> /\ i2c = "commit" /\ boot = "done"
        BY <1>7, <1>i DEF I2cWrite, i2cOnly, ServesAfterBoot
    <2>2. CASE CommitAppend(mailbox.payload) /\ i2c' = "commit"
        <3>1. /\ UNCHANGED <<boot, confirmed>> /\ op' = AfterAppend
            BY <2>2 DEF CommitAppend, historyVars
        <3>2. OpShape' /\ op'.payload = op.payload
            BY <3>1, <1>i DEF AfterAppend, OpShape
        <3>3. ServesAfterBoot' /\ HandOver'
            BY <2>1, <2>2, <3>1, <3>2, <1>i DEF ServesAfterBoot, HandOver
        <3> QED BY <2>1, <3>2, <3>3 DEF CommitInv
    <2>3. CASE (CommitAppendFails \/ CommitSyncFails) /\ i2c' = "failed"
        <3>1. UNCHANGED <<boot, confirmed>> /\ op' = Idle
            BY <2>1, <2>3 DEF CommitAppendFails, CommitSyncFails, Returned
        <3>2. OpShape'
            BY <3>1 DEF OpShape, Idle
        <3>3. ServesAfterBoot' /\ HandOver'
            BY <2>1, <2>3, <3>1, <1>i DEF ServesAfterBoot, HandOver
        <3> QED BY <2>1, <3>2, <3>3 DEF CommitInv
    <2>4. CASE CommitSync /\ i2c' = "ok"
        <3>1. UNCHANGED boot /\ op' = Idle /\ confirmed' = op.payload
            BY <2>1, <2>4 DEF CommitSync, Returned
        <3>2. OpShape'
            BY <3>1 DEF OpShape, Idle
        <3>3. ServesAfterBoot' /\ HandOver'
            BY <2>1, <2>4, <3>1, <1>i DEF ServesAfterBoot, HandOver
        <3> QED BY <2>1, <3>2, <3>3 DEF CommitInv
    <2> QED BY <1>7, <2>2, <2>3, <2>4 DEF I2cWrite
<1>8. CASE I2cReport
    <2>1. /\ UNCHANGED <<api, timeouts, op, boot, confirmed>>
          /\ i2c \in {"ok", "failed"} /\ i2c' = "poll" /\ commitDone' /\ commitDone' \in BOOLEAN
          /\ mailbox' = [mailbox EXCEPT !.ok = (i2c = "ok"), !.requested = FALSE]
        BY <1>8 DEF I2cReport, storeVars, historyVars
    <2>2. /\ mailbox' = [requested |-> FALSE, ok |-> (i2c = "ok"), payload |-> mailbox.payload]
        BY <2>1 DEF CommitInv
    <2>3. /\ ~mailbox'.requested /\ (mailbox'.ok <=> i2c = "ok") /\ mailbox'.payload = mailbox.payload
          /\ mailbox'.requested \in BOOLEAN /\ mailbox'.ok \in BOOLEAN
        BY <2>2
    <2>4. OpShape' /\ ServesAfterBoot'
        BY <2>1, <1>i DEF OpShape, ServesAfterBoot
    <2>5. HandOver'
        BY <2>1, <2>3, <1>i DEF HandOver
    <2> QED BY <2>1, <2>2, <2>3, <2>4, <2>5 DEF CommitInv
<1>9. CASE PowerCycle
    <2>1. /\ UNCHANGED timeouts /\ op' = Idle /\ api' = ApiIdle /\ i2c' = "poll"
          /\ mailbox' = EmptyMailbox /\ ~commitDone' /\ commitDone' \in BOOLEAN
        BY <1>9 DEF PowerCycle, Reset
    <2> QED BY <2>1, <1>i DEF CommitInv, OpShape, ServesAfterBoot, HandOver, Idle, EmptyMailbox
<1>10. CASE UNCHANGED vars
    BY <1>10 DEF vars, storeVars, historyVars, boxVars, CommitInv, OpShape, ServesAfterBoot, HandOver
<1> QED BY <1>1, <1>2, <1>3, <1>4, <1>5, <1>6, <1>7, <1>8, <1>9, <1>10 DEF Next, HostRequest, ApiTask, I2cTask

(* For any payloads, faults, resets and presses, and whatever the journal     *)
(* scan returns: as long as no wait has timed out, an Ok to apiTask's caller  *)
(* is for the payload that i2cTask has just stored (commitPayload and the     *)
(* mailbox service of i2cTask in app/tasks.cpp).                              *)
THEOREM AnswerIsOwn == Spec => OkIsOwnUnlessLate
<1>1. Init => CommitInv
    <2> SUFFICES ASSUME Init PROVE CommitInv
        OBVIOUS
    <2>1. /\ timeouts = 0 /\ ~commitDone /\ commitDone \in BOOLEAN /\ api = ApiIdle /\ i2c = "poll"
          /\ mailbox = EmptyMailbox
        BY DEF Init
    <2>2. /\ ~mailbox.requested /\ ~mailbox.ok /\ mailbox.requested \in BOOLEAN /\ mailbox.ok \in BOOLEAN
          /\ mailbox = [requested |-> mailbox.requested, ok |-> mailbox.ok, payload |-> mailbox.payload]
        BY <2>1 DEF EmptyMailbox
    <2>3. OpShape
        BY DEF Init, StoreInit, OpShape, Idle
    <2>4. ServesAfterBoot /\ HandOver
        BY <2>1, <2>2 DEF ServesAfterBoot, HandOver
    <2> QED BY <2>1, <2>2, <2>3, <2>4 DEF CommitInv
<1>2. CommitInv /\ [Next]_vars => CommitInv'
    BY CommitInvStep
<1>3. CommitInv => (WaitSucceeds /\ mailbox.ok /\ timeouts = 0 => confirmed = api.payload)
    BY DEF CommitInv, HandOver, WaitSucceeds
<1>4. CommitInv /\ [Next]_vars => [WaitSucceeds /\ mailbox.ok /\ timeouts = 0 => confirmed = api.payload]_vars
    BY <1>3
<1> QED BY <1>1, <1>2, <1>4, PTL DEF Spec, OkIsOwnUnlessLate

---------------------------------------------------------------------------
(* Proof that only a failed read lets the bootstrap write in front of a       *)
(* record.                                                                    *)

Good == AllPayloads
BusyOps == [phase : {"header", "payload", "trailer", "sync"}, seq : Nat, payload : Good, at : Nat]
Mailboxes == [requested : BOOLEAN, ok : BOOLEAN, payload : Contents]

(* Every header was written for a payload that was handed to commit().        *)
Sound(f) == \A i \in 1 .. Len(f) : f[i].kind = "header" => f[i].payload \in Good

(* What travels between the tasks and the journal is a payload, and without   *)
(* a failed read the bootstrap commits its buffer only over a journal of      *)
(* which nothing would be loaded.                                             *)
JournalPart ==
    /\ file \in Seq(Units) /\ Sound(file) /\ synced \in 0 .. Len(file) /\ latestSequence \in Nat
    /\ op = Idle \/ op \in BusyOps
    /\ bootBuf \in Good /\ faults \in Nat
    /\ boot = "init" /\ ~misread => Newest = NoRecord
MailPart ==
    /\ shadow \in Good /\ staging \in Good \cup {Garbled}
    /\ mailbox \in Mailboxes /\ (mailbox.requested => mailbox.payload \in Good)
    /\ api = ApiIdle \/ api.payload \in Good
    /\ gaitRequested => gaitPending \in Gaits
PathInv == JournalPart /\ MailPart

LEMMA GoodContents == Good \subseteq Contents /\ NoPayload \in Contents /\ Defaults \in Good
BY DEF Good, Contents, AllPayloads

LEMMA OneFaultMore == \A n \in Nat : n + 1 \in Nat /\ n + 1 # n
OBVIOUS

(* What scan() returns is nothing or what a header says. *)
LEMMA ScanIsSound ==
    ASSUME NEW f \in Seq(Units), NEW U, Sound(f)
    PROVE  seen(f, U) = NoRecord \/ seen(f, U).payload \in Good
<1> DEFINE L == Len(f) + RecordLen
           F == scanFrom(f, U)
           Ok(r) == r = NoRecord \/ r.payload \in Good
           S == {o \in 1 .. L : Ok(F[o])}
<1>0. L \in Nat /\ Len(f) \in Nat /\ RecordLen \in Nat /\ RecordLen >= 3
    BY FileFacts, RecordSize
<1>1. ASSUME NEW o \in 1 .. L, \A x \in o + 1 .. L : x \in S PROVE o \in S
    <2>1. F[o] = ScanStep(f, U, F, o)
        BY ScanUnfolds
    <2> HIDE DEF F
    <2>2. CASE Len(f) - (o - 1) < 2
        BY <2>1, <2>2 DEF ScanStep
    <2>3. CASE ~(Len(f) - (o - 1) < 2)
        <3>1. o + 1 \in o + 1 .. L /\ o + RecordLen \in o + 1 .. L /\ o \in 1 .. Len(f)
            BY <1>0, <2>3
        <3>2. Ok(F[o + 1]) /\ Ok(F[o + RecordLen])
            BY <1>1, <3>1
        <3>3. CASE f[o].kind # "header"
            BY <2>1, <2>3, <3>2, <3>3 DEF ScanStep
        <3>4. CASE f[o].kind = "header"
            <4>1. Ok([seq |-> f[o].seq, payload |-> f[o].payload])
                BY <3>1, <3>4 DEF Sound
            <4> DEFINE r == [seq |-> f[o].seq, payload |-> f[o].payload]
            <4>2. Ok(r)
                BY <4>1
            <4>3. Keep(f, U, o, F[o + RecordLen]) \in {r, F[o + RecordLen]}
                BY DEF Keep
            <4> HIDE DEF r
            <4>4. F[o] \in {NoRecord, r, F[o + RecordLen]}
                BY <2>1, <2>3, <3>4, <4>3 DEF ScanStep
            <4> QED BY <3>2, <4>2, <4>4
        <3> QED BY <3>3, <3>4
    <2> QED BY <2>2, <2>3
<1> HIDE DEF S
<1>2. \A o \in 1 .. L : o \in S
    BY <1>0, <1>1, DownRange
<1>3. 1 \in 1 .. L
    BY <1>0
<1> QED BY <1>2, <1>3 DEF S, scan, seen

(* A file of which nothing would be loaded has no prefix of which something   *)
(* would.                                                                     *)
LEMMA NothingInAPrefix ==
    ASSUME NEW f \in Seq(Units), NEW g \in Seq(Units), Longer(g, f), Sound(f), scan(g) = NoRecord
    PROVE  scan(f) = NoRecord
<1> DEFINE L == Len(f) + RecordLen
           F == scanFrom(f, {})
           G == scanFrom(g, {})
           S == {o \in 1 .. L : G[o] = NoRecord => F[o] = NoRecord}
<1>0. L \in Nat /\ Len(f) \in Nat /\ RecordLen \in Nat /\ RecordLen >= 3 /\ Len(g) \in Nat /\ Len(g) >= Len(f)
    BY FileFacts, RecordSize DEF Longer
<1>1. ASSUME NEW o \in 1 .. L, \A x \in o + 1 .. L : x \in S PROVE o \in S
    <2>0. o \in 1 .. Len(g) + RecordLen
        BY <1>0
    <2>1. F[o] = ScanStep(f, {}, F, o) /\ G[o] = ScanStep(g, {}, G, o)
        BY <2>0, ScanUnfolds
    <2> HIDE DEF F, G
    <2>2. CASE Len(f) - (o - 1) < 2
        BY <2>1, <2>2 DEF ScanStep
    <2>3. CASE ~(Len(f) - (o - 1) < 2)
        <3>1. o + 1 \in o + 1 .. L /\ o + RecordLen \in o + 1 .. L /\ o \in 1 .. Len(f) /\ ~(Len(g) - (o - 1) < 2)
            BY <1>0, <2>3
        <3>2. (G[o + 1] = NoRecord => F[o + 1] = NoRecord) /\ (G[o + RecordLen] = NoRecord => F[o + RecordLen] = NoRecord)
            BY <1>1, <3>1
        <3>3. g[o] = f[o]
            BY <3>1 DEF Longer
        <3>4. CASE f[o].kind # "header"
            BY <2>1, <2>3, <3>1, <3>2, <3>3, <3>4 DEF ScanStep
        <3>5. CASE f[o].kind = "header" /\ o - 1 + RecordLen > Len(f)
            BY <2>1, <2>3, <3>5 DEF ScanStep
        <3>6. CASE f[o].kind = "header" /\ ~(o - 1 + RecordLen > Len(f))
            <4> DEFINE r == [seq |-> f[o].seq, payload |-> f[o].payload]
                       v(h) == payloadValid(h, {}, o) /\ Committed(h, o)
            <4>1. ~(o - 1 + RecordLen > Len(g)) /\ o - 1 + RecordLen <= Len(f)
                BY <1>0, <3>1, <3>6
            <4>2. v(g) <=> v(f)
                BY <3>1, <4>1, SameRecord
            <4>3. F[o] = Keep(f, {}, o, F[o + RecordLen]) /\ G[o] = Keep(g, {}, o, G[o + RecordLen])
                BY <2>1, <2>3, <3>1, <3>3, <3>6, <4>1 DEF ScanStep
            <4>4. SUFFICES ASSUME G[o] = NoRecord PROVE F[o] = NoRecord
                OBVIOUS
            <4>5. f[o].seq \in Nat /\ NoRecord.seq = 0
                BY <3>1, FileFacts DEF NoRecord
            <4>6. CASE v(f) /\ g[o].seq >= G[o + RecordLen].seq
                <5>1. r = NoRecord
                    BY <3>3, <4>2, <4>3, <4>4, <4>6 DEF Keep
                <5>2. r.payload \in Good /\ NoRecord.payload = NoPayload
                    BY <3>1, <3>6 DEF Sound, NoRecord
                <5>3. NoPayload \notin Good
                    BY StoreAssumption DEF Good, AllPayloads
                <5> QED BY <5>1, <5>2, <5>3
            <4>7. CASE ~(v(f) /\ g[o].seq >= G[o + RecordLen].seq)
                <5>1. G[o] = G[o + RecordLen]
                    BY <4>2, <4>3, <4>7 DEF Keep
                <5>2. G[o + RecordLen] = NoRecord /\ F[o + RecordLen] = NoRecord
                    BY <3>2, <4>4, <5>1
                <5>3. ~v(f)
                    BY <3>3, <4>5, <4>7, <5>2
                <5> QED BY <4>3, <5>2, <5>3 DEF Keep
            <4> QED BY <4>6, <4>7
        <3> QED BY <3>4, <3>5, <3>6
    <2> QED BY <2>2, <2>3
<1> HIDE DEF S
<1>2. \A o \in 1 .. L : o \in S
    BY <1>0, <1>1, DownRange
<1>3. 1 \in 1 .. L
    BY <1>0
<1> QED BY <1>2, <1>3 DEF S, scan, seen

LEMMA SoundPrefix ==
    ASSUME NEW f \in Seq(Units), Sound(f), NEW n \in 0 .. Len(f)
    PROVE  Sound(SubSeq(f, 1, n))
<1>1. Len(SubSeq(f, 1, n)) = n /\ \A i \in 1 .. n : SubSeq(f, 1, n)[i] = f[i] /\ i \in 1 .. Len(f)
    BY Prefix, FileFacts
<1> QED BY <1>1 DEF Sound

(* The journal's part of a step that leaves the journal alone. *)
LEMMA JournalKept ==
    ASSUME JournalPart, UNCHANGED storeVars
    PROVE  JournalPart'
<1>1. UNCHANGED <<file, synced, latestSequence, op, boot, bootBuf, faults, misread>>
    BY DEF storeVars, historyVars
<1>2. Newest' = Newest
    BY <1>1 DEF Newest, Durable
<1> QED BY <1>1, <1>2 DEF JournalPart

LEMMA MailKept ==
    ASSUME MailPart, UNCHANGED <<shadow, staging, mailbox, api, gaitRequested, gaitPending>>
    PROVE  MailPart'
BY DEF MailPart

(* What a scan that succeeds leaves in the store. *)
LEMMA ScannedPart ==
    ASSUME JournalPart, NEW U, Scanned(U)
    PROVE  latestSequence' \in Nat /\ ~Odd(file)
<1>1. file \in Seq(Units)
    BY DEF JournalPart
<1> QED BY <1>1, SeenIsRecord DEF Scanned

LEMMA FaultCounted == ASSUME JournalPart, Fault PROVE faults' \in Nat /\ faults' # faults
BY OneFaultMore DEF JournalPart, Fault

LEMMA ReadsCounted ==
    ASSUME JournalPart, NEW U, PayloadReads(U)
    PROVE  faults' \in Nat /\ (faults' = faults => U = {})
BY FaultCounted DEF PayloadReads, ReadFault, JournalPart

LEMMA ScanFailsPart ==
    ASSUME JournalPart, ScanFails
    PROVE  faults' \in Nat /\ (faults' = faults => Odd(file))
BY FaultCounted DEF ScanFails, ReadFault, JournalPart

(* What load() leaves in the store and in the caller's buffer; when it fails  *)
(* on a file whose size can be told, a read failed or there is nothing in it. *)
LEMMA LoadPart ==
    ASSUME JournalPart, BootSizeFails \/ LoadSucceeds \/ LoadFails
    PROVE  /\ latestSequence' \in Nat /\ bootBuf' \in Good /\ faults' \in Nat
           /\ LoadFails /\ ~Odd(file) /\ faults' = faults => scan(file) = NoRecord
<1>0. file \in Seq(Units) /\ Sound(file) /\ latestSequence \in Nat
    BY DEF JournalPart
<1>1. ASSUME BootSizeFails
      PROVE  latestSequence' \in Nat /\ bootBuf' \in Good /\ faults' \in Nat
    BY <1>0, <1>1, ScanFailsPart, GoodContents DEF BootSizeFails
<1>2. ASSUME LoadSucceeds
      PROVE  latestSequence' \in Nat /\ bootBuf' \in Good /\ faults' \in Nat
    <2>1. PICK U \in Unreadable : seen(file, U) # NoRecord /\ PayloadReads(U) /\ Scanned(U) /\ bootBuf' = seen(file, U).payload
        BY <1>2 DEF LoadSucceeds
    <2>2. bootBuf' \in Good
        BY <1>0, <2>1, ScanIsSound
    <2> QED BY <2>1, <2>2, ScannedPart, ReadsCounted
<1>3. ASSUME LoadScanFails
      PROVE  /\ latestSequence' \in Nat /\ bootBuf' \in Good /\ faults' \in Nat
             /\ faults' = faults => Odd(file)
    BY <1>0, <1>3, ScanFailsPart, GoodContents DEF LoadScanFails
<1>4. ASSUME LoadReadFails
      PROVE  latestSequence' \in Nat /\ bootBuf' \in Good /\ faults' \in Nat /\ faults' # faults
    <2>1. PICK U \in Unreadable : seen(file, U) # NoRecord /\ Scanned(U)
        BY <1>4 DEF LoadReadFails
    <2>2. Fault /\ bootBuf' = Mixed
        BY <1>4 DEF LoadReadFails, ReadFault
    <2> QED BY <2>1, <2>2, ScannedPart, FaultCounted DEF Good, AllPayloads
<1>5. ASSUME LoadFindsNothing
      PROVE  /\ latestSequence' \in Nat /\ bootBuf' \in Good /\ faults' \in Nat
             /\ faults' = faults => scan(file) = NoRecord
    <2>1. PICK U \in Unreadable : seen(file, U) = NoRecord /\ PayloadReads(U) /\ Scanned(U)
        BY <1>5 DEF LoadFindsNothing
    <2>2. faults' = faults => U = {}
        BY <2>1, ReadsCounted
    <2>3. faults' = faults => scan(file) = NoRecord
        BY <2>1, <2>2 DEF scan
    <2>4. bootBuf' = Defaults
        BY <1>5 DEF LoadFindsNothing
    <2> QED BY <2>1, <2>3, <2>4, ScannedPart, ReadsCounted, GoodContents
<1> QED BY <1>1, <1>2, <1>3, <1>4, <1>5 DEF LoadFails

LEMMA BootPart ==
    ASSUME JournalPart, BootLoad \/ BootVerify
    PROVE  JournalPart'
<1>1. /\ BootSizeFails \/ LoadSucceeds \/ LoadFails
      /\ UNCHANGED <<file, synced, op>>
      /\ boot' = "init" => LoadFails /\ ~Odd(file) /\ misread' = (faults' # faults)
    BY DEF BootLoad, BootVerify
<1>2. /\ file \in Seq(Units) /\ Sound(file) /\ synced \in 0 .. Len(file)
      /\ op = Idle \/ op \in BusyOps
    BY DEF JournalPart
<1>3. latestSequence' \in Nat /\ bootBuf' \in Good /\ faults' \in Nat
    BY <1>1, LoadPart
<1>4. ASSUME boot' = "init", ~misread' PROVE Newest' = NoRecord
    <2>1. scan(file) = NoRecord
        <3>1. LoadFails /\ ~Odd(file) /\ faults' = faults
            BY <1>1, <1>4
        <3> QED BY <3>1, LoadPart
    <2>2. Durable \in Seq(Units) /\ Longer(file, Durable)
        <3>1. Durable \in Seq(Units) /\ Len(Durable) = synced /\ \A i \in 1 .. synced : Durable[i] = file[i]
            BY <1>2, Prefix DEF Durable
        <3> QED BY <1>2, <3>1, FileFacts DEF Longer
    <2>3. Sound(Durable)
        BY <1>2, SoundPrefix DEF Durable
    <2>4. Newest = NoRecord
        BY <1>2, <2>1, <2>2, <2>3, NothingInAPrefix DEF Newest
    <2> QED BY <1>1, <2>4 DEF Newest, Durable
<1> QED BY <1>1, <1>2, <1>3, <1>4 DEF JournalPart

LEMMA StartPart ==
    ASSUME JournalPart, NEW p \in Good, CommitStart(p)
    PROVE  JournalPart'
<1>1. /\ UNCHANGED <<file, synced, boot, bootBuf, misread>> /\ KnownSequence
      /\ op' = [phase |-> "header", seq |-> latestSequence' + 1, payload |-> p, at |-> 0]
    BY DEF CommitStart
<1>2. latestSequence' \in Nat /\ faults' \in Nat
    <2>1. CASE UNCHANGED <<latestSequence, faults>>
        BY <2>1 DEF JournalPart
    <2>2. CASE \E U \in Unreadable : PayloadReads(U) /\ Scanned(U)
        BY <2>2, ScannedPart, ReadsCounted
    <2> QED BY <1>1, <2>1, <2>2 DEF KnownSequence
<1>3. op' \in BusyOps
    <2>1. latestSequence' + 1 \in Nat
        BY <1>2, OneFaultMore, Zenon
    <2> QED BY <1>1, <2>1 DEF BusyOps
<1>4. Newest' = Newest
    BY <1>1 DEF Newest, Durable
<1> QED BY <1>1, <1>2, <1>3, <1>4 DEF JournalPart

(* A longer file, with what was synced of it unchanged. *)
LEMMA DurableKept ==
    ASSUME JournalPart, file' \in Seq(Units), Longer(file', file), synced' = synced
    PROVE  Newest' = Newest /\ synced' \in 0 .. Len(file')
<1>1. file \in Seq(Units) /\ synced \in 0 .. Len(file)
    BY DEF JournalPart
<1>2. Durable' = Durable
    BY <1>1, SamePrefix DEF Durable
<1>3. Newest' = Newest
    BY <1>2 DEF Newest
<1>4. Len(file') >= Len(file) /\ Len(file) \in Nat /\ Len(file') \in Nat
    BY <1>1, FileFacts DEF Longer
<1> QED BY <1>1, <1>3, <1>4

LEMMA AppendPart ==
    ASSUME JournalPart, NEW buf \in Contents, CommitAppend(buf)
    PROVE  JournalPart'
<1> DEFINE u == NextUnit(buf)
<1>1. /\ op.phase \in {"header", "payload", "trailer"} /\ file' = Append(file, u) /\ op' = AfterAppend
      /\ UNCHANGED <<synced, latestSequence, boot, bootBuf, faults, misread>>
    BY DEF CommitAppend, Appending, historyVars
<1>2. op \in BusyOps
    BY <1>1 DEF JournalPart, Idle
<1>3. op.seq \in Nat /\ op.payload \in Good /\ op.payload \in Contents /\ op.at \in Nat
    BY <1>2, GoodContents DEF BusyOps
<1>4. u \in Units /\ (u.kind = "header" => u.payload \in Good)
    <2>0. CASE Odd(file)
        BY <2>0, GoodContents DEF NextUnit, Half, Units
    <2>1. CASE ~Odd(file) /\ op.phase = "header"
        <3>1. u = Header(op.seq, op.payload)
            BY <2>1 DEF NextUnit
        <3> QED BY <1>3, <3>1 DEF Header, Units
    <2>2. CASE ~Odd(file) /\ op.phase = "payload"
        <3>1. u = Chunk(buf, op.at)
            BY <2>2 DEF NextUnit
        <3> QED BY <1>3, <3>1 DEF Chunk, Units
    <2>3. CASE ~Odd(file) /\ op.phase = "trailer"
        <3>1. u = Trailer(op.seq)
            BY <2>3 DEF NextUnit
        <3> QED BY <1>3, <3>1, GoodContents DEF Trailer, Units
    <2> QED BY <1>1, <2>0, <2>1, <2>2, <2>3
<1> HIDE DEF u
<1>5. file \in Seq(Units) /\ Len(file) \in Nat /\ Sound(file)
    BY FileFacts DEF JournalPart
<1>6. /\ file' \in Seq(Units) /\ Len(file') = Len(file) + 1
      /\ file'[Len(file) + 1] = u /\ \A i \in 1 .. Len(file) : file'[i] = file[i]
    BY <1>1, <1>4, <1>5, UnitMore
<1>7. Longer(file', file)
    BY <1>5, <1>6 DEF Longer
<1>8. Sound(file')
    <2> SUFFICES ASSUME NEW i \in 1 .. Len(file'), file'[i].kind = "header" PROVE file'[i].payload \in Good
        BY DEF Sound
    <2>1. CASE i = Len(file) + 1
        BY <1>4, <1>6, <2>1
    <2>2. CASE i # Len(file) + 1
        <3>1. i \in 1 .. Len(file)
            BY <1>5, <1>6, <2>2
        <3> QED BY <1>5, <1>6, <3>1 DEF Sound
    <2> QED BY <2>1, <2>2
<1>9. op' \in BusyOps
    <2>1. op.at + 1 \in Nat
        BY <1>3
    <2> QED BY <1>1, <1>2, <2>1 DEF AfterAppend, BusyOps
<1>10. Newest' = Newest /\ synced' \in 0 .. Len(file')
    BY <1>1, <1>6, <1>7, DurableKept
<1> QED BY <1>1, <1>6, <1>8, <1>9, <1>10 DEF JournalPart

LEMMA ReturnPart ==
    ASSUME JournalPart, NEW ok, Returned(ok), file' \in Seq(Units), Sound(file'), synced' \in 0 .. Len(file'),
           latestSequence' \in Nat, bootBuf' = bootBuf, faults' \in Nat
    PROVE  JournalPart'
<1>1. op' = Idle /\ boot' # "init"
    BY DEF Returned
<1> QED BY <1>1 DEF JournalPart

(* A fragment holds no header. *)
LEMMA FragmentSound ==
    ASSUME NEW f \in Seq(Units), Sound(f), NEW torn \in Fragments, NEW g, g = f \o torn
    PROVE  g \in Seq(Units) /\ Longer(g, f) /\ Sound(g)
<1>1. /\ g \in Seq(Units) /\ Len(g) \in {Len(f), Len(f) + 1} /\ Len(f) \in Nat
      /\ \A i \in 1 .. Len(f) : g[i] = f[i]
      /\ Len(g) = Len(f) + 1 => g[Len(f) + 1].kind \in {"junk", "half"}
    BY FragmentMore, FileFacts
<1>2. Longer(g, f)
    BY <1>1 DEF Longer
<1>3. Sound(g)
    <2> SUFFICES ASSUME NEW i \in 1 .. Len(g), g[i].kind = "header" PROVE g[i].payload \in Good
        BY DEF Sound
    <2>1. CASE i = Len(f) + 1
        <3>1. Len(g) = Len(f) + 1
            BY <1>1, <2>1
        <3> QED BY <1>1, <2>1, <3>1
    <2>2. CASE i # Len(f) + 1
        <3>1. i \in 1 .. Len(f)
            BY <1>1, <2>2
        <3> QED BY <1>1, <3>1 DEF Sound
    <2> QED BY <2>1, <2>2
<1> QED BY <1>1, <1>2, <1>3

LEMMA AppendFailsPart ==
    ASSUME JournalPart, CommitAppendFails
    PROVE  JournalPart'
<1>1. /\ Returned(FALSE) /\ UNCHANGED <<synced, latestSequence, bootBuf>> /\ faults' \in Nat
    BY FaultCounted DEF CommitAppendFails
<1>2. PICK t \in Fragments : file' = file \o t
    BY DEF CommitAppendFails
<1>3. file \in Seq(Units) /\ Len(file) \in Nat /\ Sound(file) /\ latestSequence \in Nat
    BY FileFacts DEF JournalPart
<1>4. file' \in Seq(Units) /\ Longer(file', file) /\ Sound(file')
    BY <1>2, <1>3, FragmentSound
<1>5. synced' \in 0 .. Len(file')
    BY <1>1, <1>4, DurableKept
<1> QED BY <1>1, <1>3, <1>4, <1>5, ReturnPart

(* commit() could not recover the sequence: nothing was written.              *)
LEMMA NoScanPart ==
    ASSUME JournalPart, CommitScanFails
    PROVE  JournalPart'
<1>1. /\ Returned(FALSE) /\ UNCHANGED <<file, synced, latestSequence, bootBuf>> /\ faults' \in Nat
    BY ScanFailsPart DEF CommitScanFails
<1>2. file \in Seq(Units) /\ Sound(file) /\ synced \in 0 .. Len(file) /\ latestSequence \in Nat
    BY DEF JournalPart
<1>3. file' \in Seq(Units) /\ Sound(file') /\ synced' \in 0 .. Len(file') /\ latestSequence' \in Nat
    BY <1>1, <1>2
<1> QED BY <1>1, <1>3, ReturnPart

LEMMA SyncPart ==
    ASSUME JournalPart, CommitSync \/ CommitSyncFails
    PROVE  JournalPart'
<1>1. file \in Seq(Units) /\ Len(file) \in Nat /\ Sound(file) /\ latestSequence \in Nat /\ synced \in 0 .. Len(file)
    BY FileFacts DEF JournalPart
<1>f. faults' \in Nat
    BY FaultCounted DEF CommitSync, CommitSyncFails, JournalPart
<1>2. op \in BusyOps
    <2>1. op.phase = "sync"
        BY DEF CommitSync, CommitSyncFails
    <2> QED BY <2>1 DEF JournalPart, Idle
<1>3. op.seq \in Nat
    BY <1>2 DEF BusyOps
<1>4. /\ file' = file /\ bootBuf' = bootBuf /\ latestSequence' \in Nat /\ synced' \in 0 .. Len(file')
    <2>1. /\ file' = file /\ bootBuf' = bootBuf /\ latestSequence' \in {latestSequence, op.seq}
          /\ synced' \in {synced, Len(file)}
        BY DEF CommitSync, CommitSyncFails
    <2> QED BY <1>1, <1>3, <2>1
<1>5. CASE Returned(TRUE)
    BY <1>1, <1>4, <1>5, <1>f, ReturnPart
<1>6. CASE Returned(FALSE)
    BY <1>1, <1>4, <1>6, <1>f, ReturnPart
<1> QED BY <1>5, <1>6 DEF CommitSync, CommitSyncFails

LEMMA ResetPart ==
    ASSUME JournalPart, Reset
    PROVE  JournalPart'
<1>1. PICK n \in synced .. Len(file), torn \in Fragments : file' = SubSeq(file, 1, n) \o torn
    BY DEF Reset
<1>2. latestSequence' = 0 /\ op' = Idle /\ boot' = "load" /\ bootBuf' = Defaults /\ synced' = Len(file') /\ faults' \in Nat
    BY FaultCounted DEF Reset
<1>3. file \in Seq(Units) /\ Len(file) \in Nat /\ synced \in 0 .. Len(file) /\ Sound(file)
    BY FileFacts DEF JournalPart
<1>4. n \in 0 .. Len(file)
    BY <1>3
<1>5. SubSeq(file, 1, n) \in Seq(Units) /\ Sound(SubSeq(file, 1, n))
    BY <1>3, <1>4, Prefix, SoundPrefix
<1>6. file' \in Seq(Units) /\ Sound(file')
    BY <1>1, <1>5, FragmentSound
<1>7. synced' \in 0 .. Len(file')
    BY <1>2, <1>6, FileFacts
<1> QED BY <1>2, <1>6, <1>7, GoodContents DEF JournalPart

LEMMA PathStep == PathInv /\ [Next]_vars => PathInv'
<1> SUFFICES ASSUME PathInv, [Next]_vars PROVE PathInv'
    OBVIOUS
<1>i. JournalPart /\ MailPart
    BY DEF PathInv
<1>t. /\ shadow \in Good /\ staging \in Good \cup {Garbled} /\ bootBuf \in Good /\ mailbox \in Mailboxes
      /\ api = ApiIdle \/ api.payload \in Good
    BY DEF PathInv, JournalPart, MailPart
<1>m. mailbox.payload \in Contents
    BY <1>t DEF Mailboxes
<1>1. CASE GaitPress
    <2>1. PICK g \in Gaits : gaitPending' = g
        BY <1>1 DEF GaitPress
    <2>2. UNCHANGED <<storeVars, shadow, staging, mailbox, api>>
        BY <1>1 DEF GaitPress, apiVars, boxVars
    <2>3. JournalPart'
        BY <1>i, <2>2, JournalKept
    <2> QED BY <1>i, <2>1, <2>2, <2>3 DEF MailPart, PathInv
<1>2. CASE AdoptPayload \/ SetBlock \/ ResetDefaults
    <2>1. UNCHANGED <<storeVars, mailbox, api, gaitRequested, gaitPending>>
        BY <1>2 DEF AdoptPayload, SetBlock, ResetDefaults, boxVars, gaitVars
    <2>2. shadow' \in Good /\ staging' \in Good \cup {Garbled}
        BY <1>2, <1>t, GoodContents DEF AdoptPayload, SetBlock, ResetDefaults, Good, AllPayloads
    <2>3. JournalPart'
        BY <1>i, <2>1, JournalKept
    <2> QED BY <1>i, <2>1, <2>2, <2>3 DEF MailPart, PathInv
<1>3. CASE Commit \/ SaveGait
    <2>1. PICK pc \in {"commit", "gait"}, p \in Good : Post(pc, p)
        <3>1. CASE Commit
            <4>1. staging \in Good /\ Post("commit", staging)
                BY <1>t, <3>1 DEF Commit
            <4> QED BY <4>1
        <3>2. CASE SaveGait
            <4>1. gaitPending \in Gaits /\ Post("gait", [shadow EXCEPT !.gait = gaitPending])
                BY <1>i, <3>2 DEF SaveGait, MailPart
            <4>2. [shadow EXCEPT !.gait = gaitPending] \in Good
                BY <1>t, <4>1, CommitAssumption DEF Good, AllPayloads
            <4> QED BY <4>1, <4>2
        <3> QED BY <1>3, <3>1, <3>2
    <2>2. /\ UNCHANGED <<storeVars, shadow, staging>>
          /\ mailbox' = [requested |-> TRUE, ok |-> FALSE, payload |-> p]
          /\ api' = [pc |-> pc, payload |-> p]
        BY <2>1 DEF Post, apiVars
    <2>3. UNCHANGED <<gaitRequested, gaitPending>>
        BY <1>3 DEF Commit, SaveGait, gaitVars
    <2>4. mailbox' \in Mailboxes /\ mailbox'.payload \in Good /\ api'.payload \in Good
        BY <2>1, <2>2, GoodContents DEF Mailboxes
    <2>5. JournalPart'
        BY <1>i, <2>2, JournalKept
    <2>6. MailPart'
        BY <1>i, <2>2, <2>3, <2>4 DEF MailPart
    <2> QED BY <2>5, <2>6 DEF PathInv
<1>4. CASE SaveGaitRefused
    <2>1. UNCHANGED <<storeVars, shadow, staging, mailbox, api, gaitPending>> /\ ~gaitRequested'
        BY <1>4 DEF SaveGaitRefused, apiVars, boxVars
    <2>2. JournalPart'
        BY <1>i, <2>1, JournalKept
    <2> QED BY <1>i, <2>1, <2>2 DEF MailPart, PathInv
<1>5. CASE WaitSucceeds \/ WaitTimesOut
    <2>1. PICK ok \in {mailbox.ok, FALSE} : CommitReturns(ok) /\ api # ApiIdle
        BY <1>5 DEF WaitSucceeds, WaitTimesOut
    <2>2. /\ UNCHANGED <<storeVars, mailbox, gaitPending>> /\ api' = ApiIdle
          /\ shadow' \in {shadow, api.payload} /\ staging' \in {staging, api.payload}
          /\ gaitRequested' => gaitRequested
        BY <2>1 DEF CommitReturns
    <2>3. api.payload \in Good
        BY <1>t, <2>1
    <2>4. JournalPart'
        BY <1>i, <2>2, JournalKept
    <2>5. shadow' \in Good /\ staging' \in Good \cup {Garbled}
        BY <1>t, <2>2, <2>3
    <2>6. MailPart'
        BY <1>i, <2>2, <2>5 DEF MailPart
    <2> QED BY <2>4, <2>6 DEF PathInv
<1>6. CASE I2cBoot
    <2>1. UNCHANGED <<shadow, staging, mailbox, api, gaitRequested, gaitPending>>
        BY <1>6 DEF I2cBoot, i2cOnly, apiVars, gaitVars
    <2>2. JournalPart'
        <3>1. CASE BootLoad \/ BootVerify
            BY <1>i, <3>1, BootPart
        <3>3. CASE BootInit
            BY <1>i, <1>t, <3>3, StartPart DEF BootInit
        <3>4. CASE CommitAppend(bootBuf)
            BY <1>i, <1>t, <3>4, GoodContents, AppendPart
        <3>5. CASE CommitAppendFails
            BY <1>i, <3>5, AppendFailsPart
        <3>6. CASE CommitSync \/ CommitSyncFails
            BY <1>i, <3>6, SyncPart
        <3>7. CASE CommitScanFails
            BY <1>i, <3>7, NoScanPart
        <3> QED BY <1>6, <3>1, <3>3, <3>4, <3>5, <3>6, <3>7 DEF I2cBoot
    <2> QED BY <1>i, <2>1, <2>2, MailKept DEF PathInv
<1>7. CASE I2cCommit
    <2>1. /\ UNCHANGED <<shadow, staging, mailbox, api, gaitRequested, gaitPending>>
          /\ mailbox.requested /\ CommitStart(mailbox.payload)
        BY <1>7 DEF I2cCommit, i2cOnly, apiVars, gaitVars
    <2>2. mailbox.payload \in Good
        BY <1>i, <2>1 DEF MailPart
    <2>3. JournalPart'
        BY <1>i, <2>1, <2>2, StartPart
    <2> QED BY <1>i, <2>1, <2>3, MailKept DEF PathInv
<1>8. CASE I2cWrite
    <2>1. UNCHANGED <<shadow, staging, mailbox, api, gaitRequested, gaitPending>>
        BY <1>8 DEF I2cWrite, i2cOnly, apiVars, gaitVars
    <2>2. JournalPart'
        <3>1. CASE CommitAppend(mailbox.payload)
            BY <1>i, <1>m, <3>1, AppendPart
        <3>2. CASE CommitAppendFails
            BY <1>i, <3>2, AppendFailsPart
        <3>3. CASE CommitSync \/ CommitSyncFails
            BY <1>i, <3>3, SyncPart
        <3> QED BY <1>8, <3>1, <3>2, <3>3 DEF I2cWrite
    <2> QED BY <1>i, <2>1, <2>2, MailKept DEF PathInv
<1>9. CASE I2cReport
    <2>1. /\ UNCHANGED <<storeVars, shadow, staging, api, gaitRequested, gaitPending>>
          /\ mailbox' = [mailbox EXCEPT !.ok = (i2c = "ok"), !.requested = FALSE]
        BY <1>9 DEF I2cReport, apiVars, gaitVars
    <2>2. mailbox' \in Mailboxes /\ ~mailbox'.requested
        <3>1. (i2c = "ok") \in BOOLEAN
            OBVIOUS
        <3> QED BY <1>t, <2>1, <3>1 DEF Mailboxes
    <2>3. JournalPart'
        BY <1>i, <2>1, JournalKept
    <2> QED BY <1>i, <2>1, <2>2, <2>3 DEF MailPart, PathInv
<1>10. CASE PowerCycle
    <2>1. /\ Reset /\ shadow' = Defaults /\ staging' = Defaults /\ api' = ApiIdle
          /\ mailbox' = EmptyMailbox /\ ~gaitRequested'
        BY <1>10 DEF PowerCycle
    <2>2. mailbox' \in Mailboxes /\ ~mailbox'.requested
        BY <2>1, GoodContents DEF EmptyMailbox, Mailboxes
    <2>3. JournalPart'
        BY <1>i, <2>1, ResetPart
    <2> QED BY <2>1, <2>2, <2>3, GoodContents DEF MailPart, PathInv
<1>11. CASE UNCHANGED vars
    <2>1. UNCHANGED <<storeVars, shadow, staging, mailbox, api, gaitRequested, gaitPending>>
        BY <1>11 DEF vars, apiVars, gaitVars, boxVars
    <2>2. JournalPart' /\ MailPart'
        BY <1>i, <2>1, JournalKept, MailKept
    <2> QED BY <2>2 DEF PathInv
<1> QED BY <1>1, <1>2, <1>3, <1>4, <1>5, <1>6, <1>7, <1>8, <1>9, <1>10, <1>11 DEF Next, HostRequest, ApiTask, I2cTask

(* For any payloads, payload length and number of append, sync and read       *)
(* faults and resets: loadOrInitializeConfig (config/config_bootstrap.cpp) is *)
(* about to commit its buffer in front of a durable record only in an attempt *)
(* in which a read of the card failed; a torn tail, a reset or a failed write *)
(* never makes it do so.                                                      *)
THEOREM BootKeepsReadable == Spec => []BootPreservesReadable
<1>1. Init => PathInv
    <2> SUFFICES ASSUME Init PROVE PathInv
        OBVIOUS
    <2>1. /\ file \in Fragments /\ synced = Len(file) /\ latestSequence = 0 /\ op = Idle /\ boot = "load" /\ bootBuf = Defaults /\ faults = 0
        BY DEF Init, StoreInit
    <2>2. file \in Seq(Units) /\ Sound(file)
        <3>1. <<>> \in Seq(Units) /\ Sound(<<>>)
            BY DEF Sound
        <3>2. <<>> \o file = file
            BY <2>1 DEF Fragments
        <3> QED BY <2>1, <3>1, <3>2, FragmentSound
    <2>3. synced \in 0 .. Len(file)
        BY <2>1, <2>2, FileFacts
    <2>4. JournalPart
        BY <2>1, <2>2, <2>3, GoodContents DEF JournalPart
    <2>5. /\ mailbox = EmptyMailbox /\ shadow = Defaults /\ staging = Defaults /\ api = ApiIdle /\ ~gaitRequested
        BY DEF Init
    <2>6. mailbox \in Mailboxes /\ ~mailbox.requested
        BY <2>5, GoodContents DEF EmptyMailbox, Mailboxes
    <2>7. MailPart
        BY <2>5, <2>6, GoodContents DEF MailPart
    <2> QED BY <2>4, <2>7 DEF PathInv
<1>2. PathInv /\ [Next]_vars => PathInv'
    BY PathStep
<1>3. PathInv => BootPreservesReadable
    BY DEF PathInv, JournalPart, BootPreservesReadable
<1> QED BY <1>1, <1>2, <1>3, PTL DEF Spec

=============================================================================
