---------------------------- MODULE InputProofs ----------------------------
(***************************************************************************)
(* Proofs about the way from the handset to the joints: the gait saved from *)
(* the handset is stored once and never rolled back, the joints start to    *)
(* move from where they are and from rest, a switch acts on what the        *)
(* operator has held long enough, once, and the radio link recovers from    *)
(* whatever bytes arrive.                                                   *)
(***************************************************************************)
EXTENDS GaitSave, MotionCore, RcBridge, CrsfLink, FiniteSetTheorems, TLAPS

(***************************************************************************)
(* The gait save.  The numbers a press passes through are ordered: what is  *)
(* stored was taken, what is taken was handed over, what is handed over was *)
(* pressed; and a request that is still open is for a press newer than the  *)
(* stored one, which is why it has not been committed before.               *)
(***************************************************************************)
SaveTypeOK ==
    /\ {presses, handledSeq, pending, saving, edits} \subseteq Nat
    /\ requested \in BOOLEAN
    /\ shadow \in [gait : Nat, host : Nat] /\ staging \in [gait : Nat, host : Nat]
    /\ commits \in [1..MaxPresses -> Nat]

SaveOrder ==
    /\ presses <= MaxPresses /\ handledSeq <= presses /\ pending <= handledSeq
    /\ shadow.gait <= pending /\ staging.gait = shadow.gait
    /\ (requested /\ saving = 0) => shadow.gait < pending
    /\ saving # 0 => shadow.gait < saving /\ saving <= pending

CommittedUpTo == \A n \in 1..MaxPresses : commits[n] <= 1 /\ (commits[n] # 0 => n <= shadow.gait)

SaveInv == SaveTypeOK /\ SaveOrder /\ CommittedUpTo

LEMMA SaveInvStep == SaveInv /\ [SaveNext]_saveVars => SaveInv' /\ shadow'.gait >= shadow.gait
<1> SUFFICES ASSUME SaveInv, [SaveNext]_saveVars PROVE SaveInv' /\ shadow'.gait >= shadow.gait
    OBVIOUS
<1>m. MaxPresses \in Nat BY SaveAssumption
<1>t. /\ presses \in Nat /\ handledSeq \in Nat /\ pending \in Nat /\ saving \in Nat /\ edits \in Nat
      /\ requested \in BOOLEAN
      /\ shadow \in [gait : Nat, host : Nat] /\ staging \in [gait : Nat, host : Nat]
      /\ commits \in [1..MaxPresses -> Nat]
      /\ shadow.gait \in Nat
    BY DEF SaveInv, SaveTypeOK
<1>1. CASE PressSave
    BY <1>m, <1>t, <1>1 DEF PressSave, SaveInv, SaveTypeOK, SaveOrder, CommittedUpTo
<1>2. CASE ControlPublishes
    <2>1. UNCHANGED <<presses, saving, shadow, staging, commits, edits>> /\ presses # handledSeq
        BY <1>2 DEF ControlPublishes
    <2>2. CASE UNCHANGED <<handledSeq, pending, requested>>
        BY <1>m, <1>t, <2>1, <2>2 DEF SaveInv, SaveTypeOK, SaveOrder, CommittedUpTo
    <2>3. CASE handledSeq' = presses /\ pending' = presses /\ requested' = TRUE
        <3>1. requested' \in BOOLEAN BY <2>3
        <3> QED BY <1>m, <1>t, <2>1, <2>3, <3>1 DEF SaveInv, SaveTypeOK, SaveOrder, CommittedUpTo
    <2> QED BY <1>2, <2>2, <2>3 DEF ControlPublishes, HandOver
<1>3. CASE ApiTakes
    <2>1. /\ UNCHANGED <<presses, handledSeq, pending, shadow, staging, commits, edits>>
          /\ requested' \in BOOLEAN
        BY <1>t, <1>3 DEF ApiTakes
    <2>2. \/ saving' = pending /\ shadow.gait < pending
          \/ saving' = 0 /\ ~requested'
        BY <1>t, <1>3 DEF ApiTakes, SaveInv, SaveOrder
    <2> QED BY <1>m, <1>t, <2>1, <2>2 DEF SaveInv, SaveTypeOK, SaveOrder, CommittedUpTo
<1>4. CASE ApiFinishes
    <2>1. /\ UNCHANGED <<presses, handledSeq, pending, edits>>
          /\ saving # 0 /\ saving' = 0 /\ ~requested' /\ requested' \in BOOLEAN
        BY <1>4 DEF ApiFinishes
    <2>o. shadow.gait < saving /\ saving <= pending /\ saving \in 1..MaxPresses
        BY <1>m, <1>t, <2>1 DEF SaveInv, SaveOrder
    <2>2. CASE UNCHANGED <<shadow, staging, commits>>
        BY <1>m, <1>t, <2>1, <2>2 DEF SaveInv, SaveTypeOK, SaveOrder, CommittedUpTo
    <2>3. CASE /\ shadow' = [shadow EXCEPT !.gait = saving] /\ staging' = shadow'
               /\ commits' = [commits EXCEPT ![saving] = @ + 1]
        <3>1. /\ shadow' \in [gait : Nat, host : Nat] /\ shadow'.gait = saving /\ staging' = shadow'
            BY <1>t, <2>3
        <3>2. commits[saving] = 0
            BY <1>t, <2>o DEF SaveInv, CommittedUpTo
        <3>3. commits' \in [1..MaxPresses -> Nat] /\ commits'[saving] = 1
            BY <1>t, <2>o, <2>3, <3>2
        <3>4. \A n \in 1..MaxPresses : n # saving => commits'[n] = commits[n]
            BY <1>t, <2>3
        <3>5. CommittedUpTo'
            BY <1>m, <1>t, <2>o, <3>1, <3>3, <3>4 DEF SaveInv, CommittedUpTo
        <3> QED BY <1>m, <1>t, <2>1, <2>o, <3>1, <3>3, <3>5 DEF SaveInv, SaveTypeOK, SaveOrder
    <2> QED BY <1>4, <2>2, <2>3 DEF ApiFinishes, RestagedFrom
<1>5. CASE HostEdits
    <2>1. /\ UNCHANGED <<presses, handledSeq, pending, requested, saving, shadow, commits>>
          /\ edits' = edits + 1 /\ staging' = [staging EXCEPT !.host = edits']
        BY <1>5 DEF HostEdits
    <2>2. staging' \in [gait : Nat, host : Nat] /\ staging'.gait = staging.gait
        BY <1>t, <2>1
    <2> QED BY <1>m, <1>t, <2>1, <2>2 DEF SaveInv, SaveTypeOK, SaveOrder, CommittedUpTo
<1>6. CASE HostCommits
    BY <1>m, <1>t, <1>6 DEF HostCommits, SaveInv, SaveTypeOK, SaveOrder, CommittedUpTo
<1>7. CASE UNCHANGED saveVars
    BY <1>m, <1>t, <1>7 DEF saveVars, SaveInv, SaveTypeOK, SaveOrder, CommittedUpTo
<1> QED BY <1>1, <1>2, <1>3, <1>4, <1>5, <1>6, <1>7 DEF SaveNext

(***************************************************************************)
(* For any number of presses and of host edits, whatever the order of the   *)
(* three tasks' steps: a press of the save button is committed at most once, *)
(* and no commit, of the host either, takes the stored gait back (tasks.cpp, *)
(* publishControllerCommand and apiTask; ConfigApi::saveGaitDefaults).      *)
(***************************************************************************)
THEOREM PressesSaveOnce == SaveSpec => GaitSavesHold
<1>1. SaveInit => SaveInv
    <2> SUFFICES ASSUME SaveInit PROVE SaveInv
        OBVIOUS
    <2>1. shadow \in [gait : Nat, host : Nat] /\ shadow.gait = 0 /\ staging = shadow
        BY DEF SaveInit
    <2>r. ~requested /\ requested \in BOOLEAN
        BY DEF SaveInit
    <2>2. commits \in [1..MaxPresses -> Nat] /\ \A n \in 1..MaxPresses : commits[n] = 0
        BY DEF SaveInit
    <2> QED BY SaveAssumption, <2>1, <2>r, <2>2 DEF SaveInit, SaveInv, SaveTypeOK, SaveOrder, CommittedUpTo
<1>2. SaveInv /\ [SaveNext]_saveVars => SaveInv'
    BY SaveInvStep
<1>3. SaveInv /\ [SaveNext]_saveVars => [shadow'.gait >= shadow.gait]_saveVars
    BY SaveInvStep
<1>4. SaveInv => SavedAtMostOnce
    BY DEF SaveInv, CommittedUpTo, SavedAtMostOnce
<1> QED BY <1>1, <1>2, <1>3, <1>4, PTL DEF SaveSpec, GaitSavesHold, GaitNeverRollsBack

-----------------------------------------------------------------------------
(* A set of naturals that is not empty has a least member. *)
LEMMA LeastNatural == ASSUME NEW S \in SUBSET Nat, S # {} PROVE \E m \in S : \A n \in S : m <= n
<1> DEFINE R == OpToRel(<, Nat)
<1>1. IsWellFoundedOn(R, Nat)
    BY NatLessThanWellFounded
<1>2. \A a, b \in Nat : <<a, b>> \in R <=> a < b
    BY DEF OpToRel
<1> HIDE DEF R
<1>3. PICK x \in S : \A y \in S : ~ (<<y, x>> \in R)
    BY <1>1, WFMin, Zenon
<1>4. \A y \in S : ~(y < x)
    BY <1>2, <1>3, Zenon
<1>5. \A y \in S : x <= y
    BY <1>4
<1> QED BY <1>5

(* What holds of a number when it holds of all smaller ones holds of all. *)
LEMMA LessFirst ==
    ASSUME NEW S, \A k \in Nat : (\A j \in 0 .. k - 1 : j \in S) => k \in S
    PROVE  \A k \in Nat : k \in S
<1> SUFFICES ASSUME NEW k \in Nat, k \notin S PROVE FALSE
    OBVIOUS
<1> DEFINE T == {n \in Nat : n \notin S}
<1>1. T \in SUBSET Nat /\ T # {}
    OBVIOUS
<1>2. PICK m \in T : \A n \in T : m <= n
    BY <1>1, LeastNatural
<1>3. \A j \in 0 .. m - 1 : j \in S
    <2> TAKE j \in 0 .. m - 1
    <2>1. j \in Nat /\ j < m
        BY <1>2
    <2>2. ~(m <= j)
        BY <1>2, <2>1
    <2> QED BY <1>2, <2>1, <2>2
<1>4. m \in S
    BY <1>2, <1>3
<1> QED BY <1>2, <1>4

(* The smaller and the larger of two numbers. *)
LEMMA MinMaxOfTwo ==
    ASSUME NEW a \in Int, NEW b \in Int
    PROVE  /\ Min({a, b}) = IF a <= b THEN a ELSE b
           /\ Max({a, b}) = IF a <= b THEN b ELSE a
<1>1. Min({a, b}) \in {a, b} /\ \A y \in {a, b} : Min({a, b}) <= y
    <2>1. \E x \in {a, b} : \A y \in {a, b} : x <= y
        OBVIOUS
    <2> QED BY <2>1 DEF Min
<1>2. Max({a, b}) \in {a, b} /\ \A y \in {a, b} : Max({a, b}) >= y
    <2>1. \E x \in {a, b} : \A y \in {a, b} : x >= y
        OBVIOUS
    <2> QED BY <2>1 DEF Max
<1> QED BY <1>1, <1>2

(* A program has at least one segment, and each takes time. *)
IsProgram(p) ==
    /\ p.dur \in Seq(Nat) /\ Len(p.dur) >= 1 /\ \A s \in 1 .. Len(p.dur) : p.dur[s] > 0
    /\ p.loop \in BOOLEAN /\ p.hold \in BOOLEAN

(* The step at e looks at smaller times only ... *)
LEMMA AdvanceStepLocal ==
    ASSUME NEW p, IsProgram(p), NEW e \in Nat, NEW g, NEW h, \A x \in 0 .. e - 1 : g[x] = h[x]
    PROVE  AdvanceStep(p, g, e) = AdvanceStep(p, h, e)
<1>1. ASSUME NEW s \in 1 .. Len(p.dur), ~(e < p.dur[s]) PROVE g[e - p.dur[s]] = h[e - p.dur[s]]
    <2>1. p.dur[s] \in Nat /\ p.dur[s] > 0
        BY DEF IsProgram
    <2> QED BY <1>1, <2>1
<1> DEFINE G(k) == [s \in 1 .. Len(p.dur) |->
                       IF e < p.dur[s] THEN [seg |-> s, elapsed |-> e, end |-> "run"]
                       ELSE IF s < Len(p.dur) THEN k[e - p.dur[s]][s + 1]
                       ELSE IF p.loop THEN k[e - p.dur[s]][1]
                       ELSE [seg |-> s, elapsed |-> e - p.dur[s], end |-> IF p.hold THEN "held" ELSE "done"]]
<1>2. \A s \in 1 .. Len(p.dur) : G(g)[s] = G(h)[s]
    BY <1>1
<1>3. G(g) = G(h)
    BY <1>2
<1> QED BY <1>3 DEF AdvanceStep

(* ... so the recursive definition has a solution, and unfolds. *)
LEMMA AdvanceUnfolds ==
    ASSUME NEW p, IsProgram(p), NEW e0 \in Nat
    PROVE  \A e \in 0 .. e0 : Advances(p, e0)[e] = AdvanceStep(p, Advances(p, e0), e)
<1> DEFINE Solved(k) == \E g : \A e \in 0 .. k : g[e] = AdvanceStep(p, g, e)
           S == {k \in Nat : Solved(k)}
<1>1. ASSUME NEW k \in Nat, \A j \in 0 .. k - 1 : j \in S PROVE k \in S
    <2>1. PICK g : \A e \in 0 .. k - 1 : g[e] = AdvanceStep(p, g, e)
        <3>1. CASE k = 0
            BY <3>1
        <3>2. CASE k # 0
            <4>1. k - 1 \in S
                BY <1>1, <3>2
            <4> QED BY <4>1
        <3> QED BY <3>1, <3>2
    <2> DEFINE h == [e \in 0 .. k |-> IF e = k THEN AdvanceStep(p, g, e) ELSE g[e]]
    <2>2. ASSUME NEW e \in 0 .. k PROVE h[e] = AdvanceStep(p, h, e)
        <3>1. \A x \in 0 .. e - 1 : h[x] = g[x]
            OBVIOUS
        <3>2. h[e] = AdvanceStep(p, g, e)
            BY <2>1
        <3> HIDE DEF h
        <3>3. AdvanceStep(p, h, e) = AdvanceStep(p, g, e)
            BY <3>1, AdvanceStepLocal
        <3> QED BY <3>2, <3>3
    <2> HIDE DEF h
    <2> QED BY <2>2
<1>2. e0 \in S
    <2> HIDE DEF S
    <2> QED BY <1>1, LessFirst
<1>3. PICK g : \A e \in 0 .. e0 : g[e] = AdvanceStep(p, g, e)
    BY <1>2
<1> DEFINE Solves(x) == x = [e \in 0 .. e0 |-> AdvanceStep(p, x, e)]
           h == [e \in 0 .. e0 |-> g[e]]
<1>4. Solves(h)
    <2>1. ASSUME NEW e \in 0 .. e0 PROVE h[e] = AdvanceStep(p, h, e)
        <3>1. \A x \in 0 .. e - 1 : h[x] = g[x]
            OBVIOUS
        <3> HIDE DEF h
        <3>2. AdvanceStep(p, h, e) = AdvanceStep(p, g, e)
            BY <3>1, AdvanceStepLocal
        <3> QED BY <1>3, <3>2 DEF h
    <2> QED BY <2>1
<1>5. Advances(p, e0) = CHOOSE x : Solves(x)
    BY DEF Advances
<1> HIDE DEF h
<1>6. Solves(Advances(p, e0))
    <2> HIDE DEF Solves
    <2> QED BY <1>4, <1>5, Zenon
<1> QED BY <1>6

(* The same for the times at which segments begin. *)
LEMMA BeginsUnfolds ==
    ASSUME NEW p, IsProgram(p)
    PROVE  /\ Begins(p)[1] = 0
           /\ \A s \in 1 .. Len(p.dur) : Begins(p)[s + 1] = Begins(p)[s] + p.dur[s]
<1> DEFINE N == Len(p.dur) + 1
           Solved(k) == \E g : \A s \in 1 .. N : s <= k => g[s] = BeginsStep(p, g, s)
           S == {k \in Nat : Solved(k)}
<1>0. N \in Nat
    BY DEF IsProgram
<1>1. ASSUME NEW k \in Nat, \A j \in 0 .. k - 1 : j \in S PROVE k \in S
    <2>1. PICK g : \A s \in 1 .. N : s <= k - 1 => g[s] = BeginsStep(p, g, s)
        <3>1. CASE k = 0
            BY <1>0, <3>1
        <3>2. CASE k # 0
            <4>1. k - 1 \in S
                BY <1>1, <3>2
            <4> QED BY <4>1
        <3> QED BY <3>1, <3>2
    <2> DEFINE h == [s \in 1 .. N |-> IF s = k THEN BeginsStep(p, g, s) ELSE g[s]]
    <2>2. ASSUME NEW s \in 1 .. N, s <= k PROVE h[s] = BeginsStep(p, h, s)
        <3>1. s # 1 => h[s - 1] = g[s - 1]
            BY <1>0, <2>2
        <3>2. h[s] = BeginsStep(p, g, s)
            BY <1>0, <2>1, <2>2
        <3> HIDE DEF h
        <3>3. BeginsStep(p, h, s) = BeginsStep(p, g, s)
            BY <3>1 DEF BeginsStep
        <3> QED BY <3>2, <3>3
    <2> HIDE DEF h
    <2> QED BY <2>2
<1>2. N \in S
    <2> HIDE DEF S
    <2> QED BY <1>0, <1>1, LessFirst
<1>3. PICK g : \A s \in 1 .. N : g[s] = BeginsStep(p, g, s)
    BY <1>0, <1>2
<1> DEFINE Solves(x) == x = [s \in 1 .. N |-> BeginsStep(p, x, s)]
           h == [s \in 1 .. N |-> g[s]]
<1>4. Solves(h)
    <2>1. ASSUME NEW s \in 1 .. N PROVE h[s] = BeginsStep(p, h, s)
        <3>1. s # 1 => h[s - 1] = g[s - 1]
            BY <1>0
        <3> HIDE DEF h
        <3>2. BeginsStep(p, h, s) = BeginsStep(p, g, s)
            BY <3>1 DEF BeginsStep
        <3> QED BY <1>3, <3>2 DEF h
    <2> QED BY <2>1
<1>5. Begins(p) = CHOOSE x : Solves(x)
    BY DEF Begins
<1> HIDE DEF h
<1>6. Solves(Begins(p))
    <2> HIDE DEF Solves
    <2> QED BY <1>4, <1>5, Zenon
<1>7. \A s \in 1 .. N : Begins(p)[s] = BeginsStep(p, Begins(p), s)
    BY <1>6
<1>8. Begins(p)[1] = 0
    BY <1>0, <1>7 DEF BeginsStep, IsProgram
<1>9. ASSUME NEW s \in 1 .. Len(p.dur) PROVE Begins(p)[s + 1] = Begins(p)[s] + p.dur[s]
    <2>1. s + 1 \in 1 .. N /\ s + 1 # 1 /\ (s + 1) - 1 = s
        BY <1>0 DEF IsProgram
    <2>2. Begins(p)[s + 1] = BeginsStep(p, Begins(p), s + 1)
        BY <1>7, <2>1
    <2> QED BY <2>1, <2>2 DEF BeginsStep
<1> QED BY <1>8, <1>9

(***************************************************************************)
(* Where e units of time in segment s lead to: into a segment that is not  *)
(* over, and without a loop to the same distance from the beginning of the *)
(* program; or to its end.                                                 *)
(***************************************************************************)
Leads(p, s, e, a) ==
    /\ a.seg \in 1 .. Len(p.dur) /\ a.elapsed \in Nat
    /\ a.end \in {"run", "held", "done"}
    /\ a.end = "run" => /\ a.elapsed < p.dur[a.seg]
                        /\ ~p.loop => Begins(p)[a.seg] + a.elapsed = Begins(p)[s] + e
    /\ a.end # "run" => ~p.loop /\ Begins(p)[s] + e >= Begins(p)[Len(p.dur) + 1]

(* Segments begin at natural numbers. *)
LEMMA BeginsNatural ==
    ASSUME NEW p, IsProgram(p)
    PROVE  \A s \in 1 .. Len(p.dur) + 1 : Begins(p)[s] \in Nat
<1> DEFINE S == {k \in Nat : k \in 1 .. Len(p.dur) + 1 => Begins(p)[k] \in Nat}
<1>0. Len(p.dur) \in Nat /\ \A s \in 1 .. Len(p.dur) : p.dur[s] \in Nat
    BY DEF IsProgram
<1>1. ASSUME NEW k \in Nat, \A j \in 0 .. k - 1 : j \in S PROVE k \in S
    <2>1. CASE k <= 1
        BY <2>1, BeginsUnfolds
    <2>2. CASE k > 1 /\ k <= Len(p.dur) + 1
        <3>1. k - 1 \in 1 .. Len(p.dur) /\ k - 1 \in 0 .. k - 1 /\ (k - 1) + 1 = k
            BY <1>0, <2>2
        <3>2. Begins(p)[k - 1] \in Nat
            BY <1>0, <1>1, <3>1
        <3>3. Begins(p)[k] = Begins(p)[k - 1] + p.dur[k - 1]
            BY <3>1, BeginsUnfolds
        <3> QED BY <1>0, <3>1, <3>2, <3>3
    <2>3. CASE k > Len(p.dur) + 1
        BY <1>0, <2>3
    <2> QED BY <1>0, <2>1, <2>2, <2>3
<1>2. \A k \in Nat : k \in S
    <2> HIDE DEF S
    <2> QED BY <1>1, LessFirst
<1> QED BY <1>0, <1>2

LEMMA AdvanceLeads ==
    ASSUME NEW p, IsProgram(p), NEW s0 \in 1 .. Len(p.dur), NEW e0 \in Nat
    PROVE  Leads(p, s0, e0, Advance(p, s0, e0))
<1> DEFINE A == Advances(p, e0)
           S == {k \in Nat : k \in 0 .. e0 => \A s \in 1 .. Len(p.dur) : Leads(p, s, k, A[k][s])}
<1>0. /\ Len(p.dur) \in Nat /\ Len(p.dur) >= 1 /\ \A s \in 1 .. Len(p.dur) : p.dur[s] \in Nat /\ p.dur[s] > 0
      /\ p.loop \in BOOLEAN /\ p.hold \in BOOLEAN
    BY DEF IsProgram
<1>1. /\ \A s \in 1 .. Len(p.dur) + 1 : Begins(p)[s] \in Nat
      /\ \A s \in 1 .. Len(p.dur) : Begins(p)[s + 1] = Begins(p)[s] + p.dur[s]
    BY BeginsNatural, BeginsUnfolds
<1>2. \A k \in 0 .. e0 : A[k] = AdvanceStep(p, A, k)
    BY AdvanceUnfolds
<1> HIDE DEF A
<1>3. ASSUME NEW k \in Nat, \A j \in 0 .. k - 1 : j \in S PROVE k \in S
    <2> SUFFICES ASSUME k \in 0 .. e0, NEW s \in 1 .. Len(p.dur) PROVE Leads(p, s, k, A[k][s])
        OBVIOUS
    <2>0. Begins(p)[s] \in Nat /\ p.dur[s] \in Nat /\ Begins(p)[s + 1] = Begins(p)[s] + p.dur[s]
        BY <1>0, <1>1
    <2>1. A[k][s] = IF k < p.dur[s] THEN [seg |-> s, elapsed |-> k, end |-> "run"]
                    ELSE IF s < Len(p.dur) THEN A[k - p.dur[s]][s + 1]
                    ELSE IF p.loop THEN A[k - p.dur[s]][1]
                    ELSE [seg |-> s, elapsed |-> k - p.dur[s], end |-> IF p.hold THEN "held" ELSE "done"]
        BY <1>2 DEF AdvanceStep
    <2>2. CASE k < p.dur[s]
        <3>1. A[k][s] = [seg |-> s, elapsed |-> k, end |-> "run"]
            BY <2>1, <2>2
        <3>2. A[k][s].seg = s /\ A[k][s].elapsed = k /\ A[k][s].end = "run"
            BY <3>1
        <3> QED BY <2>2, <3>2 DEF Leads
    <2>3. ASSUME ~(k < p.dur[s]) PROVE \A t \in 1 .. Len(p.dur) : Leads(p, t, k - p.dur[s], A[k - p.dur[s]][t])
        <3>1. k - p.dur[s] \in 0 .. k - 1 /\ k - p.dur[s] \in 0 .. e0 /\ k - p.dur[s] \in Nat
            BY <1>0, <2>0, <2>3
        <3> QED BY <1>3, <3>1
    <2>4. CASE ~(k < p.dur[s]) /\ s < Len(p.dur)
        <3>1. s + 1 \in 1 .. Len(p.dur) /\ A[k][s] = A[k - p.dur[s]][s + 1]
            BY <1>0, <2>1, <2>4
        <3>2. Leads(p, s + 1, k - p.dur[s], A[k][s])
            BY <2>3, <2>4, <3>1
        <3>3. Begins(p)[s + 1] + (k - p.dur[s]) = Begins(p)[s] + k
            BY <2>0
        <3> QED BY <3>2, <3>3 DEF Leads
    <2>5. CASE ~(k < p.dur[s]) /\ ~(s < Len(p.dur)) /\ p.loop
        <3>1. 1 \in 1 .. Len(p.dur) /\ A[k][s] = A[k - p.dur[s]][1]
            BY <1>0, <2>1, <2>5
        <3>2. Leads(p, 1, k - p.dur[s], A[k][s])
            BY <2>3, <2>5, <3>1
        <3> QED BY <2>5, <3>2 DEF Leads
    <2>6. CASE ~(k < p.dur[s]) /\ ~(s < Len(p.dur)) /\ ~p.loop
        <3>1. A[k][s] = [seg |-> s, elapsed |-> k - p.dur[s], end |-> IF p.hold THEN "held" ELSE "done"]
            BY <2>1, <2>6
        <3>2. /\ A[k][s].seg = s /\ A[k][s].elapsed = k - p.dur[s] /\ A[k][s].end \in {"held", "done"}
            BY <3>1
        <3>3. s = Len(p.dur) /\ k - p.dur[s] \in Nat
            BY <1>0, <2>0, <2>6
        <3>4. Begins(p)[s] + k >= Begins(p)[Len(p.dur) + 1]
            BY <2>0, <2>6, <3>3
        <3> QED BY <2>6, <3>2, <3>3, <3>4 DEF Leads
    <2> QED BY <1>0, <2>2, <2>4, <2>5, <2>6
<1>4. e0 \in S
    <2> HIDE DEF S
    <2> QED BY <1>3, LessFirst
<1>5. e0 \in 0 .. e0
    OBVIOUS
<1> QED BY <1>4, <1>5 DEF Advance, A

(* The programs of the firmware: when they end, and which gaits they use. *)
LEMMA ProgramFacts ==
    ASSUME NEW id \in Tricks
    PROVE  /\ IsProgram(Programs[id])
           /\ Duration(id) \in Nat /\ Duration(id) <= RanCap
           /\ \A s \in 1 .. Len(Programs[id].dur) : /\ Begins(Programs[id])[s] \in Nat
                                                    /\ Begins(Programs[id])[s + 1] <= Duration(id)
                                                    /\ Programs[id].gait[s] # "unset"
<1> DEFINE p == Programs[id]
<1>1. id \in {"Twirl", "Crouch", "Dance"}
    BY DEF Tricks, Programs
<1>2. CASE id = "Twirl"
    <2>1. /\ p.dur = <<2, 1, 1>> /\ p.gait = <<"Tripod", "Tripod", "Tripod">>
          /\ p.loop = FALSE /\ p.hold = FALSE
        BY <1>2 DEF Programs
    <2> HIDE DEF p
    <2>2. IsProgram(p) /\ Len(p.dur) = 3
        <3>1. p.dur \in Seq(Nat) /\ Len(p.dur) = 3 /\ p.dur[1] = 2 /\ p.dur[2] = 1 /\ p.dur[3] = 1
            BY <2>1
        <3>2. p.loop \in BOOLEAN /\ p.hold \in BOOLEAN
            BY <2>1
        <3>3. Len(p.dur) >= 1 /\ \A s \in 1 .. Len(p.dur) : p.dur[s] > 0
            BY <3>1
        <3> QED BY <3>1, <3>2, <3>3 DEF IsProgram
    <2>3. Begins(p)[1] = 0 /\ Begins(p)[2] = 2 /\ Begins(p)[3] = 3 /\ Begins(p)[4] = 4
        <3>1. p.dur[1] = 2 /\ p.dur[2] = 1 /\ p.dur[3] = 1
            BY <2>1
        <3>2. Begins(p)[1] = 0 /\ Begins(p)[1 + 1] = Begins(p)[1] + p.dur[1] /\ Begins(p)[2 + 1] = Begins(p)[2] + p.dur[2] /\ Begins(p)[3 + 1] = Begins(p)[3] + p.dur[3]
            BY <2>2, BeginsUnfolds
        <3> QED BY <3>1, <3>2
    <2>4. Duration(id) = 4
        BY <2>2, <2>3 DEF Duration, p
    <2> QED BY <2>1, <2>2, <2>3, <2>4 DEF p, RanCap
<1>3. CASE id = "Crouch"
    <2>1. /\ p.dur = <<2>> /\ p.gait = <<"Stand">> /\ p.loop = FALSE /\ p.hold = TRUE
        BY <1>3 DEF Programs
    <2> HIDE DEF p
    <2>2. IsProgram(p) /\ Len(p.dur) = 1
        <3>1. p.dur \in Seq(Nat) /\ Len(p.dur) = 1 /\ p.dur[1] = 2
            BY <2>1
        <3>2. p.loop \in BOOLEAN /\ p.hold \in BOOLEAN
            BY <2>1
        <3>3. Len(p.dur) >= 1 /\ \A s \in 1 .. Len(p.dur) : p.dur[s] > 0
            BY <3>1
        <3> QED BY <3>1, <3>2, <3>3 DEF IsProgram
    <2>3. Begins(p)[1] = 0 /\ Begins(p)[2] = 2
        <3>1. p.dur[1] = 2
            BY <2>1
        <3>2. Begins(p)[1] = 0 /\ Begins(p)[1 + 1] = Begins(p)[1] + p.dur[1]
            BY <2>2, BeginsUnfolds
        <3> QED BY <3>1, <3>2
    <2>4. Duration(id) = 2
        BY <2>2, <2>3 DEF Duration, p
    <2> QED BY <2>1, <2>2, <2>3, <2>4 DEF p, RanCap
<1>4. CASE id = "Dance"
    <2>1. /\ p.dur = <<1, 2>> /\ p.gait = <<"Stand", "Stand">> /\ p.loop = TRUE /\ p.hold = FALSE
        BY <1>4 DEF Programs
    <2> HIDE DEF p
    <2>2. IsProgram(p) /\ Len(p.dur) = 2
        <3>1. p.dur \in Seq(Nat) /\ Len(p.dur) = 2 /\ p.dur[1] = 1 /\ p.dur[2] = 2
            BY <2>1
        <3>2. p.loop \in BOOLEAN /\ p.hold \in BOOLEAN
            BY <2>1
        <3>3. Len(p.dur) >= 1 /\ \A s \in 1 .. Len(p.dur) : p.dur[s] > 0
            BY <3>1
        <3> QED BY <3>1, <3>2, <3>3 DEF IsProgram
    <2>3. Begins(p)[1] = 0 /\ Begins(p)[2] = 1 /\ Begins(p)[3] = 3
        <3>1. p.dur[1] = 1 /\ p.dur[2] = 2
            BY <2>1
        <3>2. Begins(p)[1] = 0 /\ Begins(p)[1 + 1] = Begins(p)[1] + p.dur[1] /\ Begins(p)[2 + 1] = Begins(p)[2] + p.dur[2]
            BY <2>2, BeginsUnfolds
        <3> QED BY <3>1, <3>2
    <2>4. Duration(id) = 3
        BY <2>2, <2>3 DEF Duration, p
    <2> QED BY <2>1, <2>2, <2>3, <2>4 DEF p, RanCap
<1> QED BY <1>1, <1>2, <1>3, <1>4

Players == [id : Tricks \cup {"none"}, active : BOOLEAN, held : BOOLEAN, seg : Nat, elapsed : Nat]

(***************************************************************************)
(* A player that has been playing for r units of time: it is in a segment   *)
(* that is not over, r units from the beginning of a program without loop,  *)
(* or frozen after the program's end.                                      *)
(***************************************************************************)
OnTime(pl, r) ==
    pl.active =>
        /\ pl.id \in Tricks /\ pl.seg \in 1 .. Len(Programs[pl.id].dur)
        /\ (~pl.held /\ ~Programs[pl.id].loop) => /\ r = Begins(Programs[pl.id])[pl.seg] + pl.elapsed
                                                  /\ pl.elapsed < Programs[pl.id].dur[pl.seg]
        /\ pl.held => r >= Duration(pl.id)

LEMMA NoTrickOnTime == NoTrick \in Players /\ ~NoTrick.active /\ \A r : OnTime(NoTrick, r)
BY DEF NoTrick, Players, OnTime

LEMMA TriggerOnTime ==
    ASSUME NEW id \in Tricks
    PROVE  trigger(id) \in Players /\ OnTime(trigger(id), 0)
<1>1. /\ trigger(id) \in Players
      /\ trigger(id).id = id /\ trigger(id).seg = 1 /\ trigger(id).elapsed = 0 /\ ~trigger(id).held
    BY DEF trigger, Players
<1>2. IsProgram(Programs[id]) /\ Begins(Programs[id])[1] = 0
    BY ProgramFacts, BeginsUnfolds
<1>3. Len(Programs[id].dur) \in Nat /\ Len(Programs[id].dur) >= 1 /\ Programs[id].dur[1] > 0
    BY <1>2 DEF IsProgram
<1> QED BY <1>1, <1>2, <1>3 DEF OnTime

LEMMA PlayOnTime ==
    ASSUME NEW pl \in Players, NEW r \in Nat, OnTime(pl, r), NEW dt \in Nat, NEW sticks \in BOOLEAN
    PROVE  Play(pl, dt, sticks) \in Players /\ OnTime(Play(pl, dt, sticks), r + dt)
<1>0. /\ pl.id \in Tricks \cup {"none"} /\ pl.active \in BOOLEAN /\ pl.held \in BOOLEAN
      /\ pl.seg \in Nat /\ pl.elapsed \in Nat
    BY DEF Players
<1>1. CASE ~pl.active
    BY <1>1 DEF Play, OnTime
<1>2. CASE pl.active /\ sticks
    BY <1>2, NoTrickOnTime DEF Play
<1>3. CASE pl.active /\ ~sticks /\ pl.held
    <2>1. Play(pl, dt, sticks) = pl
        BY <1>3 DEF Play
    <2>2. Duration(pl.id) \in Nat /\ r >= Duration(pl.id)
        BY <1>3, ProgramFacts DEF OnTime
    <2> QED BY <1>3, <2>1, <2>2 DEF OnTime
<1>4. CASE pl.active /\ ~sticks /\ ~pl.held
    <2> DEFINE p == Programs[pl.id]
               a == Advance(p, pl.seg, pl.elapsed + dt)
               q == Play(pl, dt, sticks)
    <2>1. pl.id \in Tricks /\ pl.seg \in 1 .. Len(p.dur)
        BY <1>4 DEF OnTime
    <2>2. /\ IsProgram(p) /\ p.loop \in BOOLEAN
          /\ Duration(pl.id) = Begins(p)[Len(p.dur) + 1]
          /\ \A s \in 1 .. Len(p.dur) : Begins(p)[s] \in Nat
        BY <2>1, ProgramFacts DEF IsProgram, Duration
    <2>3. pl.elapsed + dt \in Nat
        BY <1>0
    <2>4. Leads(p, pl.seg, pl.elapsed + dt, a)
        BY <2>1, <2>2, <2>3, AdvanceLeads
    <2>5. q = [pl EXCEPT !.seg = a.seg, !.elapsed = IF a.end = "run" THEN a.elapsed ELSE 0,
                         !.held = a.end = "held", !.active = a.end # "done"]
        BY <1>4 DEF Play
    <2> HIDE DEF a, p, q
    <2>6. /\ a.seg \in 1 .. Len(p.dur) /\ a.elapsed \in Nat
          /\ a.end \in {"run", "held", "done"}
        BY <2>4 DEF Leads
    <2>7. q.id = pl.id /\ q.seg = a.seg /\ q.elapsed = IF a.end = "run" THEN a.elapsed ELSE 0
        BY <2>5 DEF Players
    <2>8. q.held = (a.end = "held") /\ q.active = (a.end # "done")
        BY <2>5, Zenon DEF Players
    <2>9. q \in Players
        <3>1. (a.end = "held") \in BOOLEAN /\ (a.end # "done") \in BOOLEAN
            OBVIOUS
        <3>2. a.seg \in Nat
            BY <2>6
        <3> QED BY <2>5, <2>6, <3>1, <3>2 DEF Players
    <2>10. CASE a.end = "run"
        <3>1. ~q.held /\ q.elapsed = a.elapsed
            BY <2>7, <2>8, <2>10
        <3>2. a.elapsed < p.dur[a.seg] /\ (~p.loop => Begins(p)[a.seg] + a.elapsed = Begins(p)[pl.seg] + (pl.elapsed + dt))
            BY <2>4, <2>10 DEF Leads
        <3>3. ~p.loop => r = Begins(p)[pl.seg] + pl.elapsed
            BY <1>4 DEF OnTime, p
        <3>4. Begins(p)[pl.seg] \in Nat
            BY <2>1, <2>2
        <3>5. ~p.loop => r + dt = Begins(p)[a.seg] + a.elapsed
            BY <1>0, <3>2, <3>3, <3>4
        <3> QED BY <2>1, <2>6, <2>7, <2>9, <3>1, <3>2, <3>5 DEF OnTime, p, q
    <2>11. CASE a.end = "held"
        <3>1. q.held
            BY <2>8, <2>11
        <3>2. ~p.loop /\ Begins(p)[pl.seg] + (pl.elapsed + dt) >= Duration(pl.id)
            BY <2>2, <2>4, <2>11 DEF Leads
        <3>3. r = Begins(p)[pl.seg] + pl.elapsed
            BY <1>4, <3>2 DEF OnTime, p
        <3>4. r + dt >= Duration(pl.id)
            <4>1. Begins(p)[pl.seg] \in Nat
                BY <2>1, <2>2
            <4> QED BY <1>0, <3>2, <3>3, <4>1
        <3> QED BY <2>1, <2>6, <2>7, <2>9, <3>1, <3>4 DEF OnTime, p, q
    <2>12. CASE a.end = "done"
        <3>1. ~q.active
            BY <2>8, <2>12
        <3> QED BY <2>9, <3>1 DEF OnTime, q
    <2> QED BY <2>6, <2>10, <2>11, <2>12
<1> QED BY <1>0, <1>1, <1>2, <1>3, <1>4

(* The cap of the counter lies behind every program. *)
LEMMA CapOnTime ==
    ASSUME NEW pl \in Players, NEW r \in Nat, OnTime(pl, r), NEW c, c = IF r <= RanCap THEN r ELSE RanCap
    PROVE  c \in Nat /\ OnTime(pl, c)
<1>0. RanCap \in Nat /\ c \in Nat
    BY DEF RanCap
<1> SUFFICES ASSUME pl.active PROVE OnTime(pl, c)
    BY <1>0 DEF OnTime
<1>1. pl.id \in Tricks /\ pl.seg \in 1 .. Len(Programs[pl.id].dur) /\ pl.elapsed \in Nat
    BY DEF OnTime, Players
<1>2. /\ Duration(pl.id) \in Nat /\ Duration(pl.id) <= RanCap /\ IsProgram(Programs[pl.id])
      /\ Begins(Programs[pl.id])[pl.seg] \in Nat /\ Begins(Programs[pl.id])[pl.seg + 1] <= Duration(pl.id)
    BY <1>1, ProgramFacts
<1>3. /\ Begins(Programs[pl.id])[pl.seg + 1] = Begins(Programs[pl.id])[pl.seg] + Programs[pl.id].dur[pl.seg]
      /\ Programs[pl.id].dur[pl.seg] \in Nat
    <2>1. Begins(Programs[pl.id])[pl.seg + 1] = Begins(Programs[pl.id])[pl.seg] + Programs[pl.id].dur[pl.seg]
        BY <1>1, <1>2, BeginsUnfolds
    <2>2. Programs[pl.id].dur \in Seq(Nat)
        BY <1>2 DEF IsProgram
    <2> QED BY <1>1, <2>1, <2>2
<1>4. ~pl.held /\ ~Programs[pl.id].loop => r < RanCap
    BY <1>0, <1>1, <1>2, <1>3 DEF OnTime
<1>5. pl.held => c >= Duration(pl.id)
    BY <1>0, <1>2 DEF OnTime
<1> QED BY <1>0, <1>4, <1>5 DEF OnTime

LEMMA OnTimeEnds ==
    ASSUME NEW pl \in Players, NEW r \in Nat, OnTime(pl, r), pl.active
    PROVE  /\ pl.seg \in DOMAIN Programs[pl.id].dur
           /\ (~pl.held /\ ~Programs[pl.id].loop) => r < Duration(pl.id)
           /\ pl.held => r >= Duration(pl.id)
<1>1. pl.id \in Tricks /\ pl.seg \in 1 .. Len(Programs[pl.id].dur) /\ pl.elapsed \in Nat
    BY DEF OnTime, Players
<1>2. /\ Duration(pl.id) \in Nat /\ IsProgram(Programs[pl.id])
      /\ Begins(Programs[pl.id])[pl.seg] \in Nat /\ Begins(Programs[pl.id])[pl.seg + 1] <= Duration(pl.id)
    BY <1>1, ProgramFacts
<1>3. /\ Begins(Programs[pl.id])[pl.seg + 1] = Begins(Programs[pl.id])[pl.seg] + Programs[pl.id].dur[pl.seg]
      /\ Programs[pl.id].dur[pl.seg] \in Nat /\ DOMAIN Programs[pl.id].dur = 1 .. Len(Programs[pl.id].dur)
    <2>1. Begins(Programs[pl.id])[pl.seg + 1] = Begins(Programs[pl.id])[pl.seg] + Programs[pl.id].dur[pl.seg]
        BY <1>1, <1>2, BeginsUnfolds
    <2>2. Programs[pl.id].dur \in Seq(Nat)
        BY <1>2 DEF IsProgram
    <2> QED BY <1>1, <2>1, <2>2
<1>4. ~pl.held /\ ~Programs[pl.id].loop => r < Duration(pl.id)
    BY <1>1, <1>2, <1>3 DEF OnTime
<1> QED BY <1>1, <1>3, <1>4 DEF OnTime

(***************************************************************************)
(* The motion half of a control cycle.  A cycle that ended with the gate    *)
(* closed left the shaper at rest and the previous-gate flag down, so that  *)
(* the next open gate seeds the goals from the joints; the trick player is  *)
(* where its time has led it; and the gait last applied, unless it was      *)
(* forgotten, is the one the pipeline walks.                                *)
(***************************************************************************)
MotionInv ==
    /\ present \in Int /\ lastTick \in Int /\ goal.tick \in Int
    /\ cycle.branch = "closed" => vel = 0 /\ ~prevGate
    /\ TrickOnlyUnderRc
    /\ player \in Players /\ ran \in Nat /\ OnTime(player, ran)
    /\ appliedGait # "unset" => pipeGait = appliedGait
    /\ PipelineGaitIsCurrent

LEMMA MoveTowardBounded ==
    ASSUME NEW target \in Int, NEW delta \in Nat
    PROVE  Abs(moveToward(0, target, delta)) <= delta
BY DEF Abs, moveToward

LEMMA WithinBounded ==
    ASSUME NEW tick \in Int, NEW last \in Int, NEW limit \in Nat
    PROVE  /\ Within(tick, last, limit) \in Int
           /\ Abs(Within(tick, last, limit) - last) <= limit
BY DEF Abs, Within

\* a cycle that runs the pipeline
LEMMA PipelineCycle ==
    ASSUME MotionInv, NEW source, NEW dt \in 1..MaxDt, NEW ok \in BOOLEAN, Motion(source, dt, ok)
    PROVE  /\ lastTick' \in Int /\ goal'.tick \in Int
           /\ player'.active => source = "Rc"
           /\ vel = 0 => Abs(vel') <= Accel * dt
           /\ (~prevGate /\ ok) => Abs(goal'.tick - present) <= LimitOf(dt)
<1>a. /\ MaxDt \in Nat /\ Accel \in Nat /\ Slew \in Nat /\ MaxVel \in Nat /\ MaxTick \in Nat
    BY MotionAssumption
<1>d. dt \in Nat /\ Accel * dt \in Nat /\ LimitOf(dt) \in Nat
    BY <1>a DEF LimitOf
<1>1. PICK trick \in {"none"} \cup (IF source = "Rc" THEN Tricks ELSE {}), sticks \in BOOLEAN, g \in {"Wave", "Tripod"} :
        LET started == source = "Rc" /\ trick # "none" /\ prevTrick = "none"
            pl == PlayerUnder(source, IF started THEN trick ELSE "none", dt, sticks)
        IN  /\ player' = IF pl.active THEN pl ELSE NoTrick
            /\ vel' = shapeTwist(vel, IF ~pl.active /\ sticks THEN MaxVel ELSE 0, dt)
    BY DEF Motion, Drive
<1> DEFINE started == source = "Rc" /\ trick # "none" /\ prevTrick = "none"
           pl == PlayerUnder(source, IF started THEN trick ELSE "none", dt, sticks)
           target == IF ~pl.active /\ sticks THEN MaxVel ELSE 0
<1>2. player' = (IF pl.active THEN pl ELSE NoTrick) /\ vel' = shapeTwist(vel, target, dt)
    BY <1>1
<1>3. player'.active => source = "Rc"
    <2>1. SUFFICES ASSUME source # "Rc" PROVE ~player'.active
        OBVIOUS
    <2>2. pl = NoTrick
        BY <2>1 DEF PlayerUnder
    <2> HIDE DEF pl
    <2> QED BY <1>2, <2>2 DEF NoTrick
<1>4. vel = 0 => Abs(vel') <= Accel * dt
    <2>1. target \in Int
        <3> HIDE DEF pl
        <3> QED BY <1>a
    <2> HIDE DEF target
    <2>2. SUFFICES ASSUME vel = 0 PROVE Abs(vel') <= Accel * dt
        OBVIOUS
    <2>3. vel' = moveToward(0, target, Accel * dt)
        BY <1>2, <2>2 DEF shapeTwist
    <2> QED BY <2>1, <2>3, <1>d, MoveTowardBounded
<1>5. PICK want \in 0..MaxTick : Emit(seedGoal(ok), want, dt)
    BY DEF Motion
<1>6. want \in Int /\ seedGoal(ok).tick \in Int
    <2>1. want \in Int BY <1>a
    <2>2. present \in Int /\ lastTick \in Int BY DEF MotionInv
    <2>3. CASE ok /\ ~prevGate
        BY <2>1, <2>2, <2>3 DEF seedGoal
    <2>4. CASE ~(ok /\ ~prevGate)
        BY <2>1, <2>2, <2>4 DEF seedGoal
    <2> QED BY <2>3, <2>4
<1>7. lastTick' \in Int /\ goal'.tick = lastTick'
    <2> DEFINE tick == IF seedGoal(ok).ramping THEN Within(want, seedGoal(ok).tick, LimitOf(dt)) ELSE want
    <2>1. lastTick' = tick /\ goal' = [valid |-> TRUE, tick |-> tick]
        BY <1>5 DEF Emit
    <2>2. tick \in Int
        BY <1>6, <1>d, WithinBounded
    <2> QED BY <2>1, <2>2
<1>8. (~prevGate /\ ok) => Abs(goal'.tick - present) <= LimitOf(dt)
    <2>1. SUFFICES ASSUME ~prevGate, ok PROVE Abs(goal'.tick - present) <= LimitOf(dt)
        OBVIOUS
    <2>2. seedGoal(ok).tick = present /\ seedGoal(ok).ramping
        BY <2>1 DEF seedGoal
    <2>3. goal'.tick = Within(want, present, LimitOf(dt))
        BY <1>5, <2>2 DEF Emit
    <2> QED BY <1>6, <1>d, <2>2, <2>3, WithinBounded
<1> QED BY <1>3, <1>4, <1>7, <1>8

\* the trick player and the gait in such a cycle
LEMMA DriveKeeps ==
    ASSUME MotionInv, NEW source, NEW dt \in 1..MaxDt, Drive(source, dt)
    PROVE  /\ player' \in Players /\ ran' \in Nat /\ OnTime(player', ran')
           /\ pipeGait' = wanted' /\ appliedGait' = wanted'
<1>a. dt \in Nat /\ player \in Players /\ ran \in Nat /\ OnTime(player, ran)
    BY MotionAssumption DEF MotionInv
<1>1. PICK trick \in {"none"} \cup (IF source = "Rc" THEN Tricks ELSE {}), sticks \in BOOLEAN, g \in {"Wave", "Tripod"} :
        LET started == source = "Rc" /\ trick # "none" /\ prevTrick = "none"
            pl == PlayerUnder(source, IF started THEN trick ELSE "none", dt, sticks)
        IN  /\ player' = IF pl.active THEN pl ELSE NoTrick
            /\ ran' = IF ~pl.active THEN 0 ELSE IF started THEN dt ELSE Min({ran + dt, RanCap})
            /\ wanted' = IF pl.active THEN Programs[pl.id].gait[pl.seg] ELSE g
            /\ pipeGait' = IF wanted' # appliedGait THEN wanted' ELSE pipeGait
            /\ appliedGait' = wanted'
    BY DEF Drive
<1> DEFINE started == source = "Rc" /\ trick # "none" /\ prevTrick = "none"
           pl == PlayerUnder(source, IF started THEN trick ELSE "none", dt, sticks)
           r == IF started THEN dt ELSE ran + dt
<1>2. /\ player' = IF pl.active THEN pl ELSE NoTrick
      /\ ran' = IF ~pl.active THEN 0 ELSE IF started THEN dt ELSE Min({ran + dt, RanCap})
      /\ wanted' = IF pl.active THEN Programs[pl.id].gait[pl.seg] ELSE g
      /\ pipeGait' = IF wanted' # appliedGait THEN wanted' ELSE pipeGait
      /\ appliedGait' = wanted'
    BY <1>1
<1>3. pl \in Players /\ OnTime(pl, r) /\ r \in Nat
    <2>1. CASE source # "Rc"
        <3>1. pl = NoTrick /\ r \in Nat
            BY <1>a, <2>1 DEF PlayerUnder
        <3> HIDE DEF pl, r
        <3> QED BY <3>1, NoTrickOnTime
    <2>2. CASE source = "Rc" /\ started
        <3>1. trick \in Tricks
            BY <2>2
        <3>2. pl = Play(trigger(trick), dt, sticks) /\ r = 0 + dt
            BY <1>a, <2>2 DEF PlayerUnder
        <3>3. trigger(trick) \in Players /\ OnTime(trigger(trick), 0)
            BY <3>1, TriggerOnTime
        <3> HIDE DEF pl, r
        <3>4. pl \in Players /\ OnTime(pl, 0 + dt)
            BY <1>a, <3>2, <3>3, PlayOnTime
        <3> QED BY <1>a, <3>2, <3>4
    <2>3. CASE source = "Rc" /\ ~started
        <3>1. pl = Play(player, dt, sticks) /\ r = ran + dt
            BY <2>3 DEF PlayerUnder
        <3> HIDE DEF pl, r
        <3> QED BY <1>a, <3>1, PlayOnTime
    <2> QED BY <2>1, <2>2, <2>3
<1> HIDE DEF pl
<1>4. CASE ~pl.active
    <2>1. player' = NoTrick /\ ran' = 0 /\ wanted' = g
        BY <1>2, <1>4
    <2>2. wanted' # "unset"
        BY <2>1
    <2> QED BY <1>2, <2>1, <2>2, NoTrickOnTime DEF MotionInv
<1>5. CASE pl.active
    <2>1. player' = pl /\ wanted' = Programs[pl.id].gait[pl.seg]
        BY <1>2, <1>5
    <2>2. ran' \in Nat /\ OnTime(pl, ran')
        <3>1. CASE started
            <4>1. ran' = r
                BY <1>2, <1>5, <3>1
            <4> HIDE DEF r
            <4> QED BY <1>3, <4>1
        <3>2. CASE ~started
            <4>1. ran' = Min({r, RanCap}) /\ RanCap \in Nat
                BY <1>2, <1>5, <3>2 DEF RanCap
            <4> HIDE DEF r
            <4>2. ran' = IF r <= RanCap THEN r ELSE RanCap
                BY <1>3, <4>1, MinMaxOfTwo
            <4> QED BY <1>3, <4>2, CapOnTime
        <3> QED BY <3>1, <3>2
    <2> HIDE DEF r
    <2>3. pl.id \in Tricks /\ pl.seg \in 1 .. Len(Programs[pl.id].dur)
        BY <1>3, <1>5 DEF OnTime
    <2>4. wanted' # "unset"
        BY <2>1, <2>3, ProgramFacts
    <2>5. pipeGait' = wanted'
        BY <1>2, <2>4 DEF MotionInv
    <2> QED BY <1>2, <1>3, <2>1, <2>2, <2>5
<1> QED BY <1>4, <1>5

LEMMA MotionInvStep ==
    MotionInv /\ [MotionNext]_motionVars
      => /\ MotionInv'
         /\ [(opened' /\ cycle.branch = "closed" /\ cycle'.ok) => Ramps']_motionVars
         /\ [(opened' /\ ~prevGate /\ cycle.branch = "closed") => Abs(vel') <= Accel * cycle'.dt]_motionVars
<1> SUFFICES ASSUME MotionInv, [MotionNext]_motionVars
             PROVE  /\ MotionInv'
                    /\ (opened' /\ cycle.branch = "closed" /\ cycle'.ok) => Ramps' \/ UNCHANGED motionVars
                    /\ (opened' /\ ~prevGate /\ cycle.branch = "closed")
                          => Abs(vel') <= Accel * cycle'.dt \/ UNCHANGED motionVars
    OBVIOUS
<1>a. MaxTick \in Nat
    BY MotionAssumption
<1>1. CASE Step
    <2>1. PICK gate \in BOOLEAN, source \in {"Rc", "Jetson", "Mac"}, joints \in BOOLEAN, dt \in 1..MaxDt, ok \in BOOLEAN :
            LET maint == gate /\ source = "Mac"
                branch == IF maint /\ ~prevMaint THEN "start" ELSE IF maint /\ joints THEN "joints"
                          ELSE IF gate THEN "motion" ELSE "closed"
            IN  /\ CASE branch = "start" -> SessionStart
                     [] branch = "joints" -> JointTargets
                     [] branch = "motion" -> Motion(source, dt, ok)
                     [] OTHER -> Closed
                /\ cycle' = [branch |-> branch, source |-> source, dt |-> dt, ok |-> ok]
                /\ opened' = (branch = "motion" /\ cycle.branch # "motion")
                /\ prevGate' = gate
                /\ from' = IF opened' THEN present ELSE 0
                /\ present' \in Moved(goal')
        BY <1>1 DEF Step
    <2> DEFINE maint == gate /\ source = "Mac"
               branch == IF maint /\ ~prevMaint THEN "start" ELSE IF maint /\ joints THEN "joints"
                         ELSE IF gate THEN "motion" ELSE "closed"
    <2>2. /\ cycle' = [branch |-> branch, source |-> source, dt |-> dt, ok |-> ok]
          /\ opened' = (branch = "motion" /\ cycle.branch # "motion")
          /\ prevGate' = gate
          /\ from' = (IF opened' THEN present ELSE 0)
          /\ present' \in Moved(goal')
        BY <2>1
    <2>3. /\ branch = "start" => SessionStart
          /\ branch = "joints" => JointTargets
          /\ branch = "motion" => Motion(source, dt, ok)
          /\ branch = "closed" => Closed
        BY <2>1
    <2>4. /\ branch \in {"start", "joints", "motion", "closed"}
          /\ branch # "closed" <=> gate
        OBVIOUS
    <2> HIDE DEF branch
    <2>5. /\ cycle'.branch = branch /\ cycle'.source = source /\ cycle'.dt = dt /\ cycle'.ok = ok
        BY <2>2
    <2>6. goal'.tick \in Int => present' \in Int
        BY <1>a, <2>2 DEF Moved, MotionInv
    <2>7. CASE branch = "motion"
        <3>1. Motion(source, dt, ok)
            BY <2>3, <2>7
        <3>2. /\ lastTick' \in Int /\ goal'.tick \in Int
              /\ player'.active => source = "Rc"
              /\ vel = 0 => Abs(vel') <= Accel * dt
              /\ (~prevGate /\ ok) => Abs(goal'.tick - present) <= LimitOf(dt)
            BY <3>1, PipelineCycle
        <3>3. gate /\ prevGate'
            BY <2>2, <2>4, <2>7
        <3>d. /\ player' \in Players /\ ran' \in Nat /\ OnTime(player', ran')
              /\ pipeGait' = wanted' /\ appliedGait' = wanted'
            BY <3>1, DriveKeeps DEF Motion
        <3>4. MotionInv'
            BY <2>5, <2>6, <2>7, <3>2, <3>3, <3>d DEF MotionInv, TrickOnlyUnderRc, PipelineGaitIsCurrent
        <3>5. (opened' /\ cycle.branch = "closed" /\ cycle'.ok) => Ramps'
            BY <2>2, <2>5, <3>2 DEF MotionInv, Ramps
        <3>6. cycle.branch = "closed" => Abs(vel') <= Accel * cycle'.dt
            BY <2>5, <3>2 DEF MotionInv
        <3> QED BY <3>4, <3>5, <3>6
    <2>8. CASE branch # "motion"
        <3>1. ~opened'
            BY <2>2, <2>8
        <3>2. /\ player' = NoTrick /\ goal'.tick \in Int /\ lastTick' = lastTick
              /\ ran' = 0 /\ appliedGait' = "unset"
              /\ branch = "closed" => vel' = 0
            BY <1>a, <2>3, <2>4, <2>8 DEF SessionStart, JointTargets, Closed, ClosedReset
        <3>3. ~player'.active
            BY <3>2 DEF NoTrick
        <3>4. branch = "closed" => ~prevGate'
            BY <2>2, <2>4
        <3>t. player' \in Players /\ ran' \in Nat /\ OnTime(player', ran')
            BY <3>2, NoTrickOnTime
        <3>5. MotionInv'
            BY <2>5, <2>6, <2>8, <3>2, <3>3, <3>4, <3>t DEF MotionInv, TrickOnlyUnderRc, PipelineGaitIsCurrent
        <3> QED BY <3>1, <3>5
    <2> QED BY <2>7, <2>8
<1>2. CASE Stall
    <2>1. /\ goal' = [valid |-> FALSE, tick |-> 0] /\ ~opened'
          /\ cycle' = [cycle EXCEPT !.branch = "stalled"] /\ present' \in Moved(goal')
          /\ UNCHANGED <<prevGate, player, lastTick, ran, appliedGait, pipeGait>>
        BY <1>2 DEF Stall
    <2>2. goal'.tick = 0 /\ present' \in Int
        BY <1>a, <2>1 DEF Moved
    <2>3. cycle'.branch \notin {"closed", "motion"} /\ cycle'.source = cycle.source
        BY <2>1
    <2> QED BY <2>1, <2>2, <2>3 DEF MotionInv, TrickOnlyUnderRc, PipelineGaitIsCurrent
<1>3. CASE NewConfig
    BY <1>3 DEF NewConfig, Reconfigured, MotionInv, TrickOnlyUnderRc, PipelineGaitIsCurrent
<1>4. CASE UNCHANGED motionVars
    BY <1>4 DEF motionVars, MotionInv, TrickOnlyUnderRc, PipelineGaitIsCurrent
<1> QED BY <1>1, <1>2, <1>3, <1>4 DEF MotionNext

(***************************************************************************)
(* For any limits, periods and orders of gate, source, stall and            *)
(* configuration changes: a gate that opens for an operator starts the      *)
(* shaper from rest and the goals within one slew step of where the joints  *)
(* are; a trick is active only under an open gate of the radio and is over  *)
(* exactly when the time of its segments is; and the pipeline walks the     *)
(* gait last asked for (controller_core.cpp, step; gait_pipeline.cpp,       *)
(* seedGoal and update; body_command_shaper.cpp; trick_engine.cpp, update). *)
(***************************************************************************)
THEOREM MotionStaysSmooth == MotionSpec => MotionIsSmooth
<1>1. MotionInit => MotionInv
    <2> SUFFICES ASSUME MotionInit PROVE MotionInv
        OBVIOUS
    <2>1. present \in Int /\ lastTick \in Int /\ vel = 0 /\ ~prevGate
        BY MotionAssumption DEF MotionInit
    <2>2. goal.tick = 0 /\ cycle.branch = "closed"
        BY DEF MotionInit
    <2>3. player \in Players /\ ~player.active /\ ran \in Nat /\ OnTime(player, ran) /\ appliedGait = "unset"
        BY NoTrickOnTime DEF MotionInit
    <2> QED BY <2>1, <2>2, <2>3 DEF MotionInv, TrickOnlyUnderRc, PipelineGaitIsCurrent
<1>2. MotionInv /\ [MotionNext]_motionVars => MotionInv'
    BY MotionInvStep
<1>3. MotionInv /\ [MotionNext]_motionVars
        => [(opened' /\ cycle.branch = "closed" /\ cycle'.ok) => Ramps']_motionVars
    BY MotionInvStep
<1>4. MotionInv /\ [MotionNext]_motionVars
        => [(opened' /\ ~prevGate /\ cycle.branch = "closed") => Abs(vel') <= Accel * cycle'.dt]_motionVars
    BY MotionInvStep
<1>5. MotionInv => TrickOnlyUnderRc /\ TrickEndsOnTime /\ PipelineGaitIsCurrent
    BY OnTimeEnds DEF MotionInv, TrickEndsOnTime
<1> QED BY <1>1, <1>2, <1>3, <1>4, <1>5, PTL DEF MotionSpec, MotionIsSmooth, OperatorGoalsRamp, MovesFromRest

-----------------------------------------------------------------------------
(* The bridge *)

(* A membership test is a truth value a field may hold. *)
LEMMA TruthValue == ASSUME NEW x, NEW S PROVE \E b \in BOOLEAN : b = (x \in S)
<1>1. CASE x \in S
    <2>1. TRUE = (x \in S) /\ TRUE \in BOOLEAN
        BY <1>1
    <2> QED BY <2>1
<1>2. CASE x \notin S
    <2>1. FALSE = (x \in S) /\ FALSE \in BOOLEAN
        BY <1>2
    <2> QED BY <2>1
<1> QED BY <1>1, <1>2

(* The types of the bridge's state. *)
Positions == 0..2
Commands ==
    [valid : BOOLEAN, failsafe : BOOLEAN, seen : BOOLEAN, arm : BOOLEAN, estop : BOOLEAN, mode : Positions,
     trick : {"none", "Btn1", "Btn2", "Btn3"}, trim : -MaxTrim..MaxTrim, tuning : BOOLEAN, param : Int, saveSeq : Int,
     toggleSeq : Int, startSeq : Int]
Edges == [prev : BOOLEAN, age : Int]

BridgeTypeOK ==
    /\ cmd \in Commands /\ frames \in Nat
    /\ edge \in [Slots -> Edges] /\ trickEdge \in [1..3 -> Edges]
    /\ profile \in [kind : {"unknown", "custom", "direct"}, locked : BOOLEAN, custom : Nat, direct : Nat]
    /\ release \in [pending : BOOLEAN, age : Nat]
    /\ chord \in [active : BOOLEAN, fired : BOOLEAN, age : Nat]
    /\ modeSw \in [known : BOOLEAN, stable : Positions, candidate : Positions, age : Nat]
    /\ quiet \in Nat /\ mailbox \in BOOLEAN
    /\ armHigh \in Nat /\ chordAge \in Int /\ starts \in Nat /\ navEffects \in Nat
    /\ sinceFired \in [1..3 -> [age : Nat, up : BOOLEAN]]
    /\ settled \in [pos : Positions, age : Nat]
    /\ runs \in [best : [custom : Nat, direct : Nat], kind : {"custom", "direct"}, len : Nat]

(* The slots, and the two uses of NAV1. *)
LEMMA SlotFacts ==
    /\ DOMAIN TrimOf = {"up", "down", "reset"} /\ DOMAIN TuneOf = {"next", "prev", "more", "less", "save"}
    /\ Slots = {"up", "down", "reset", "next", "prev", "more", "less", "save", "capture", "tune"}
    /\ TrimOf["up"] = "Nav1Up" /\ TrimOf["reset"] = "Nav1Center"
    /\ TuneOf["next"] = "Nav1Up" /\ TuneOf["prev"] = "Nav1Down"
    /\ DOMAIN ToggleOf = {"tune"} /\ DOMAIN [capture |-> "Btn4"] = {"capture"}
BY DEF TrimOf, TuneOf, Slots, TrimSlots, TuneSlots, ToggleOf

(* Testing or following a cluster changes its own slots only. *)
LEMMA SlotsKept ==
    ASSUME NEW e \in [Slots -> Edges], NEW binding, NEW lvl
    PROVE  /\ Tested(e, binding, lvl) \in [Slots -> Edges]
           /\ Followed(e, binding, lvl) \in [Slots -> Edges]
           /\ \A s \in Slots : s \in DOMAIN binding =>
                 /\ (Tested(e, binding, lvl)[s].prev <=> binding[s] \in lvl)
                 /\ (Followed(e, binding, lvl)[s].prev <=> binding[s] \in lvl)
           /\ \A s \in Slots : s \notin DOMAIN binding =>
                 Tested(e, binding, lvl)[s] = e[s] /\ Followed(e, binding, lvl)[s] = e[s]
<1>1. DOMAIN e = Slots /\ \A s \in Slots : e[s] \in Edges /\ e[s].age \in Int
    BY DEF Edges
<1>2. ASSUME NEW s \in Slots, NEW b \in BOOLEAN
      PROVE  /\ [e[s] EXCEPT !.prev = b] \in Edges /\ [e[s] EXCEPT !.prev = b].prev = b
             /\ [prev |-> b, age |-> IF risingEdge(e, s, b) THEN 0 ELSE e[s].age] \in Edges
    BY <1>1 DEF Edges
<1>3. ASSUME NEW s \in Slots, s \in DOMAIN binding
      PROVE  /\ Tested(e, binding, lvl)[s] \in Edges /\ Followed(e, binding, lvl)[s] \in Edges
             /\ (Tested(e, binding, lvl)[s].prev <=> binding[s] \in lvl)
             /\ (Followed(e, binding, lvl)[s].prev <=> binding[s] \in lvl)
    <2>1. PICK b \in BOOLEAN : b = (binding[s] \in lvl)
        BY TruthValue, Zenon
    <2>2. Tested(e, binding, lvl)[s] = [prev |-> b, age |-> IF risingEdge(e, s, b) THEN 0 ELSE e[s].age]
        BY <1>1, <1>3, <2>1 DEF Tested
    <2>3. Followed(e, binding, lvl)[s] = [e[s] EXCEPT !.prev = b]
        BY <1>1, <1>3, <2>1 DEF Followed
    <2>4. Tested(e, binding, lvl)[s] \in Edges /\ Followed(e, binding, lvl)[s] \in Edges
        BY <1>2, <2>2, <2>3
    <2>5. Tested(e, binding, lvl)[s].prev = b /\ Followed(e, binding, lvl)[s].prev = b
        BY <1>2, <2>2, <2>3
    <2> QED BY <2>1, <2>4, <2>5
<1>4. ASSUME NEW s \in Slots, s \notin DOMAIN binding
      PROVE  Tested(e, binding, lvl)[s] = e[s] /\ Followed(e, binding, lvl)[s] = e[s]
    BY <1>1, <1>4 DEF Tested, Followed
<1>5. Tested(e, binding, lvl) \in [Slots -> Edges]
    <2>1. \A s \in Slots : Tested(e, binding, lvl)[s] \in Edges
        BY <1>1, <1>3, <1>4
    <2> QED BY <1>1, <2>1 DEF Tested
<1>6. Followed(e, binding, lvl) \in [Slots -> Edges]
    <2>1. \A s \in Slots : Followed(e, binding, lvl)[s] \in Edges
        BY <1>1, <1>3, <1>4
    <2> QED BY <1>1, <2>1 DEF Followed
<1> QED BY <1>3, <1>4, <1>5, <1>6

(* The fields an editor or trim step leaves alone. *)
SameBut(c, d) ==
    /\ d.seen = c.seen /\ d.arm = c.arm /\ d.mode = c.mode /\ d.startSeq = c.startSeq

(* A trim moves within its scale, and up only by an upward press. *)
LEMMA BumpFacts ==
    ASSUME NEW max \in Nat, NEW v \in -max..max, NEW up \in BOOLEAN, NEW down \in BOOLEAN
    PROVE  Bump(v, up, down, max) \in -max..max /\ (Bump(v, up, down, max) > v => up)
<1> DEFINE w == IF up THEN Min({v + 1, max}) ELSE v
<1>1. w \in -max..max /\ (~up => w = v) /\ -max \in Int /\ max \in Int
    BY MinMaxOfTwo
<1> HIDE DEF w
<1>2. Max({w - 1, -max}) = IF w - 1 <= -max THEN -max ELSE w - 1
    BY <1>1, MinMaxOfTwo
<1>3. Bump(v, up, down, max) = IF down THEN Max({w - 1, -max}) ELSE w
    BY DEF Bump, w
<1> QED BY <1>1, <1>2, <1>3

(* The editor: its slots and its values. *)
LEMMA TuneFacts ==
    ASSUME NEW c \in Commands, NEW e \in [Slots -> Edges], NEW f, NEW lvl
    PROVE  LET t == updateGaitTune(c, e, f, lvl)
           IN  /\ t.c \in Commands /\ SameBut(c, t.c) /\ t.c.trim = c.trim
               /\ t.e \in [Slots -> Edges]
               /\ t.e["up"].prev <=> IF t.c.tuning THEN "Nav1Up" \in lvl ELSE e["up"].prev
               /\ (t.e["next"].prev <=> "Nav1Up" \in lvl)
               /\ (c.tuning /\ t.c.tuning /\ t.c.param # c.param /\ "Nav1Down" \notin lvl) => ~e["next"].prev
<1> DEFINE changed == TuneChanged(c, e, lvl)
           tuning == IF changed THEN ~c.tuning ELSE c.tuning
           e1 == IF tuneBy = "SwG" THEN e ELSE Tested(e, ToggleOf, lvl)
           p1 == IF changed THEN 1 ELSE c.param
           fired == FiredOf(e1, TuneOf, lvl)
           p2 == IF "next" \in fired THEN (p1 % 3) + 1 ELSE p1
           p3 == IF "prev" \in fired THEN ((p2 + 1) % 3) + 1 ELSE p2
           t == updateGaitTune(c, e, f, lvl)
           seq == IF "save" \in fired THEN (c.saveSeq + 1) % CounterMod ELSE c.saveSeq
           off == [c EXCEPT !.tuning = FALSE, !.param = p1]
           on == [c EXCEPT !.tuning = TRUE, !.param = p3, !.saveSeq = seq]
<1>1. e1 \in [Slots -> Edges] /\ e1["up"] = e["up"] /\ e1["next"] = e["next"]
    BY SlotFacts, SlotsKept
<1>2. c.param \in Int /\ c.saveSeq \in Int /\ c.tuning \in BOOLEAN
    BY DEF Commands
<1>3. p1 \in Int /\ p2 \in Int /\ p3 \in Int /\ seq \in Int
    <2>1. p1 \in Int
        BY <1>2
    <2> HIDE DEF p1
    <2>2. p2 \in Int
        BY <2>1
    <2> HIDE DEF p2
    <2>3. p3 \in Int
        BY <2>2
    <2>4. seq \in Int
        BY <1>2, BridgeAssumption
    <2> QED BY <2>1, <2>2, <2>3, <2>4
<1>4. "next" \in fired => ~e["next"].prev
    BY <1>1, SlotFacts DEF FiredOf, risingEdge
<1>5. "prev" \in fired => "Nav1Down" \in lvl
    BY SlotFacts DEF FiredOf, risingEdge
<1>6. changed => tuning # c.tuning
    BY <1>2
<1>7. ~changed => p1 = c.param
    OBVIOUS
<1>8. "next" \notin fired => p2 = p1
    OBVIOUS
<1>9. "prev" \notin fired => p3 = p2
    OBVIOUS
<1>10. CASE ~tuning
    <2>1. t.c = off /\ t.e = Followed(e1, TuneOf, lvl)
        BY <1>10 DEF updateGaitTune
    <2> HIDE DEF t, p1, tuning, e1
    <2>2. off \in Commands /\ SameBut(c, off) /\ off.trim = c.trim /\ off.tuning = FALSE
        BY <1>3 DEF Commands, SameBut
    <2> HIDE DEF off
    <2>3. /\ t.e \in [Slots -> Edges] /\ t.e["up"] = e["up"] /\ (t.e["next"].prev <=> "Nav1Up" \in lvl)
        BY <1>1, <2>1, SlotFacts, SlotsKept
    <2>4. ~t.c.tuning
        BY <2>1, <2>2
    <2> QED BY <2>1, <2>2, <2>3, <2>4 DEF t
<1>11. CASE tuning
    <2>1. t.c = on /\ t.e = Tested(Followed(e1, TrimOf, lvl), TuneOf, lvl)
        BY <1>11 DEF updateGaitTune
    <2> HIDE DEF t
    <2>2. on \in Commands /\ SameBut(c, on) /\ on.trim = c.trim /\ on.tuning = TRUE /\ on.param = p3
        <3> HIDE DEF p3, seq
        <3> QED BY <1>3 DEF Commands, SameBut
    <2> HIDE DEF on
    <2>3. (c.tuning /\ p3 # c.param /\ "Nav1Down" \notin lvl) => ~e["next"].prev
        <3> HIDE DEF changed, p1, p2, p3, fired
        <3> QED BY <1>4, <1>5, <1>6, <1>7, <1>8, <1>9, <1>11
    <2> HIDE DEF tuning, e1
    <2> DEFINE e2 == Followed(e1, TrimOf, lvl)
    <2>4. e2 \in [Slots -> Edges] /\ (e2["up"].prev <=> "Nav1Up" \in lvl)
        BY <1>1, SlotFacts, SlotsKept
    <2> HIDE DEF e2
    <2>5. t.e \in [Slots -> Edges] /\ t.e["up"] = e2["up"] /\ (t.e["next"].prev <=> "Nav1Up" \in lvl)
        BY <2>1, <2>4, SlotFacts, SlotsKept DEF e2
    <2>6. t.c.tuning /\ t.c.param = p3
        BY <2>1, <2>2
    <2> QED BY <2>1, <2>2, <2>3, <2>4, <2>5, <2>6 DEF t
<1> QED BY <1>10, <1>11

(* The trim. *)
LEMMA TrimFacts ==
    ASSUME NEW c \in Commands, NEW e \in [Slots -> Edges], NEW lvl
    PROVE  LET p == updatePoseTrim(c, e, lvl)
           IN  /\ p.c \in Commands /\ SameBut(c, p.c) /\ p.c.tuning = c.tuning /\ p.c.param = c.param
               /\ p.e \in [Slots -> Edges]
               /\ (p.e["up"].prev <=> "Nav1Up" \in lvl) /\ p.e["next"] = e["next"]
               /\ (p.c.trim > c.trim /\ "Nav1Center" \notin lvl) => ~e["up"].prev
<1> DEFINE fired == FiredOf(e, TrimOf, lvl)
           base == IF "reset" \in fired THEN 0 ELSE c.trim
           x == Bump(base, "up" \in fired, "down" \in fired, MaxTrim)
           p == updatePoseTrim(c, e, lvl)
<1>1. c.trim \in -MaxTrim..MaxTrim /\ MaxTrim \in Nat
    BY BridgeAssumption DEF Commands
<1>2. base \in -MaxTrim..MaxTrim
    BY <1>1
<1>3. "reset" \in fired => "Nav1Center" \in lvl
    BY SlotFacts DEF FiredOf, risingEdge
<1>4. "up" \in fired => ~e["up"].prev
    BY SlotFacts DEF FiredOf, risingEdge
<1>5. x \in -MaxTrim..MaxTrim /\ (x > base => "up" \in fired)
    <2>a. PICK u \in BOOLEAN : u = ("up" \in fired)
        BY TruthValue, Zenon
    <2>b. PICK d \in BOOLEAN : d = ("down" \in fired)
        BY TruthValue, Zenon
    <2>1. u = ("up" \in fired) /\ d = ("down" \in fired)
        BY <2>a, <2>b
    <2> HIDE DEF base, fired
    <2>2. x = Bump(base, u, d, MaxTrim)
        BY <2>1
    <2> HIDE DEF x
    <2>3. x \in -MaxTrim..MaxTrim /\ (x > base => u)
        BY <1>1, <1>2, <2>2, BumpFacts
    <2> QED BY <2>1, <2>3
<1>6. p.c = [c EXCEPT !.trim = x] /\ p.e = Tested(e, TrimOf, lvl)
    BY DEF updatePoseTrim
<1>7. (x > c.trim /\ "Nav1Center" \notin lvl) => ~e["up"].prev
    <2> HIDE DEF x, fired
    <2> QED BY <1>3, <1>4, <1>5
<1> HIDE DEF x, p
<1>8. /\ p.c \in Commands /\ SameBut(c, p.c) /\ p.c.tuning = c.tuning /\ p.c.param = c.param /\ p.c.trim = x
    BY <1>5, <1>6 DEF Commands, SameBut
<1>9. p.e \in [Slots -> Edges] /\ (p.e["up"].prev <=> "Nav1Up" \in lvl) /\ p.e["next"] = e["next"]
    BY <1>6, SlotFacts, SlotsKept
<1> QED BY <1>7, <1>8, <1>9 DEF p

(* A set of slots that is not empty has a first one. *)
LEMMA FirstOfThree ==
    ASSUME NEW S \in SUBSET (1..3), S # {} PROVE Min(S) \in S
<1>1. \E x \in S : \A y \in S : x <= y
    <2>1. CASE 1 \in S
        BY <2>1
    <2>2. CASE 1 \notin S /\ 2 \in S
        BY <2>2
    <2>3. CASE 1 \notin S /\ 2 \notin S
        <3>1. \A y \in S : y = 3
            BY <2>3
        <3>2. 3 \in S
            BY <3>1
        <3> QED BY <3>1, <3>2
    <2> QED BY <2>1, <2>2, <2>3
<1> QED BY <1>1 DEF Min

(* A trick fires for a button that is down and was idle long enough. *)
LEMMA TrickFacts ==
    ASSUME NEW c \in Commands, NEW e \in [1..3 -> Edges], NEW lvl
    PROVE  LET k == TricksOf(c, e, lvl)
           IN  /\ k.c \in Commands /\ SameBut(c, k.c)
               /\ k.c.tuning = c.tuning /\ k.c.param = c.param /\ k.c.trim = c.trim
               /\ k.e \in [1..3 -> Edges] /\ k.fired \in SUBSET (1..3)
               /\ \A i \in 1..3 : /\ k.e[i].age = IF i \in k.fired THEN 0 ELSE e[i].age
                                  /\ k.e[i].prev <=> Trick[i] \in lvl
                                  /\ i \in k.fired => /\ Trick[i] \in lvl
                                                      /\ e[i].age >= (IF e[i].prev THEN Repeat ELSE Refractory)
<1> DEFINE reserved == {i \in 1..3 : Chord(lvl) /\ Trick[i] \in {"Btn1", "Btn2"}}
           fired == {i \in (1..3) \ reserved : repeatingTrickTrigger(e, i, lvl)}
           x == IF fired = {} THEN "none" ELSE Trick[Min(fired)]
           k == TricksOf(c, e, lvl)
<1>1. fired \in SUBSET (1..3)
    OBVIOUS
<1>2. \A i \in 1..3 : Trick[i] \in {"Btn1", "Btn2", "Btn3"}
    BY DEF Trick
<1>3. \A i \in reserved : Trick[i] \in lvl
    BY DEF Chord
<1>4. \A i \in fired : Trick[i] \in lvl /\ e[i].age >= (IF e[i].prev THEN Repeat ELSE Refractory)
    BY DEF repeatingTrickTrigger
<1>5. /\ k.c = [c EXCEPT !.trick = x] /\ k.fired = fired
      /\ k.e = [i \in 1..3 |-> [prev |-> i \in reserved \/ Trick[i] \in lvl,
                                age |-> IF i \in fired THEN 0 ELSE e[i].age]]
    BY DEF TricksOf
<1> HIDE DEF fired, reserved, k
<1>6. x \in {"none", "Btn1", "Btn2", "Btn3"}
    BY <1>1, <1>2, FirstOfThree
<1> HIDE DEF x
<1>7. /\ k.c \in Commands /\ SameBut(c, k.c)
      /\ k.c.tuning = c.tuning /\ k.c.param = c.param /\ k.c.trim = c.trim
    BY <1>5, <1>6 DEF Commands, SameBut
<1>8. ASSUME NEW i \in 1..3
      PROVE  /\ k.e[i] \in Edges /\ k.e[i].age = IF i \in fired THEN 0 ELSE e[i].age
             /\ k.e[i].prev <=> Trick[i] \in lvl
    <2>1. PICK b \in BOOLEAN : b = (Trick[i] \in lvl)
        BY TruthValue, Zenon
    <2>2. (i \in reserved \/ Trick[i] \in lvl) = b
        BY <1>3, <2>1
    <2>3. k.e[i] = [prev |-> b, age |-> IF i \in fired THEN 0 ELSE e[i].age]
        BY <1>5, <2>2
    <2>4. e[i].age \in Int
        BY DEF Edges
    <2>5. k.e[i] \in Edges /\ k.e[i].prev = b /\ k.e[i].age = IF i \in fired THEN 0 ELSE e[i].age
        BY <2>3, <2>4 DEF Edges
    <2> QED BY <2>1, <2>5
<1>9. k.e \in [1..3 -> Edges]
    BY <1>5, <1>8
<1> QED BY <1>1, <1>4, <1>5, <1>7, <1>8, <1>9 DEF k

(* What the present frame counts as moved by NAV1 up. *)
NavMoved(lvl) ==
    {x \in {"trim", "param"} :
        IF x = "trim" THEN cmd'.trim > cmd.trim /\ "Nav1Center" \notin lvl
        ELSE cmd'.tuning /\ cmd.tuning /\ cmd'.param # cmd.param /\ "Nav1Down" \notin lvl}

(* What the frame does to the trick slots, where those of fired fire. *)
TrickStep(fired, lvl) ==
    \A i \in 1..3 :
        /\ trickEdge'[i].age = IF i \in fired THEN 0 ELSE trickEdge[i].age
        /\ trickEdge'[i].prev <=> Trick[i] \in lvl
        /\ i \in fired => /\ Trick[i] \in lvl
                          /\ trickEdge[i].age >= (IF trickEdge[i].prev THEN Repeat ELSE Refractory)
        /\ sinceFired'[i] = IF i \in fired THEN [age |-> 0, up |-> FALSE]
                            ELSE [sinceFired[i] EXCEPT !.up = @ \/ Trick[i] \notin lvl]

(* The command after a decoded frame. *)
LEMMA DecodedCommand ==
    ASSUME BridgeTypeOK, NEW lvl, NEW mode \in Positions, Decoded(lvl, mode)
    PROVE  /\ cmd' \in Commands /\ cmd'.seen = TRUE /\ cmd'.arm = ArmLatch(cmd, release, lvl).arm
           /\ cmd'.mode = Debounced(modeSw, mode).stable
           /\ cmd'.startSeq # cmd.startSeq => HoldFires(chord, lvl)
           /\ edge' \in [Slots -> Edges]
           /\ "Nav1Up" \in lvl => edge'["up"].prev /\ edge'["next"].prev
           /\ cmd'.trim > cmd.trim /\ "Nav1Center" \notin lvl => ~cmd'.tuning /\ ~edge["up"].prev
           /\ cmd.tuning /\ cmd'.tuning /\ cmd'.param # cmd.param /\ "Nav1Down" \notin lvl => ~edge["next"].prev
           /\ starts' = IF ~Chord(lvl) THEN 0 ELSE starts + (IF cmd'.startSeq # cmd.startSeq THEN 1 ELSE 0)
           /\ navEffects' = IF "Nav1Up" \notin lvl THEN 0 ELSE navEffects + Cardinality(NavMoved(lvl))
           /\ trickEdge' \in [1..3 -> Edges]
           /\ sinceFired' \in [1..3 -> [age : Nat, up : BOOLEAN]]
           /\ \E fired \in SUBSET (1..3) : TrickStep(fired, lvl)
<1> DEFINE m == Debounced(modeSw, mode)
           a == ArmLatch(cmd, release, lvl)
           c1 == [cmd EXCEPT !.valid = TRUE, !.failsafe = FALSE, !.seen = TRUE,
                             !.mode = m.stable, !.estop = "SwB" \in lvl, !.arm = a.arm]
           t == updateGaitTune(c1, edge, frac, lvl)
           p == IF t.c.tuning THEN [c |-> t.c, e |-> t.e] ELSE updatePoseTrim(t.c, t.e, lvl)
           toggled == IF risingEdge(p.e, "capture", "Btn4" \in lvl) THEN (p.c.toggleSeq + 1) % CounterMod ELSE p.c.toggleSeq
           started == IF HoldFires(chord, lvl) THEN (p.c.startSeq + 1) % CounterMod ELSE p.c.startSeq
           c2 == [p.c EXCEPT !.toggleSeq = toggled, !.startSeq = started]
           k == TricksOf(c2, trickEdge, lvl)
<1>1. /\ cmd' = k.c /\ edge' = Tested(p.e, [capture |-> "Btn4"], lvl) /\ trickEdge' = k.e
      /\ sinceFired' = [i \in 1..3 |-> IF i \in k.fired THEN [age |-> 0, up |-> FALSE]
                                       ELSE [sinceFired[i] EXCEPT !.up = @ \/ Trick[i] \notin lvl]]
      /\ starts' = IF ~Chord(lvl) THEN 0 ELSE starts + (IF k.c.startSeq # cmd.startSeq THEN 1 ELSE 0)
      /\ navEffects' = IF "Nav1Up" \notin lvl THEN 0
                       ELSE navEffects + Cardinality({x \in {"trim", "param"} :
                                IF x = "trim" THEN k.c.trim > cmd.trim /\ "Nav1Center" \notin lvl
                                ELSE k.c.tuning /\ cmd.tuning /\ k.c.param # cmd.param /\ "Nav1Down" \notin lvl})
    BY DEF Decoded
<1>2. m.stable \in Positions /\ a.arm \in BOOLEAN
    <2>1. m.stable \in Positions
        BY DEF BridgeTypeOK, Debounced
    <2>2. a.arm \in BOOLEAN
        BY DEF ArmLatch
    <2> QED BY <2>1, <2>2
<1> HIDE DEF m, a
<1>3. /\ c1 \in Commands /\ c1.seen = TRUE /\ c1.arm = a.arm /\ c1.mode = m.stable /\ c1.startSeq = cmd.startSeq
      /\ c1.tuning = cmd.tuning /\ c1.trim = cmd.trim /\ c1.param = cmd.param
    <2>1. PICK b \in BOOLEAN : b = ("SwB" \in lvl)
        BY TruthValue, Zenon
    <2>2. c1 = [cmd EXCEPT !.valid = TRUE, !.failsafe = FALSE, !.seen = TRUE, !.mode = m.stable, !.estop = b, !.arm = a.arm]
        BY <2>1
    <2> HIDE DEF c1
    <2> QED BY <1>2, <2>2 DEF BridgeTypeOK, Commands
<1> HIDE DEF c1
<1>4. /\ t.c \in Commands /\ SameBut(c1, t.c) /\ t.c.trim = c1.trim
      /\ t.e \in [Slots -> Edges]
      /\ t.e["up"].prev <=> IF t.c.tuning THEN "Nav1Up" \in lvl ELSE edge["up"].prev
      /\ (t.e["next"].prev <=> "Nav1Up" \in lvl)
      /\ (c1.tuning /\ t.c.tuning /\ t.c.param # c1.param /\ "Nav1Down" \notin lvl) => ~edge["next"].prev
    BY <1>3, TuneFacts DEF BridgeTypeOK
<1> HIDE DEF t
<1>5. /\ p.c \in Commands /\ SameBut(t.c, p.c) /\ p.c.tuning = t.c.tuning /\ p.c.param = t.c.param
      /\ p.e \in [Slots -> Edges] /\ (p.e["up"].prev <=> "Nav1Up" \in lvl)
      /\ (p.e["next"].prev <=> "Nav1Up" \in lvl)
      /\ (p.c.trim > t.c.trim /\ "Nav1Center" \notin lvl) => ~p.c.tuning /\ ~t.e["up"].prev
    <2>1. CASE t.c.tuning
        <3>1. p.c = t.c /\ p.e = t.e
            BY <2>1
        <3> HIDE DEF p
        <3>2. ~(t.c.trim > t.c.trim)
            BY <1>4 DEF Commands
        <3> QED BY <1>4, <2>1, <3>1, <3>2 DEF SameBut
    <2>2. CASE ~t.c.tuning
        <3>1. p = updatePoseTrim(t.c, t.e, lvl)
            BY <2>2
        <3> HIDE DEF p
        <3> QED BY <1>4, <2>2, <3>1, TrimFacts
    <2> QED BY <2>1, <2>2
<1> HIDE DEF p
<1>6. /\ c2 \in Commands /\ c2.seen = p.c.seen /\ c2.arm = p.c.arm /\ c2.mode = p.c.mode
      /\ c2.startSeq = started /\ c2.tuning = p.c.tuning /\ c2.param = p.c.param /\ c2.trim = p.c.trim
    <2>1. p.c.toggleSeq \in Int /\ p.c.startSeq \in Int
        BY <1>5 DEF Commands
    <2>2. toggled \in Int /\ started \in Int
        BY <2>1, BridgeAssumption
    <2> HIDE DEF toggled, started
    <2> QED BY <1>5, <2>2 DEF Commands
<1> HIDE DEF c2
<1>7. /\ k.c \in Commands /\ SameBut(c2, k.c)
      /\ k.c.tuning = c2.tuning /\ k.c.param = c2.param /\ k.c.trim = c2.trim
      /\ k.e \in [1..3 -> Edges] /\ k.fired \in SUBSET (1..3)
      /\ \A i \in 1..3 : /\ k.e[i].age = IF i \in k.fired THEN 0 ELSE trickEdge[i].age
                         /\ k.e[i].prev <=> Trick[i] \in lvl
                         /\ i \in k.fired => /\ Trick[i] \in lvl
                                             /\ trickEdge[i].age >= (IF trickEdge[i].prev THEN Repeat ELSE Refractory)
    BY <1>6, TrickFacts DEF BridgeTypeOK
<1> HIDE DEF k
<1>8. /\ cmd' \in Commands /\ cmd'.seen = TRUE /\ cmd'.arm = a.arm /\ cmd'.mode = m.stable
      /\ cmd'.startSeq = started /\ cmd'.tuning = t.c.tuning /\ cmd'.param = t.c.param /\ cmd'.trim = p.c.trim
    BY <1>1, <1>3, <1>4, <1>5, <1>6, <1>7 DEF SameBut
<1>9. started # cmd.startSeq => HoldFires(chord, lvl)
    BY <1>3, <1>4, <1>5 DEF SameBut
<1>10. edge' \in [Slots -> Edges] /\ edge'["up"] = p.e["up"] /\ edge'["next"] = p.e["next"]
    BY <1>1, <1>5, SlotFacts, SlotsKept
<1>11. "Nav1Up" \in lvl => edge'["up"].prev /\ edge'["next"].prev
    BY <1>5, <1>10
<1>12. cmd'.trim > cmd.trim /\ "Nav1Center" \notin lvl => ~cmd'.tuning /\ ~edge["up"].prev
    BY <1>3, <1>4, <1>5, <1>8
<1>13. cmd.tuning /\ cmd'.tuning /\ cmd'.param # cmd.param /\ "Nav1Down" \notin lvl => ~edge["next"].prev
    BY <1>3, <1>4, <1>8
<1>14. \E fired \in SUBSET (1..3) : TrickStep(fired, lvl)
    <2>1. k.fired \in SUBSET (1..3)
        BY <1>7
    <2>2. TrickStep(k.fired, lvl)
        BY <1>1, <1>7 DEF TrickStep
    <2> QED BY <2>1, <2>2
<1>15. sinceFired' \in [1..3 -> [age : Nat, up : BOOLEAN]]
    <2>1. ASSUME NEW i \in 1..3 PROVE sinceFired'[i] \in [age : Nat, up : BOOLEAN]
        <3>1. PICK b \in BOOLEAN : b = (Trick[i] \in lvl)
            BY TruthValue, Zenon
        <3>2. sinceFired'[i] = IF i \in k.fired THEN [age |-> 0, up |-> FALSE]
                               ELSE [sinceFired[i] EXCEPT !.up = @ \/ ~b]
            BY <1>1, <3>1
        <3>3. sinceFired[i] \in [age : Nat, up : BOOLEAN]
            BY DEF BridgeTypeOK
        <3>4. sinceFired[i].up \in BOOLEAN /\ (sinceFired[i].up \/ ~b) \in BOOLEAN
            BY <3>3
        <3>5. CASE i \in k.fired
            BY <3>2, <3>5
        <3>6. CASE i \notin k.fired
            <4>1. sinceFired'[i] = [sinceFired[i] EXCEPT !.up = sinceFired[i].up \/ ~b]
                BY <3>2, <3>6
            <4> QED BY <3>3, <3>4, <4>1
        <3> QED BY <3>5, <3>6
    <2> QED BY <1>1, <2>1
<1>16. /\ starts' = IF ~Chord(lvl) THEN 0 ELSE starts + (IF cmd'.startSeq # cmd.startSeq THEN 1 ELSE 0)
       /\ navEffects' = IF "Nav1Up" \notin lvl THEN 0 ELSE navEffects + Cardinality(NavMoved(lvl))
    BY <1>1 DEF NavMoved
<1> QED BY <1>1, <1>7, <1>8, <1>9, <1>10, <1>11, <1>12, <1>13, <1>14, <1>15, <1>16 DEF m, a

(***************************************************************************)
(* Why an arm request is never older than its bound: while the switch is    *)
(* taken as up and no release is pending, the last frame that showed it up   *)
(* is as old as the silence, which evaluateFailsafe cuts at the first pass    *)
(* that finds it too long.  A pending release starts at a frame, at most a     *)
(* silence after that one, and then ages with the clock; once it is old       *)
(* enough the next frame disarms, and if none comes the silence does.         *)
(***************************************************************************)
Grown(q) == IF q <= Failsafe THEN q ELSE Failsafe + MaxPeriod

ArmInv ==
    /\ cmd.arm /\ ~release.pending => armHigh <= Grown(quiet)
    /\ cmd.arm /\ release.pending =>
          /\ release.age < ArmRelease => armHigh <= Failsafe + MaxPeriod + release.age
          /\ armHigh <= Failsafe + MaxPeriod + ArmRelease + Grown(quiet)
    /\ mailbox => armHigh <= ArmBound

(* The hold timer measures the operator's hold, and counts its one start. *)
ChordInv ==
    /\ IF chord.active THEN chordAge = chord.age ELSE chordAge = -1 /\ ~chord.fired
    /\ ~chord.fired => starts = 0

(* A slot's timer is the age of its trick's last firing. *)
TrickInv ==
    \A i \in 1..3 : trickEdge[i].age = sinceFired[i].age /\ (~sinceFired[i].up => trickEdge[i].prev)

(* The debouncer's candidate is where the switch is, for no longer than it is. *)
ModeInv ==
    /\ cmd.seen => modeSw.known /\ cmd.mode = modeSw.stable
    /\ modeSw.known => modeSw.candidate = settled.pos /\ modeSw.age <= settled.age

(* Both slots of NAV1 up remember a press that has had its effect. *)
NavInv == navEffects <= 1 /\ (navEffects > 0 => edge["up"].prev /\ edge["next"].prev)

(* A streak is no longer than the present run of its layout. *)
ProfileInv ==
    /\ ~profile.locked =>
          /\ profile.custom <= (IF runs.kind = "custom" THEN runs.len ELSE 0)
          /\ profile.direct <= (IF runs.kind = "direct" THEN runs.len ELSE 0)
    /\ profile.locked =>
          /\ profile.kind = "custom" => runs.best.custom >= DetectFrames
          /\ profile.kind = "direct" => runs.best.direct >= DetectFrames
          /\ profile.kind # "unknown"

(* The inductive invariant. *)
BridgeInv == BridgeTypeOK /\ ArmInv /\ ChordInv /\ TrickInv /\ ModeInv /\ NavInv /\ ProfileInv

(* What a step of the bridge may do: the action parts of the property. *)
BridgeActs ==
    /\ \A i \in 1..3 : (trickEdge'[i].age = 0 /\ sinceFired'[i].age = 0 /\ frames' = frames + 1
                            /\ sinceFired[i].age # 0) =>
          sinceFired[i].age >= (IF sinceFired[i].up THEN Refractory ELSE Repeat)
    /\ cmd'.startSeq # cmd.startSeq => chordAge >= CaptureHold /\ starts = 0
    /\ cmd'.mode # cmd.mode /\ cmd.seen => settled.pos = cmd'.mode /\ settled.age >= ModeDebounce

(* The parts a decoded frame sets from themselves. *)
LEMMA DecodedRest ==
    ASSUME NEW lvl, NEW mode, Decoded(lvl, mode)
    PROVE  /\ modeSw' = Debounced(modeSw, mode)
           /\ release' = [pending |-> ArmLatch(cmd, release, lvl).pending, age |-> ArmLatch(cmd, release, lvl).age]
           /\ chord' = HoldOf(chord, lvl)
           /\ quiet' = 0
           /\ armHigh' = IF "SwA" \in lvl /\ "SwB" \notin lvl THEN 0 ELSE armHigh
           /\ chordAge' = IF ~Chord(lvl) THEN -1 ELSE IF chordAge < 0 THEN 0 ELSE chordAge
           /\ settled' = IF settled.pos = mode THEN settled ELSE [pos |-> mode, age |-> 0]
BY DEF Decoded

(* A decoded frame keeps every part but the detection's. *)
LEMMA DecodedKeeps ==
    ASSUME BridgeInv, NEW lvl, NEW mode \in Positions, Decoded(lvl, mode), frames' = frames + 1, mailbox' = mailbox
    PROVE  /\ cmd' \in Commands /\ edge' \in [Slots -> Edges] /\ trickEdge' \in [1..3 -> Edges]
           /\ release' \in [pending : BOOLEAN, age : Nat] /\ chord' \in [active : BOOLEAN, fired : BOOLEAN, age : Nat]
           /\ modeSw' \in [known : BOOLEAN, stable : Positions, candidate : Positions, age : Nat]
           /\ quiet' \in Nat /\ armHigh' \in Nat /\ chordAge' \in Int /\ starts' \in Nat /\ navEffects' \in Nat
           /\ sinceFired' \in [1..3 -> [age : Nat, up : BOOLEAN]]
           /\ settled' \in [pos : Positions, age : Nat]
           /\ ArmInv' /\ ChordInv' /\ TrickInv' /\ ModeInv' /\ NavInv' /\ BridgeActs
<1>a. BridgeTypeOK /\ ArmInv /\ ChordInv /\ TrickInv /\ ModeInv /\ NavInv
    BY DEF BridgeInv
<1>b. /\ cmd' \in Commands /\ cmd'.seen = TRUE /\ cmd'.arm = ArmLatch(cmd, release, lvl).arm
      /\ cmd'.mode = Debounced(modeSw, mode).stable
      /\ cmd'.startSeq # cmd.startSeq => HoldFires(chord, lvl)
      /\ edge' \in [Slots -> Edges]
      /\ "Nav1Up" \in lvl => edge'["up"].prev /\ edge'["next"].prev
      /\ cmd'.trim > cmd.trim /\ "Nav1Center" \notin lvl => ~cmd'.tuning /\ ~edge["up"].prev
      /\ cmd.tuning /\ cmd'.tuning /\ cmd'.param # cmd.param /\ "Nav1Down" \notin lvl => ~edge["next"].prev
      /\ starts' = IF ~Chord(lvl) THEN 0 ELSE starts + (IF cmd'.startSeq # cmd.startSeq THEN 1 ELSE 0)
      /\ navEffects' = IF "Nav1Up" \notin lvl THEN 0 ELSE navEffects + Cardinality(NavMoved(lvl))
      /\ trickEdge' \in [1..3 -> Edges]
      /\ sinceFired' \in [1..3 -> [age : Nat, up : BOOLEAN]]
    BY <1>a, DecodedCommand, Zenon
<1>1. PICK fired \in SUBSET (1..3) : TrickStep(fired, lvl)
    BY <1>a, DecodedCommand, Zenon
<1>2. /\ release' \in [pending : BOOLEAN, age : Nat]
      /\ quiet' \in Nat /\ armHigh' \in Nat
      /\ ArmInv'
    <2>1. /\ cmd'.arm = ArmLatch(cmd, release, lvl).arm
          /\ release' = [pending |-> ArmLatch(cmd, release, lvl).pending, age |-> ArmLatch(cmd, release, lvl).age]
          /\ quiet' = 0
          /\ armHigh' = IF "SwA" \in lvl /\ "SwB" \notin lvl THEN 0 ELSE armHigh
        BY <1>b, DecodedRest
    <2>2. /\ cmd.arm \in BOOLEAN /\ release.pending \in BOOLEAN /\ release.age \in Nat /\ quiet \in Nat /\ armHigh \in Nat
          /\ Failsafe \in Nat \ {0} /\ MaxPeriod \in Nat \ {0} /\ ArmRelease \in Nat \ {0} /\ ArmBound \in Nat
        BY <1>a, BridgeAssumption DEF BridgeTypeOK, Commands, ArmBound
    <2>3. release' \in [pending : BOOLEAN, age : Nat]
        BY <2>1, <2>2 DEF ArmLatch
    <2>4. ArmInv'
        BY <1>a, <2>1, <2>2 DEF ArmLatch, ArmInv, Grown
    <2> QED BY <2>1, <2>2, <2>3, <2>4
<1>3. /\ chord' \in [active : BOOLEAN, fired : BOOLEAN, age : Nat]
      /\ chordAge' \in Int /\ starts' \in Nat /\ ChordInv'
      /\ cmd'.startSeq # cmd.startSeq => chordAge >= CaptureHold /\ starts = 0
    <2>1. /\ chord' = HoldOf(chord, lvl)
          /\ chordAge' = IF ~Chord(lvl) THEN -1 ELSE IF chordAge < 0 THEN 0 ELSE chordAge
          /\ starts' = IF ~Chord(lvl) THEN 0 ELSE starts + (IF cmd'.startSeq # cmd.startSeq THEN 1 ELSE 0)
          /\ cmd'.startSeq # cmd.startSeq => HoldFires(chord, lvl)
        BY <1>b, DecodedRest
    <2>2. /\ chord \in [active : BOOLEAN, fired : BOOLEAN, age : Nat] /\ chordAge \in Int /\ starts \in Nat
          /\ CaptureHold \in Nat \ {0}
        BY <1>a, BridgeAssumption DEF BridgeTypeOK
    <2>3. CASE ~Chord(lvl)
        <3>1. chord' = [active |-> FALSE, fired |-> FALSE, age |-> 0] /\ cmd'.startSeq = cmd.startSeq
            BY <2>1, <2>3 DEF HoldOf, HoldFires
        <3> QED BY <1>a, <2>1, <2>2, <2>3, <3>1 DEF ChordInv
    <2>4. CASE Chord(lvl) /\ ~chord.active
        <3>1. chord' = [active |-> TRUE, fired |-> FALSE, age |-> 0] /\ cmd'.startSeq = cmd.startSeq
            BY <2>1, <2>4 DEF HoldOf, HoldFires
        <3> QED BY <1>a, <2>1, <2>2, <2>4, <3>1 DEF ChordInv
    <2>5. CASE Chord(lvl) /\ chord.active
        <3>1. /\ chord'.active = chord.active /\ chord'.age = chord.age
              /\ chord' \in [active : BOOLEAN, fired : BOOLEAN, age : Nat]
              /\ chord'.fired <=> chord.fired \/ chord.age >= CaptureHold
            BY <2>1, <2>2, <2>5 DEF HoldOf
        <3>2. cmd'.startSeq # cmd.startSeq => chord'.fired /\ ~chord.fired
            BY <2>1 DEF HoldFires
        <3> QED BY <1>a, <2>1, <2>2, <2>5, <3>1, <3>2 DEF ChordInv
    <2> QED BY <2>3, <2>4, <2>5
<1>4. TrickInv' /\ (\A i \in 1..3 : (trickEdge'[i].age = 0 /\ sinceFired'[i].age = 0 /\ frames' = frames + 1
                            /\ sinceFired[i].age # 0) =>
          sinceFired[i].age >= (IF sinceFired[i].up THEN Refractory ELSE Repeat))
    <2> SUFFICES ASSUME NEW i \in 1..3
                 PROVE  /\ trickEdge'[i].age = sinceFired'[i].age /\ (~sinceFired'[i].up => trickEdge'[i].prev)
                        /\ (sinceFired'[i].age = 0 /\ sinceFired[i].age # 0) =>
                               sinceFired[i].age >= (IF sinceFired[i].up THEN Refractory ELSE Repeat)
        BY DEF TrickInv
    <2>1. /\ sinceFired[i] \in [age : Nat, up : BOOLEAN] /\ trickEdge[i].age = sinceFired[i].age
          /\ (~sinceFired[i].up => trickEdge[i].prev) /\ Refractory \in Nat /\ Repeat \in Nat /\ Refractory <= Repeat
        BY <1>a, BridgeAssumption DEF BridgeTypeOK, TrickInv
    <2>2. CASE i \in fired
        <3>1. sinceFired'[i] = [age |-> 0, up |-> FALSE] /\ Trick[i] \in lvl /\ trickEdge'[i].age = 0 /\ trickEdge'[i].prev
            BY <1>1, <2>2 DEF TrickStep
        <3>2. trickEdge[i].age >= (IF trickEdge[i].prev THEN Repeat ELSE Refractory)
            BY <1>1, <2>2 DEF TrickStep
        <3> QED BY <2>1, <3>1, <3>2
    <2>3. CASE i \notin fired
        <3>1. /\ sinceFired'[i].age = sinceFired[i].age
              /\ ~sinceFired'[i].up => Trick[i] \in lvl
              /\ trickEdge'[i].age = trickEdge[i].age /\ (trickEdge'[i].prev <=> Trick[i] \in lvl)
            BY <1>1, <2>1, <2>3 DEF TrickStep
        <3> QED BY <2>1, <3>1
    <2> QED BY <2>2, <2>3
<1>5. /\ modeSw' \in [known : BOOLEAN, stable : Positions, candidate : Positions, age : Nat]
      /\ settled' \in [pos : Positions, age : Nat] /\ ModeInv'
      /\ cmd'.mode # cmd.mode /\ cmd.seen => settled.pos = cmd'.mode /\ settled.age >= ModeDebounce
    <2>1. /\ modeSw' = Debounced(modeSw, mode) /\ cmd'.mode = Debounced(modeSw, mode).stable
          /\ settled' = IF settled.pos = mode THEN settled ELSE [pos |-> mode, age |-> 0]
        BY <1>b, DecodedRest
    <2>2. /\ modeSw \in [known : BOOLEAN, stable : Positions, candidate : Positions, age : Nat]
          /\ settled \in [pos : Positions, age : Nat] /\ ModeDebounce \in Nat \ {0}
        BY <1>a, BridgeAssumption DEF BridgeTypeOK
    <2>3. CASE ~modeSw.known
        <3>1. modeSw' = [known |-> TRUE, stable |-> mode, candidate |-> mode, age |-> 0]
            BY <2>1, <2>3 DEF Debounced
        <3> QED BY <1>a, <2>1, <2>2, <2>3, <3>1 DEF ModeInv
    <2>4. CASE modeSw.known
        <3> DEFINE age == IF mode # modeSw.candidate THEN 0 ELSE modeSw.age
                   stable == IF mode # modeSw.stable /\ age >= ModeDebounce THEN mode ELSE modeSw.stable
        <3>1. modeSw' = [modeSw EXCEPT !.candidate = mode, !.age = age, !.stable = stable]
            BY <2>1, <2>4 DEF Debounced
        <3>2. age \in Nat /\ stable \in Positions
            BY <2>2
        <3>3. /\ modeSw' \in [known : BOOLEAN, stable : Positions, candidate : Positions, age : Nat]
              /\ modeSw'.known = TRUE /\ modeSw'.candidate = mode /\ modeSw'.age = age /\ modeSw'.stable = stable
            <4> HIDE DEF age, stable
            <4> QED BY <2>2, <2>4, <3>1, <3>2
        <3>4. settled' \in [pos : Positions, age : Nat] /\ settled'.pos = mode /\ age <= settled'.age
            BY <1>a, <2>1, <2>2, <2>4 DEF ModeInv
        <3>5. cmd'.mode = stable
            BY <2>1, <3>3
        <3>6. cmd'.mode # cmd.mode /\ cmd.seen => settled.pos = cmd'.mode /\ settled.age >= ModeDebounce
            BY <1>a, <2>2, <2>4, <3>5 DEF ModeInv
        <3> HIDE DEF age, stable
        <3> QED BY <3>3, <3>4, <3>5, <3>6 DEF ModeInv
    <2> QED BY <2>2, <2>3, <2>4
<1>6. navEffects' \in Nat /\ NavInv'
    <2>1. /\ navEffects' = IF "Nav1Up" \notin lvl THEN 0 ELSE navEffects + Cardinality(NavMoved(lvl))
          /\ "Nav1Up" \in lvl => edge'["up"].prev /\ edge'["next"].prev
          /\ "trim" \in NavMoved(lvl) => ~cmd'.tuning /\ ~edge["up"].prev
          /\ "param" \in NavMoved(lvl) => cmd'.tuning /\ ~edge["next"].prev
        BY <1>b DEF NavMoved
    <2>2. NavMoved(lvl) = {} \/ NavMoved(lvl) = {"trim"} \/ NavMoved(lvl) = {"param"}
        BY <2>1 DEF NavMoved
    <2>3. Cardinality({}) = 0 /\ Cardinality({"trim"}) = 1 /\ Cardinality({"param"}) = 1
        BY FS_EmptySet, FS_Singleton
    <2>4. Cardinality(NavMoved(lvl)) \in {0, 1}
        BY <2>2, <2>3
    <2>5. Cardinality(NavMoved(lvl)) = 1 => ~edge["up"].prev \/ ~edge["next"].prev
        BY <2>1, <2>2, <2>3
    <2> QED BY <1>a, <2>1, <2>4, <2>5 DEF NavInv, BridgeTypeOK
<1> QED BY <1>2, <1>3, <1>4, <1>5, <1>6, <1>b DEF BridgeActs

(* A layout is locked only by its own run of frames. *)
LEMMA DetectionKeeps ==
    ASSUME BridgeInv, NEW kind \in {"custom", "direct"}, ~profile.locked,
           profile' = attemptProfileDetection(profile, kind),
           NEW len, len = (IF kind = runs.kind THEN Min({runs.len + 1, DetectFrames}) ELSE 1),
           runs' = [best |-> [runs.best EXCEPT ![kind] = Max({@, len})], kind |-> kind, len |-> len]
    PROVE  /\ profile' \in [kind : {"unknown", "custom", "direct"}, locked : BOOLEAN, custom : Nat, direct : Nat]
           /\ runs' \in [best : [custom : Nat, direct : Nat], kind : {"custom", "direct"}, len : Nat]
           /\ ProfileInv'
<1>1. /\ profile \in [kind : {"unknown", "custom", "direct"}, locked : BOOLEAN, custom : Nat, direct : Nat]
      /\ runs \in [best : [custom : Nat, direct : Nat], kind : {"custom", "direct"}, len : Nat]
      /\ profile.custom <= (IF runs.kind = "custom" THEN runs.len ELSE 0)
      /\ profile.direct <= (IF runs.kind = "direct" THEN runs.len ELSE 0)
      /\ DetectFrames \in Nat \ {0}
    BY BridgeAssumption DEF BridgeInv, BridgeTypeOK, ProfileInv
<1>2. /\ Min({profile.custom + 1, DetectFrames}) =
            (IF profile.custom + 1 <= DetectFrames THEN profile.custom + 1 ELSE DetectFrames)
      /\ Min({profile.direct + 1, DetectFrames}) =
            (IF profile.direct + 1 <= DetectFrames THEN profile.direct + 1 ELSE DetectFrames)
      /\ Min({runs.len + 1, DetectFrames}) = (IF runs.len + 1 <= DetectFrames THEN runs.len + 1 ELSE DetectFrames)
    BY <1>1, MinMaxOfTwo
<1>3. len \in Nat
    BY <1>1, <1>2
<1>4. /\ Max({runs.best.custom, len}) = (IF runs.best.custom <= len THEN len ELSE runs.best.custom)
      /\ Max({runs.best.direct, len}) = (IF runs.best.direct <= len THEN len ELSE runs.best.direct)
    <2>1. runs.best.custom \in Int /\ runs.best.direct \in Int /\ len \in Int
        BY <1>1, <1>3
    <2> QED BY <2>1, MinMaxOfTwo
<1>5. CASE kind = "custom"
    <2> DEFINE n == Min({profile.custom + 1, DetectFrames})
               q == [profile EXCEPT !.custom = n, !.direct = 0]
               b == Max({runs.best.custom, len})
    <2>1. profile' = IF q.custom >= DetectFrames THEN [q EXCEPT !.kind = "custom", !.locked = TRUE] ELSE q
        BY <1>5 DEF attemptProfileDetection
    <2>2. runs' = [best |-> [runs.best EXCEPT !.custom = b], kind |-> "custom", len |-> len]
        BY <1>5
    <2>3. n \in Nat /\ n <= len /\ b \in Nat /\ b >= len
        BY <1>1, <1>2, <1>3, <1>4, <1>5
    <2> HIDE DEF n, b
    <2>4. q \in [kind : {"unknown", "custom", "direct"}, locked : BOOLEAN, custom : Nat, direct : Nat]
          /\ q.custom = n /\ q.direct = 0 /\ q.locked = FALSE
        BY <1>1, <2>3
    <2> HIDE DEF q
    <2>5. /\ runs' \in [best : [custom : Nat, direct : Nat], kind : {"custom", "direct"}, len : Nat]
          /\ runs'.best.custom = b /\ runs'.kind = "custom" /\ runs'.len = len
        BY <1>1, <1>3, <2>2, <2>3
    <2>6. CASE n >= DetectFrames
        <3>1. profile' = [q EXCEPT !.kind = "custom", !.locked = TRUE]
            BY <2>1, <2>4, <2>6
        <3>2. /\ profile' \in [kind : {"unknown", "custom", "direct"}, locked : BOOLEAN, custom : Nat, direct : Nat]
              /\ profile'.kind = "custom" /\ profile'.locked = TRUE
            BY <2>4, <3>1
        <3> QED BY <1>1, <1>3, <2>3, <2>5, <2>6, <3>2 DEF ProfileInv
    <2>7. CASE ~(n >= DetectFrames)
        <3>1. profile' = q
            BY <2>1, <2>4, <2>7
        <3> QED BY <2>3, <2>4, <2>5, <3>1 DEF ProfileInv
    <2> QED BY <2>6, <2>7
<1>6. CASE kind = "direct"
    <2> DEFINE n == Min({profile.direct + 1, DetectFrames})
               q == [profile EXCEPT !.direct = n, !.custom = 0]
               b == Max({runs.best.direct, len})
    <2>1. profile' = IF q.direct >= DetectFrames THEN [q EXCEPT !.kind = "direct", !.locked = TRUE] ELSE q
        BY <1>6 DEF attemptProfileDetection
    <2>2. runs' = [best |-> [runs.best EXCEPT !.direct = b], kind |-> "direct", len |-> len]
        BY <1>6
    <2>3. n \in Nat /\ n <= len /\ b \in Nat /\ b >= len
        BY <1>1, <1>2, <1>3, <1>4, <1>6
    <2> HIDE DEF n, b
    <2>4. q \in [kind : {"unknown", "custom", "direct"}, locked : BOOLEAN, custom : Nat, direct : Nat]
          /\ q.direct = n /\ q.custom = 0 /\ q.locked = FALSE
        BY <1>1, <2>3
    <2> HIDE DEF q
    <2>5. /\ runs' \in [best : [custom : Nat, direct : Nat], kind : {"custom", "direct"}, len : Nat]
          /\ runs'.best.direct = b /\ runs'.kind = "direct" /\ runs'.len = len
        BY <1>1, <1>3, <2>2, <2>3
    <2>6. CASE n >= DetectFrames
        <3>1. profile' = [q EXCEPT !.kind = "direct", !.locked = TRUE]
            BY <2>1, <2>4, <2>6
        <3>2. /\ profile' \in [kind : {"unknown", "custom", "direct"}, locked : BOOLEAN, custom : Nat, direct : Nat]
              /\ profile'.kind = "direct" /\ profile'.locked = TRUE
            BY <2>4, <3>1
        <3> QED BY <1>1, <1>3, <2>3, <2>5, <2>6, <3>2 DEF ProfileInv
    <2>7. CASE ~(n >= DetectFrames)
        <3>1. profile' = q
            BY <2>1, <2>4, <2>7
        <3> QED BY <2>3, <2>4, <2>5, <3>1 DEF ProfileInv
    <2> QED BY <2>6, <2>7
<1> QED BY <1>5, <1>6

(* The failsafe command is disarmed and keeps what is remembered. *)
LEMMA FailsafeCommand ==
    ASSUME NEW c \in Commands
    PROVE  /\ enterFailsafe(c) \in Commands /\ enterFailsafe(c).arm = FALSE
           /\ enterFailsafe(c).seen = c.seen /\ enterFailsafe(c).mode = c.mode /\ enterFailsafe(c).startSeq = c.startSeq
BY DEF enterFailsafe, Commands

(* A frame, decoded or not yet. *)
LEMMA FrameKeeps == ASSUME BridgeInv, Frame PROVE BridgeInv' /\ BridgeActs
<1>1. PICK lvl \in SUBSET hand, mode \in (IF "SwF" \in hand THEN 0..2 ELSE {1}), kind \in {"custom", "direct"} :
        LET p == IF profile.locked THEN profile ELSE attemptProfileDetection(profile, kind)
            len == IF kind = runs.kind THEN Min({runs.len + 1, DetectFrames}) ELSE 1
        IN  /\ frames < MaxPerPass
            /\ profile.locked => kind = profile.kind
            /\ lvl \cap {"SwF"} = {}
            /\ frames' = frames + 1
            /\ profile' = p
            /\ runs' = IF profile.locked THEN runs ELSE [best |-> [runs.best EXCEPT ![kind] = Max({@, len})], kind |-> kind, len |-> len]
            /\ IF p.locked THEN Decoded(lvl, mode)
               ELSE /\ cmd' = enterFailsafe(cmd) /\ release' = [release EXCEPT !.pending = FALSE]
                    /\ UNCHANGED <<edge, trickEdge, chord, modeSw, frac, quiet, armHigh, sinceFired, chordAge, starts,
                                   navEffects, settled>>
            /\ UNCHANGED <<hand, tuneBy, mailbox, stored, seeded>>
    BY Zenon DEF Frame
<1>2. mode \in Positions
    BY DEF Positions
<1>3. BridgeTypeOK /\ ArmInv /\ ChordInv /\ TrickInv /\ ModeInv /\ NavInv /\ ProfileInv
    BY DEF BridgeInv
<1>4. /\ profile' \in [kind : {"unknown", "custom", "direct"}, locked : BOOLEAN, custom : Nat, direct : Nat]
      /\ runs' \in [best : [custom : Nat, direct : Nat], kind : {"custom", "direct"}, len : Nat]
      /\ ProfileInv'
    <2>1. CASE profile.locked
        <3>1. profile' = profile /\ runs' = runs
            BY <1>1, <2>1
        <3> QED BY <1>3, <3>1 DEF BridgeTypeOK, ProfileInv
    <2>2. CASE ~profile.locked
        <3> DEFINE len == IF kind = runs.kind THEN Min({runs.len + 1, DetectFrames}) ELSE 1
        <3>1. /\ profile' = attemptProfileDetection(profile, kind)
              /\ runs' = [best |-> [runs.best EXCEPT ![kind] = Max({@, len})], kind |-> kind, len |-> len]
            BY <1>1, <2>2
        <3> QED BY <2>2, <3>1, DetectionKeeps
    <2> QED BY <2>1, <2>2
<1>5. frames' = frames + 1 /\ mailbox' = mailbox /\ mailbox \in BOOLEAN /\ frames' \in Nat
    BY <1>1, <1>3 DEF BridgeTypeOK
<1>6. CASE Decoded(lvl, mode)
    <2>1. /\ cmd' \in Commands /\ edge' \in [Slots -> Edges] /\ trickEdge' \in [1..3 -> Edges]
           /\ release' \in [pending : BOOLEAN, age : Nat] /\ chord' \in [active : BOOLEAN, fired : BOOLEAN, age : Nat]
           /\ modeSw' \in [known : BOOLEAN, stable : Positions, candidate : Positions, age : Nat]
           /\ quiet' \in Nat /\ armHigh' \in Nat /\ chordAge' \in Int /\ starts' \in Nat /\ navEffects' \in Nat
           /\ sinceFired' \in [1..3 -> [age : Nat, up : BOOLEAN]]
           /\ settled' \in [pos : Positions, age : Nat]
           /\ ArmInv' /\ ChordInv' /\ TrickInv' /\ ModeInv' /\ NavInv' /\ BridgeActs
        BY <1>2, <1>5, <1>6, DecodedKeeps, Zenon
    <2> QED BY <1>4, <1>5, <2>1 DEF BridgeInv, BridgeTypeOK
<1>7. CASE ~Decoded(lvl, mode)
    <2>1. /\ cmd' = enterFailsafe(cmd) /\ release' = [release EXCEPT !.pending = FALSE]
          /\ UNCHANGED <<edge, trickEdge, chord, modeSw, quiet, armHigh, sinceFired, chordAge, starts, navEffects, settled>>
        BY <1>1, <1>7
    <2>2. /\ cmd' \in Commands /\ cmd'.arm = FALSE
          /\ cmd'.seen = cmd.seen /\ cmd'.mode = cmd.mode /\ cmd'.startSeq = cmd.startSeq
        BY <1>3, <2>1, FailsafeCommand DEF BridgeTypeOK
    <2>3. release' \in [pending : BOOLEAN, age : Nat]
        BY <1>3, <2>1 DEF BridgeTypeOK
    <2>4. BridgeTypeOK'
        BY <1>3, <1>4, <1>5, <2>1, <2>2, <2>3 DEF BridgeTypeOK
    <2>5. ArmInv' /\ ChordInv' /\ TrickInv' /\ ModeInv' /\ NavInv'
        BY <1>3, <1>5, <2>1, <2>2 DEF ArmInv, ChordInv, TrickInv, ModeInv, NavInv
    <2>6. BridgeActs
        BY <2>1, <2>2 DEF BridgeActs
    <2> QED BY <1>4, <2>4, <2>5, <2>6 DEF BridgeInv
<1> QED BY <1>6, <1>7

(* An age grows up to its cap. *)
LEMMA AgeFacts ==
    ASSUME NEW age \in Nat, NEW dt \in Nat, NEW cap \in Nat
    PROVE  /\ Older(age, dt, cap) \in Nat
           /\ Older(age, dt, cap) = IF age + dt > cap THEN cap ELSE age + dt
BY DEF Older

(* The end of a pass, and the time until the next one. *)
LEMMA PassKeeps == ASSUME BridgeInv, Pass PROVE BridgeInv' /\ BridgeActs
<1>1. PICK dt \in 1..MaxPeriod :
        LET c == IF Silent THEN enterFailsafe(cmd) ELSE cmd
        IN  /\ cmd' = c
            /\ release' = [pending |-> release.pending /\ ~Silent,
                           age |-> IF release.pending THEN Older(release.age, dt, ArmRelease) ELSE 0]
            /\ mailbox' = c.arm
            /\ frames' = 0
            /\ quiet' = Older(quiet, dt, Failsafe + 1)
            /\ edge' = [s \in DOMAIN edge |-> [edge[s] EXCEPT !.age = Older(@, dt, Refractory)]]
            /\ trickEdge' = [i \in 1..3 |-> [trickEdge[i] EXCEPT !.age = Older(@, dt, Repeat)]]
            /\ chord' = [chord EXCEPT !.age = IF chord.active THEN Older(@, dt, CaptureHold) ELSE 0]
            /\ modeSw' = [modeSw EXCEPT !.age = Older(@, dt, ModeDebounce)]
            /\ armHigh' = Older(armHigh, dt, ArmBound + 1)
            /\ sinceFired' = [i \in 1..3 |-> [sinceFired[i] EXCEPT !.age = Older(@, dt, Repeat)]]
            /\ chordAge' = Older(chordAge, dt, CaptureHold)
            /\ settled' = [settled EXCEPT !.age = Older(@, dt, ModeDebounce)]
            /\ UNCHANGED <<profile, starts, navEffects, runs>>
    BY Zenon DEF Pass
<1>2. BridgeTypeOK /\ ArmInv /\ ChordInv /\ TrickInv /\ ModeInv /\ NavInv /\ ProfileInv
    BY DEF BridgeInv
<1>3. /\ dt \in Nat /\ dt <= MaxPeriod /\ MaxPeriod \in Nat \ {0} /\ Failsafe \in Nat \ {0} /\ ArmRelease \in Nat \ {0}
      /\ CaptureHold \in Nat \ {0} /\ ModeDebounce \in Nat \ {0} /\ Repeat \in Nat /\ Refractory \in Nat
      /\ ArmBound = ArmRelease + 2 * (Failsafe + MaxPeriod)
    BY BridgeAssumption DEF ArmBound
<1>4. Silent \in BOOLEAN /\ (Silent <=> ~cmd.seen \/ quiet > Failsafe)
    BY <1>2 DEF Silent, BridgeTypeOK, Commands
<1>5. /\ cmd' \in Commands /\ (cmd'.arm => cmd.arm /\ ~Silent) /\ (mailbox' => cmd'.arm) /\ mailbox' \in BOOLEAN
      /\ cmd'.seen = cmd.seen /\ cmd'.mode = cmd.mode /\ cmd'.startSeq = cmd.startSeq
    <2>1. cmd \in Commands /\ cmd.arm \in BOOLEAN
        BY <1>2 DEF BridgeTypeOK, Commands
    <2>2. CASE Silent
        BY <1>1, <2>1, <2>2, FailsafeCommand
    <2>3. CASE ~Silent
        BY <1>1, <2>1, <2>3
    <2> QED BY <1>4, <2>2, <2>3
<1>6. /\ release' \in [pending : BOOLEAN, age : Nat] /\ quiet' \in Nat /\ armHigh' \in Nat /\ ArmInv'
    <2>1. /\ release.pending \in BOOLEAN /\ release.age \in Nat /\ quiet \in Nat /\ armHigh \in Nat /\ cmd.arm \in BOOLEAN
        BY <1>2 DEF BridgeTypeOK, Commands
    <2>2. /\ quiet' = (IF quiet + dt > Failsafe + 1 THEN Failsafe + 1 ELSE quiet + dt)
          /\ armHigh' = (IF armHigh + dt > ArmBound + 1 THEN ArmBound + 1 ELSE armHigh + dt)
        BY <1>1, <1>3, <2>1, AgeFacts
    <2>3. Older(release.age, dt, ArmRelease) = (IF release.age + dt > ArmRelease THEN ArmRelease ELSE release.age + dt)
        BY <1>3, <2>1, AgeFacts
    <2>4. /\ release'.pending <=> release.pending /\ ~Silent
          /\ release'.age = (IF release.pending THEN Older(release.age, dt, ArmRelease) ELSE 0)
          /\ release' \in [pending : BOOLEAN, age : Nat]
        <3> DEFINE held == release.pending /\ ~Silent
                   age == IF release.pending THEN Older(release.age, dt, ArmRelease) ELSE 0
        <3>1. held \in BOOLEAN /\ age \in Nat
            BY <1>3, <1>4, <2>1, <2>3
        <3>2. release' = [pending |-> held, age |-> age]
            BY <1>1
        <3> HIDE DEF held, age
        <3>3. release'.pending = held /\ release'.age = age /\ release' \in [pending : BOOLEAN, age : Nat]
            BY <3>1, <3>2
        <3> QED BY <3>3 DEF held, age
    <2>5. armHigh' \in Nat /\ quiet' \in Nat
        BY <1>3, <2>1, <2>2
    <2>6. ArmInv'
        <3>1. CASE ~cmd'.arm
            <4>1. ~mailbox'
                BY <1>5, <3>1
            <4> QED BY <3>1, <4>1 DEF ArmInv
        <3>2. CASE cmd'.arm
            <4>1. cmd.arm /\ ~Silent /\ quiet <= Failsafe
                BY <1>4, <1>5, <2>1, <1>3, <3>2
            <4>2. CASE ~release.pending
                <5>1. armHigh <= quiet
                    BY <1>2, <4>1, <4>2 DEF ArmInv, Grown
                <5>2. armHigh' <= Grown(quiet') /\ armHigh' <= ArmBound
                    BY <1>3, <2>1, <2>2, <4>1, <5>1 DEF Grown
                <5>3. ~release'.pending
                    BY <2>4, <4>2
                <5> QED BY <5>2, <5>3 DEF ArmInv
            <4>3. CASE release.pending
                <5>1. /\ release.age < ArmRelease => armHigh <= Failsafe + MaxPeriod + release.age
                      /\ armHigh <= Failsafe + MaxPeriod + ArmRelease + quiet
                    BY <1>2, <4>1, <4>3 DEF ArmInv, Grown
                <5>2. release'.age < ArmRelease => armHigh' <= Failsafe + MaxPeriod + release'.age
                    BY <1>3, <2>1, <2>2, <2>3, <2>4, <4>3, <5>1
                <5>3. armHigh' <= Failsafe + MaxPeriod + ArmRelease + Grown(quiet') /\ armHigh' <= ArmBound
                    BY <1>3, <2>1, <2>2, <4>1, <5>1 DEF Grown
                <5>4. release'.pending
                    BY <2>4, <4>1, <4>3
                <5> QED BY <5>2, <5>3, <5>4 DEF ArmInv
            <4> QED BY <2>1, <4>2, <4>3
        <3> QED BY <3>1, <3>2
    <2> QED BY <2>4, <2>5, <2>6
<1>7. chord' \in [active : BOOLEAN, fired : BOOLEAN, age : Nat] /\ chordAge' \in Int /\ ChordInv'
    <2>1. chord \in [active : BOOLEAN, fired : BOOLEAN, age : Nat] /\ chordAge \in Int /\ starts' = starts
        BY <1>1, <1>2 DEF BridgeTypeOK
    <2>2. chord' = [chord EXCEPT !.age = IF chord.active THEN Older(chord.age, dt, CaptureHold) ELSE 0]
        BY <1>1
    <2>3. /\ Older(chord.age, dt, CaptureHold) \in Nat /\ Older(-1, dt, CaptureHold) = -1
        BY <1>3, <2>1 DEF Older
    <2>4. /\ chord' \in [active : BOOLEAN, fired : BOOLEAN, age : Nat]
          /\ chord'.active = chord.active /\ chord'.fired = chord.fired
          /\ chord.active => chord'.age = Older(chord.age, dt, CaptureHold)
        BY <2>1, <2>2, <2>3
    <2> QED BY <1>1, <1>2, <2>1, <2>3, <2>4 DEF ChordInv
<1>8. /\ trickEdge' \in [1..3 -> Edges] /\ sinceFired' \in [1..3 -> [age : Nat, up : BOOLEAN]] /\ TrickInv'
    <2>1. ASSUME NEW i \in 1..3
          PROVE  /\ trickEdge'[i] \in Edges /\ sinceFired'[i] \in [age : Nat, up : BOOLEAN]
                 /\ trickEdge'[i].age = sinceFired'[i].age /\ (~sinceFired'[i].up => trickEdge'[i].prev)
        <3>1. /\ trickEdge[i] \in Edges /\ sinceFired[i] \in [age : Nat, up : BOOLEAN]
              /\ trickEdge[i].age = sinceFired[i].age /\ (~sinceFired[i].up => trickEdge[i].prev)
            BY <1>2 DEF BridgeTypeOK, TrickInv
        <3>2. Older(sinceFired[i].age, dt, Repeat) \in Nat
            BY <1>3, <3>1, AgeFacts
        <3>3. /\ trickEdge'[i] = [trickEdge[i] EXCEPT !.age = Older(trickEdge[i].age, dt, Repeat)]
              /\ sinceFired'[i] = [sinceFired[i] EXCEPT !.age = Older(sinceFired[i].age, dt, Repeat)]
            BY <1>1
        <3> QED BY <3>1, <3>2, <3>3 DEF Edges
    <2>2. trickEdge' \in [1..3 -> Edges] /\ sinceFired' \in [1..3 -> [age : Nat, up : BOOLEAN]]
        BY <1>1, <2>1
    <2> QED BY <2>1, <2>2 DEF TrickInv
<1>9. /\ modeSw' \in [known : BOOLEAN, stable : Positions, candidate : Positions, age : Nat]
      /\ settled' \in [pos : Positions, age : Nat] /\ ModeInv'
    <2>1. /\ modeSw \in [known : BOOLEAN, stable : Positions, candidate : Positions, age : Nat]
          /\ settled \in [pos : Positions, age : Nat]
        BY <1>2 DEF BridgeTypeOK
    <2>2. /\ Older(modeSw.age, dt, ModeDebounce) \in Nat /\ Older(settled.age, dt, ModeDebounce) \in Nat
          /\ modeSw.age <= settled.age => Older(modeSw.age, dt, ModeDebounce) <= Older(settled.age, dt, ModeDebounce)
        BY <1>3, <2>1 DEF Older
    <2>3. /\ modeSw' = [modeSw EXCEPT !.age = Older(modeSw.age, dt, ModeDebounce)]
          /\ settled' = [settled EXCEPT !.age = Older(settled.age, dt, ModeDebounce)]
        BY <1>1
    <2> QED BY <1>2, <1>5, <2>1, <2>2, <2>3 DEF ModeInv
<1>10. edge' \in [Slots -> Edges] /\ NavInv' /\ navEffects' \in Nat /\ starts' \in Nat
    <2>1. edge \in [Slots -> Edges] /\ DOMAIN edge = Slots
        BY <1>2 DEF BridgeTypeOK
    <2>2. ASSUME NEW s \in Slots PROVE edge'[s] \in Edges /\ edge'[s].prev = edge[s].prev
        <3>1. edge'[s] = [edge[s] EXCEPT !.age = Older(edge[s].age, dt, Refractory)] /\ edge[s] \in Edges
            BY <1>1, <2>1
        <3>2. edge[s].age \in Int
            BY <3>1 DEF Edges
        <3>3. Older(edge[s].age, dt, Refractory) \in Int
            BY <1>3, <3>2 DEF Older
        <3> QED BY <3>1, <3>3 DEF Edges
    <2>3. edge' \in [Slots -> Edges]
        BY <1>1, <2>1, <2>2
    <2> QED BY <1>1, <1>2, <2>2, <2>3, SlotFacts DEF NavInv, BridgeTypeOK
<1>11. /\ ProfileInv' /\ profile' = profile /\ runs' = runs
    BY <1>1, <1>2 DEF ProfileInv
<1>12. BridgeActs
    <2>1. frames \in Nat /\ frames' = 0
        BY <1>1, <1>2 DEF BridgeTypeOK
    <2> QED BY <1>5, <2>1 DEF BridgeActs
<1>13. BridgeTypeOK'
    BY <1>1, <1>2, <1>5, <1>6, <1>7, <1>8, <1>9, <1>10, <1>11 DEF BridgeTypeOK
<1> QED BY <1>6, <1>7, <1>8, <1>9, <1>10, <1>11, <1>12, <1>13 DEF BridgeInv

(* A step that leaves the bridge alone. *)
LEMMA StillKeeps ==
    ASSUME BridgeInv,
           UNCHANGED <<cmd, edge, trickEdge, profile, release, chord, modeSw, quiet, frames, mailbox, armHigh, sinceFired,
                       chordAge, starts, navEffects, settled, runs>>
    PROVE  BridgeInv' /\ BridgeActs
<1>1. BridgeTypeOK'
    BY DEF BridgeInv, BridgeTypeOK
<1>2. ArmInv' /\ ChordInv' /\ TrickInv' /\ ModeInv' /\ NavInv' /\ ProfileInv'
    BY DEF BridgeInv, ArmInv, ChordInv, TrickInv, ModeInv, NavInv, ProfileInv
<1>3. BridgeActs
    BY DEF BridgeActs
<1> QED BY <1>1, <1>2, <1>3 DEF BridgeInv

(* The bridge after power-on. *)
LEMMA BridgeStarts == ASSUME BridgeInit PROVE BridgeInv
<1>1. MaxTrim \in Nat /\ ArmBound \in Nat /\ Refractory \in Nat /\ Repeat \in Nat
    BY BridgeAssumption DEF ArmBound
<1>2. NoCommand \in Commands
    BY <1>1 DEF NoCommand, Commands, Positions
<1>3. BridgeTypeOK
    <2>1. edge \in [Slots -> Edges] /\ trickEdge \in [1..3 -> Edges] /\ sinceFired \in [1..3 -> [age : Nat, up : BOOLEAN]]
        BY <1>1 DEF BridgeInit, Edges
    <2>2. /\ profile \in [kind : {"unknown", "custom", "direct"}, locked : BOOLEAN, custom : Nat, direct : Nat]
          /\ release \in [pending : BOOLEAN, age : Nat]
          /\ chord \in [active : BOOLEAN, fired : BOOLEAN, age : Nat]
          /\ runs \in [best : [custom : Nat, direct : Nat], kind : {"custom", "direct"}, len : Nat]
        BY DEF BridgeInit
    <2>3. /\ modeSw \in [known : BOOLEAN, stable : Positions, candidate : Positions, age : Nat]
          /\ settled \in [pos : Positions, age : Nat]
        BY DEF BridgeInit, Positions
    <2>4. /\ cmd \in Commands /\ frames \in Nat /\ quiet \in Nat /\ mailbox \in BOOLEAN
          /\ armHigh \in Nat /\ chordAge \in Int /\ starts \in Nat /\ navEffects \in Nat
        <3>1. /\ cmd = NoCommand /\ frames = 0 /\ quiet = 0 /\ mailbox = FALSE /\ armHigh = ArmBound + 1 /\ chordAge = -1
              /\ starts = 0 /\ navEffects = 0
            BY DEF BridgeInit
        <3>2. cmd \in Commands
            BY <1>2, <3>1, Zenon
        <3>3. mailbox \in BOOLEAN
            BY <3>1
        <3>4. frames \in Nat /\ quiet \in Nat /\ armHigh \in Nat /\ chordAge \in Int /\ starts \in Nat /\ navEffects \in Nat
            BY <1>1, <3>1
        <3> QED BY <3>2, <3>3, <3>4
    <2> QED BY <2>1, <2>2, <2>3, <2>4 DEF BridgeTypeOK
<1>4. ArmInv /\ ChordInv /\ TrickInv /\ ModeInv /\ NavInv /\ ProfileInv
    BY DEF BridgeInit, NoCommand, ArmInv, ChordInv, TrickInv, ModeInv, NavInv, ProfileInv
<1> QED BY <1>3, <1>4 DEF BridgeInv

(***************************************************************************)
(* For every choice of the timings, of the controls in use and of the frames *)
(* a pass finds: arming, mode, tricks, capture start and the editor act on    *)
(* what the operator holds and has held long enough, once                    *)
(* (ControllerBridge::update and evaluateFailsafe).                          *)
(***************************************************************************)
THEOREM SwitchesHold == BridgeSpec => SwitchesAreDebounced
<1>1. BridgeInit => BridgeInv
    BY BridgeStarts
<1>2. BridgeInv /\ [BridgeNext]_rcVars => BridgeInv' /\ BridgeActs
    <2> SUFFICES ASSUME BridgeInv, [BridgeNext]_rcVars PROVE BridgeInv' /\ BridgeActs
        OBVIOUS
    <2>1. CASE Frame
        BY <2>1, FrameKeeps
    <2>2. CASE Pass
        BY <2>2, PassKeeps
    <2>3. CASE StoreGait
        <3>1. UNCHANGED <<cmd, edge, trickEdge, profile, release, chord, modeSw, quiet, frames, mailbox, armHigh, sinceFired,
                       chordAge, starts, navEffects, settled, runs>>
            BY <2>3 DEF StoreGait, rcHistory
        <3> QED BY <3>1, StillKeeps
    <2>4. CASE UNCHANGED rcVars
        <3>1. UNCHANGED <<cmd, edge, trickEdge, profile, release, chord, modeSw, quiet, frames, mailbox, armHigh, sinceFired,
                       chordAge, starts, navEffects, settled, runs>>
            BY <2>4 DEF rcVars, bridgeVars, rcHistory
        <3> QED BY <3>1, StillKeeps
    <2> QED BY <2>1, <2>2, <2>3, <2>4 DEF BridgeNext
<1>3. BridgeInv => ArmRequestIsRecent /\ OnePressOneEffect /\ ProfileIsEarned
    <2> SUFFICES ASSUME BridgeInv PROVE ArmRequestIsRecent /\ OnePressOneEffect /\ ProfileIsEarned
        OBVIOUS
    <2>1. ArmRequestIsRecent /\ OnePressOneEffect
        BY DEF BridgeInv, ArmInv, NavInv, ArmRequestIsRecent, OnePressOneEffect
    <2>2. ProfileIsEarned
        BY DEF BridgeInv, BridgeTypeOK, ProfileInv, ProfileIsEarned
    <2> QED BY <2>1, <2>2
<1>4. BridgeSpec => []BridgeInv /\ [][BridgeActs]_rcVars
    <2>1. BridgeInv /\ [BridgeNext]_rcVars => BridgeInv' /\ [BridgeActs]_rcVars
        BY <1>2
    <2> QED BY <1>1, <2>1, PTL DEF BridgeSpec
<1>5. BridgeSpec => [](ArmRequestIsRecent /\ OnePressOneEffect /\ ProfileIsEarned)
    BY <1>3, <1>4, PTL
<1>6. BridgeSpec => TricksAreSpaced
    <2>1. [BridgeActs]_rcVars =>
              [\A i \in 1..3 : (trickEdge'[i].age = 0 /\ sinceFired'[i].age = 0 /\ frames' = frames + 1
                            /\ sinceFired[i].age # 0) =>
                  sinceFired[i].age >= (IF sinceFired[i].up THEN Refractory ELSE Repeat)]_rcVars
        BY DEF BridgeActs
    <2> QED BY <1>4, <2>1, PTL DEF TricksAreSpaced
<1>7. BridgeSpec => CaptureStartIsHeld
    <2>1. [BridgeActs]_rcVars => [cmd'.startSeq # cmd.startSeq => chordAge >= CaptureHold /\ starts = 0]_rcVars
        BY DEF BridgeActs
    <2> QED BY <1>4, <2>1, PTL DEF CaptureStartIsHeld
<1>8. BridgeSpec => ModeIsSettled
    <2>1. [BridgeActs]_rcVars =>
              [cmd'.mode # cmd.mode /\ cmd.seen => settled.pos = cmd'.mode /\ settled.age >= ModeDebounce]_rcVars
        BY DEF BridgeActs
    <2> QED BY <1>4, <2>1, PTL DEF ModeIsSettled
<1> QED BY <1>5, <1>6, <1>7, <1>8 DEF SwitchesAreDebounced

-----------------------------------------------------------------------------
(***************************************************************************)
(* The radio link.  Why the parser recovers: a false sync byte can hold it  *)
(* for MaxFrameLen - 1 bytes at most, and the bytes it holds are the last   *)
(* ones on the wire, so after that many bytes without a sync byte it holds  *)
(* none and the next frame finds it idle (FollowsInv tracks that frame byte *)
(* by byte).                                                               *)
(***************************************************************************)
FrameBytes == RcPayload + 4

(* The j-th byte from the end of the window, and of the frame in progress. *)
WireAt(j) == window[Len(window) - j]
HeldAt(j) == parser.buf[Len(parser.buf) - j]

LinkTypeOK ==
    /\ parser \in [state : {"Sync", "Length", "Data"}, buf : Seq(Byte), len : Nat]
    /\ accepted \in BOOLEAN /\ stats \in BOOLEAN
    /\ window \in Seq(Byte) /\ Len(window) <= FrameBytes
    /\ before \in Nat /\ before <= Quiet

(* A frame in progress begins with the sync byte and is not complete. *)
ParserInv ==
    /\ parser.state = "Sync" => parser.buf = <<>>
    /\ parser.state = "Length" => Len(parser.buf) = 1
    /\ parser.state = "Data" =>
          /\ Len(parser.buf) >= 2 /\ Len(parser.buf) < 2 + parser.len
          /\ parser.len <= MaxFrameLen - 2 /\ parser.buf[2] = parser.len
    /\ parser.state # "Sync" => parser.buf[1] = SyncByte

(* It is made of the last bytes on the wire; when it is longer than the       *)
(* window, its sync byte is among those before.                               *)
HeldInv ==
    /\ Len(window) < FrameBytes => Len(parser.buf) <= Len(window)
    /\ \A j \in Nat : j < Len(parser.buf) /\ j < Len(window) => HeldAt(j) = WireAt(j)
    /\ Len(parser.buf) > FrameBytes => before < Len(parser.buf) - FrameBytes

(* As many bytes as a false frame can swallow came without a sync byte before *)
(* the last k ones, and these begin a channel frame.                          *)
SilentBefore(k) ==
    /\ before + Len(window) - k >= Quiet
    /\ \A j \in Nat : j >= k /\ j < Len(window) => WireAt(j) # SyncByte
BegunBy(k) == WireAt(k - 1) = SyncByte /\ (k >= 2 => WireAt(k - 2) = RcPayload + 2)

FollowsInv ==
    \A k \in 1 .. (FrameBytes - 1) : k <= Len(window) /\ SilentBefore(k) /\ BegunBy(k) =>
        /\ Len(parser.buf) = k
        /\ k = 1 => parser.state = "Length"
        /\ k >= 2 => parser.state = "Data" /\ parser.len = RcPayload + 2

(* Why the battery frame gets its turn: a type that was just sent is not due  *)
(* in the next pass, and the attitude not in the one after that.              *)
TurnInv ==
    /\ due \in [{"status", "attitude", "battery"} -> Nat] /\ boost \in BOOLEAN /\ passed \in 0..3
    /\ passed = 1 => due["status"] <= MaxGap \/ due["attitude"] <= MaxGap
    /\ passed = 2 => due["attitude"] <= MaxGap \/ (due["status"] <= MaxGap /\ due["attitude"] <= 2 * MaxGap)
    /\ passed = 3 => due["status"] <= MaxGap /\ due["attitude"] <= 2 * MaxGap

LinkInv == LinkTypeOK /\ ParserInv /\ HeldInv /\ FollowsInv /\ TurnInv /\ AcceptedIsWhole /\ GoodFrameAfterQuiet

(* What the constants are to the arithmetic below. *)
LEMMA LinkConstants ==
    /\ FrameBytes \in Nat /\ FrameBytes >= 4 /\ FrameBytes = RcPayload + 4 /\ RcPayload \in Nat
    /\ MaxFrameLen \in Nat /\ MaxFrameLen >= FrameBytes /\ Quiet = MaxFrameLen - 1 /\ Quiet \in Nat
    /\ \A b \in Byte : b \in Nat
    /\ SyncByte \in Byte
<1>1. \A b \in Byte : b \in Nat
    BY CrsfAssumption DEF Byte
<1> QED BY <1>1, CrsfAssumption DEF FrameBytes, Quiet

(* The window after a byte, from its end. *)
LEMMA WindowSlides ==
    ASSUME LinkTypeOK, NEW b \in Byte,
           window' = IF Len(window) < RcPayload + 4 THEN Append(window, b) ELSE Append(Tail(window), b)
    PROVE  /\ window' \in Seq(Byte)
           /\ Len(window') = IF Len(window) < FrameBytes THEN Len(window) + 1 ELSE FrameBytes
           /\ window'[Len(window')] = b
           /\ \A j \in Nat : j + 1 < Len(window') => window'[Len(window') - (j + 1)] = window[Len(window) - j]
<1>1. window \in Seq(Byte) /\ Len(window) <= FrameBytes /\ Len(window) \in Nat /\ FrameBytes = RcPayload + 4 /\ FrameBytes \in Nat
      /\ FrameBytes >= 4
    BY LinkConstants DEF LinkTypeOK
<1>2. CASE Len(window) < FrameBytes
    BY <1>1, <1>2
<1>3. CASE Len(window) = FrameBytes
    <2>1. window # <<>> /\ window' = Append(Tail(window), b)
        BY <1>1, <1>3
    <2>2. Tail(window) \in Seq(Byte) /\ Len(Tail(window)) = FrameBytes - 1
          /\ \A i \in 1 .. (FrameBytes - 1) : Tail(window)[i] = window[i + 1]
        BY <1>1, <1>3, <2>1
    <2> QED BY <1>1, <1>3, <2>1, <2>2
<1> QED BY <1>1, <1>2, <1>3

(* The frame in progress with one byte more. *)
LEMMA BufferGrows ==
    ASSUME NEW s \in Seq(Byte), NEW b \in Byte
    PROVE  /\ Append(s, b) \in Seq(Byte) /\ Len(Append(s, b)) = Len(s) + 1 /\ Len(s) \in Nat
           /\ Append(s, b)[Len(s) + 1] = b
           /\ \A i \in 1 .. Len(s) : Append(s, b)[i] = s[i]
OBVIOUS

(* Where a silence ends, no frame is in progress. *)
LEMMA SilenceEndsFrames ==
    ASSUME LinkInv, before + Len(window) >= Quiet,
           \A j \in Nat : j < Len(window) /\ j + 1 < MaxFrameLen => WireAt(j) # SyncByte
    PROVE  parser.state = "Sync"
<1> SUFFICES ASSUME parser.state # "Sync" PROVE FALSE
    BY DEF LinkInv, LinkTypeOK
<1>1. /\ Len(parser.buf) \in Nat /\ Len(window) \in Nat /\ before \in Nat /\ Len(window) <= FrameBytes
    BY DEF LinkInv, LinkTypeOK
<1>2. Len(parser.buf) >= 1 /\ Len(parser.buf) <= MaxFrameLen - 1 /\ parser.buf[1] = SyncByte
    <2>1. /\ parser.state \in {"Length", "Data"} /\ parser.len \in Nat /\ MaxFrameLen \in Nat /\ MaxFrameLen >= 4
        BY LinkConstants DEF LinkInv, LinkTypeOK
    <2>2. CASE parser.state = "Length"
        <3>1. Len(parser.buf) = 1 /\ parser.buf[1] = SyncByte
            BY <2>2 DEF LinkInv, ParserInv
        <3> QED BY <2>1, <3>1
    <2>3. CASE parser.state = "Data"
        BY <1>1, <2>1, <2>3 DEF LinkInv, ParserInv
    <2> QED BY <2>1, <2>2, <2>3
<1>3. CASE Len(parser.buf) <= Len(window)
    <2>1. Len(parser.buf) - 1 \in Nat /\ HeldAt(Len(parser.buf) - 1) = parser.buf[1]
        BY <1>1, <1>2 DEF HeldAt
    <2>2. WireAt(Len(parser.buf) - 1) = SyncByte
        BY <1>1, <1>2, <1>3, <2>1 DEF LinkInv, HeldInv
    <2>3. Len(parser.buf) - 1 < Len(window) /\ (Len(parser.buf) - 1) + 1 < MaxFrameLen
        BY <1>1, <1>2, <1>3, LinkConstants
    <2> QED BY <2>1, <2>2, <2>3
<1>4. CASE Len(parser.buf) > Len(window)
    BY <1>1, <1>2, <1>4, LinkConstants DEF LinkInv, HeldInv
<1> QED BY <1>1, <1>3, <1>4

(* The parser after a byte: idle, or holding the old bytes and this one. *)
LEMMA PushStep ==
    ASSUME LinkInv, NEW b \in Byte, Push(b)
    PROVE  /\ parser' \in [state : {"Sync", "Length", "Data"}, buf : Seq(Byte), len : Nat]
           /\ accepted' \in BOOLEAN /\ stats' \in BOOLEAN
           /\ ParserInv'
           /\ parser'.buf = Append(parser.buf, b) \/ parser'.buf = <<>>
           /\ accepted' => /\ parser.state = "Data" /\ Len(parser.buf) + 1 = 2 + parser.len
                           /\ Complete(Append(parser.buf, b), parser.len)
<1>1. /\ parser \in [state : {"Sync", "Length", "Data"}, buf : Seq(Byte), len : Nat]
      /\ parser.buf \in Seq(Byte) /\ parser.len \in Nat /\ parser.state \in {"Sync", "Length", "Data"}
      /\ ParserInv /\ Len(parser.buf) \in Nat
    BY DEF LinkInv, LinkTypeOK
<1>2. /\ Append(parser.buf, b) \in Seq(Byte) /\ Len(Append(parser.buf, b)) = Len(parser.buf) + 1
      /\ Append(parser.buf, b)[Len(parser.buf) + 1] = b
      /\ \A i \in 1 .. Len(parser.buf) : Append(parser.buf, b)[i] = parser.buf[i]
    BY <1>1, BufferGrows
<1>r. /\ Reset \in [state : {"Sync", "Length", "Data"}, buf : Seq(Byte), len : Nat] /\ Reset.state = "Sync" /\ Reset.buf = <<>>
    BY DEF Reset
<1>c. MaxFrameLen \in Nat /\ b \in Nat
    BY LinkConstants
<1>3. CASE parser.state = "Sync"
    <2>1. accepted' = FALSE /\ stats' = FALSE /\ parser' = IF b = SyncByte THEN [state |-> "Length", buf |-> <<b>>, len |-> 0] ELSE parser
        BY <1>3 DEF Push
    <2>a. parser.buf = <<>>
        BY <1>1, <1>3 DEF ParserInv
    <2>b. Append(<<>>, b) = <<b>>
        OBVIOUS
    <2>2. parser.buf = <<>> /\ Append(parser.buf, b) = <<b>>
        BY <2>a, <2>b
    <2>3. CASE b = SyncByte
        <3>1. parser' = [state |-> "Length", buf |-> Append(parser.buf, b), len |-> 0]
            BY <2>1, <2>2, <2>3
        <3>2. Append(parser.buf, b)[1] = b /\ Len(Append(parser.buf, b)) = 1
            BY <1>2, <2>2
        <3>3. ParserInv'
            BY <2>3, <3>1, <3>2 DEF ParserInv
        <3>4. parser' \in [state : {"Sync", "Length", "Data"}, buf : Seq(Byte), len : Nat] /\ parser'.buf = Append(parser.buf, b)
            BY <1>2, <3>1
        <3> QED BY <2>1, <3>3, <3>4
    <2>4. CASE b # SyncByte
        <3>1. parser' = parser
            BY <2>1, <2>4
        <3> QED BY <1>1, <2>1, <2>2, <3>1 DEF ParserInv
    <2> QED BY <2>3, <2>4
<1>4. CASE parser.state = "Length"
    <2>1. accepted' = FALSE /\ stats' = FALSE /\ PushLength(b)
        BY <1>4 DEF Push
    <2>2. CASE b < 2 \/ b > MaxFrameLen - 2
        <3>1. parser' = Reset
            BY <2>1, <2>2 DEF PushLength
        <3> QED BY <1>r, <2>1, <3>1 DEF ParserInv
    <2>3. CASE ~(b < 2 \/ b > MaxFrameLen - 2)
        <3>1. parser' = [state |-> "Data", buf |-> Append(parser.buf, b), len |-> b]
            BY <2>1, <2>3 DEF PushLength
        <3>2. Len(parser.buf) = 1 /\ parser.buf[1] = SyncByte
            BY <1>1, <1>4 DEF ParserInv
        <3>3. Append(parser.buf, b)[1] = SyncByte /\ Append(parser.buf, b)[2] = b /\ Len(Append(parser.buf, b)) = 2
            BY <1>1, <1>2, <3>2
        <3>4. ParserInv'
            BY <1>c, <2>3, <3>1, <3>3 DEF ParserInv
        <3> QED BY <1>2, <1>c, <2>1, <3>1, <3>4
    <2> QED BY <2>2, <2>3
<1>5. CASE parser.state = "Data" /\ Len(parser.buf) + 1 < 2 + parser.len
    <2>1. accepted' = FALSE /\ stats' = FALSE /\ parser' = [parser EXCEPT !.buf = Append(parser.buf, b)]
        BY <1>1, <1>5 DEF Push
    <2>2. /\ parser'.state = "Data" /\ parser'.len = parser.len /\ parser'.buf = Append(parser.buf, b)
          /\ parser' \in [state : {"Sync", "Length", "Data"}, buf : Seq(Byte), len : Nat]
        BY <1>1, <1>2, <1>5, <2>1
    <2>3. Len(parser.buf) >= 2 /\ parser.buf[1] = SyncByte /\ parser.buf[2] = parser.len /\ parser.len <= MaxFrameLen - 2
        BY <1>1, <1>5 DEF ParserInv
    <2>4. Append(parser.buf, b)[1] = SyncByte /\ Append(parser.buf, b)[2] = parser.len
        BY <1>1, <1>2, <2>3
    <2>5. ParserInv'
        BY <1>1, <1>2, <1>5, <2>2, <2>3, <2>4 DEF ParserInv
    <2> QED BY <2>1, <2>2, <2>5
<1>6. CASE parser.state = "Data" /\ Len(parser.buf) + 1 = 2 + parser.len
    <2>1. Complete(Append(parser.buf, b), parser.len) /\ parser' = Reset
        BY <1>1, <1>6 DEF Push
    <2>2. accepted' \in BOOLEAN /\ stats' \in BOOLEAN
        BY <2>1 DEF Complete
    <2> QED BY <1>r, <1>6, <2>1, <2>2 DEF ParserInv
<1>7. parser.state = "Data" => Len(parser.buf) + 1 < 2 + parser.len \/ Len(parser.buf) + 1 = 2 + parser.len
    BY <1>1 DEF ParserInv
<1> QED BY <1>1, <1>3, <1>4, <1>5, <1>6, <1>7

(* What the parser holds stays the end of the wire. *)
LEMMA HeldStep ==
    ASSUME LinkInv, NEW b \in Byte, Push(b),
           window' = IF Len(window) < RcPayload + 4 THEN Append(window, b) ELSE Append(Tail(window), b),
           before' = IF Len(window) < RcPayload + 4 THEN before
                     ELSE IF Head(window) = SyncByte THEN 0
                     ELSE IF before < Quiet THEN before + 1 ELSE Quiet
    PROVE  /\ before' \in Nat /\ before' <= Quiet /\ HeldInv'
           /\ \A j \in Nat : j < Len(parser.buf) + 1 /\ j < Len(window') =>
                 Append(parser.buf, b)[(Len(parser.buf) + 1) - j] = window'[Len(window') - j]
<1>1. /\ parser.buf \in Seq(Byte) /\ Len(parser.buf) \in Nat /\ Len(window) \in Nat /\ Len(window) <= FrameBytes
      /\ before \in Nat /\ before <= Quiet /\ window \in Seq(Byte)
      /\ HeldInv
    BY DEF LinkInv, LinkTypeOK
<1>2. /\ Append(parser.buf, b) \in Seq(Byte) /\ Len(Append(parser.buf, b)) = Len(parser.buf) + 1
      /\ Append(parser.buf, b)[Len(parser.buf) + 1] = b
      /\ \A i \in 1 .. Len(parser.buf) : Append(parser.buf, b)[i] = parser.buf[i]
    BY <1>1, BufferGrows
<1>3. /\ Len(window') = IF Len(window) < FrameBytes THEN Len(window) + 1 ELSE FrameBytes
      /\ window'[Len(window')] = b
      /\ \A j \in Nat : j + 1 < Len(window') => window'[Len(window') - (j + 1)] = window[Len(window) - j]
    BY WindowSlides DEF LinkInv
<1>4. FrameBytes \in Nat /\ FrameBytes >= 4 /\ FrameBytes = RcPayload + 4 /\ Quiet \in Nat
    BY LinkConstants
<1>5. before' \in Nat /\ before' <= Quiet /\ before' <= before + 1
    BY <1>1, <1>4
<1>6. ASSUME NEW j \in Nat, j < Len(parser.buf) + 1, j < Len(window')
      PROVE  Append(parser.buf, b)[(Len(parser.buf) + 1) - j] = window'[Len(window') - j]
    <2>1. CASE j = 0
        BY <1>1, <1>2, <1>3, <1>4, <2>1
    <2>2. CASE j # 0
        <3>1. j - 1 \in Nat /\ j - 1 < Len(parser.buf) /\ j - 1 < Len(window) /\ (j - 1) + 1 < Len(window')
            BY <1>1, <1>3, <1>4, <1>6, <2>2
        <3>2. window'[Len(window') - ((j - 1) + 1)] = window[Len(window) - (j - 1)]
            BY <1>3, <3>1
        <3>3. parser.buf[Len(parser.buf) - (j - 1)] = window[Len(window) - (j - 1)]
            BY <1>1, <3>1 DEF HeldInv, HeldAt, WireAt
        <3>4. (Len(parser.buf) + 1) - j \in 1 .. Len(parser.buf)
            BY <1>1, <1>6, <2>2
        <3>5. (Len(parser.buf) + 1) - j = Len(parser.buf) - (j - 1) /\ (j - 1) + 1 = j
            BY <1>1
        <3> QED BY <1>2, <3>2, <3>3, <3>4, <3>5
    <2> QED BY <2>1, <2>2
<1>7. CASE parser'.buf = <<>>
    <2>1. Len(parser'.buf) = 0
        BY <1>7
    <2>2. Len(window') \in Nat
        BY <1>1, <1>3, <1>4
    <2>3. HeldInv'
        BY <1>4, <2>1, <2>2 DEF HeldInv
    <2> QED BY <1>5, <1>6, <2>3
<1>8. CASE parser'.buf = Append(parser.buf, b)
    <2>1. Len(window') < FrameBytes => Len(parser'.buf) <= Len(window')
        BY <1>1, <1>2, <1>3, <1>4, <1>8 DEF HeldInv
    <2>2. \A j \in Nat : j < Len(parser'.buf) /\ j < Len(window') =>
             parser'.buf[Len(parser'.buf) - j] = window'[Len(window') - j]
        BY <1>2, <1>6, <1>8
    <2>3. Len(parser'.buf) > FrameBytes => before' < Len(parser'.buf) - FrameBytes
        <3> SUFFICES ASSUME Len(parser.buf) >= FrameBytes PROVE before' < Len(parser.buf) + 1 - FrameBytes
            BY <1>1, <1>2, <1>4, <1>8
        <3>1. Len(window) = FrameBytes
            BY <1>1, <1>4 DEF HeldInv
        <3>2. CASE Len(parser.buf) > FrameBytes
            BY <1>1, <1>4, <1>5, <3>2 DEF HeldInv
        <3>3. CASE Len(parser.buf) = FrameBytes
            <4>a. FrameBytes - 1 \in Nat /\ FrameBytes - 1 < Len(parser.buf) /\ FrameBytes - 1 < Len(window)
                BY <1>4, <3>1, <3>3
            <4>1. parser.buf[Len(parser.buf) - (FrameBytes - 1)] = window[Len(window) - (FrameBytes - 1)]
                BY <1>1, <4>a DEF HeldInv, HeldAt, WireAt
            <4>b. Len(parser.buf) - (FrameBytes - 1) = 1 /\ Len(window) - (FrameBytes - 1) = 1
                BY <1>4, <3>1, <3>3
            <4>2. parser.buf[1] = window[1] /\ Head(window) = window[1]
                BY <1>1, <4>1, <4>b
            <4>3. parser.buf[1] = SyncByte
                <5>1. parser.state # "Sync"
                    BY <1>4, <3>3 DEF LinkInv, ParserInv
                <5> QED BY <5>1 DEF LinkInv, ParserInv
            <4>4. before' = 0
                BY <1>4, <3>1, <4>2, <4>3
            <4> QED BY <1>4, <3>3, <4>4
        <3> QED BY <1>1, <1>4, <3>2, <3>3
    <2>4. HeldInv'
        BY <2>1, <2>2, <2>3 DEF HeldInv, HeldAt, WireAt
    <2> QED BY <1>5, <1>6, <2>4
<1>9. parser'.buf = Append(parser.buf, b) \/ parser'.buf = <<>>
    BY PushStep
<1> QED BY <1>7, <1>8, <1>9

(* One byte less of n behind the silence, and one more counted before it. *)
LEMMA SilenceCount ==
    ASSUME NEW p \in Nat, NEW q \in Nat, NEW n \in Nat, NEW k \in Nat, NEW m \in Nat,
           q + n - (k + 1) >= m, q <= p + 1
    PROVE  p + n - k >= m
OBVIOUS

(* A silence before the last k + 1 bytes was one before the last k of them. *)
LEMMA SilenceStep ==
    ASSUME LinkInv, NEW b \in Byte, NEW k \in Nat, k >= 1, k + 1 <= Len(window'), SilentBefore(k + 1)', BegunBy(k + 1)',
           window' = IF Len(window) < RcPayload + 4 THEN Append(window, b) ELSE Append(Tail(window), b),
           before' = IF Len(window) < RcPayload + 4 THEN before
                     ELSE IF Head(window) = SyncByte THEN 0
                     ELSE IF before < Quiet THEN before + 1 ELSE Quiet
    PROVE  k <= Len(window) /\ SilentBefore(k) /\ BegunBy(k) /\ (k = 1 => b = RcPayload + 2)
<1>1. /\ Len(window) \in Nat /\ Len(window) <= FrameBytes /\ before \in Nat /\ before <= Quiet /\ window \in Seq(Byte)
    BY DEF LinkInv, LinkTypeOK
<1>2. /\ Len(window') = IF Len(window) < FrameBytes THEN Len(window) + 1 ELSE FrameBytes
      /\ window'[Len(window')] = b
      /\ \A j \in Nat : j + 1 < Len(window') => window'[Len(window') - (j + 1)] = window[Len(window) - j]
    BY WindowSlides DEF LinkInv
<1>3. FrameBytes \in Nat /\ FrameBytes >= 4 /\ FrameBytes = RcPayload + 4 /\ Quiet \in Nat /\ Quiet >= FrameBytes - 1
    BY LinkConstants
<1>4. /\ before' + Len(window') - (k + 1) >= Quiet
      /\ \A j \in Nat : j >= k + 1 /\ j < Len(window') => window'[Len(window') - j] # SyncByte
    BY DEF SilentBefore, WireAt
<1>5. k <= Len(window)
    BY <1>1, <1>2, <1>3
<1>6. \A j \in Nat : j >= k /\ j + 1 < Len(window') => window[Len(window) - j] # SyncByte
    <2> SUFFICES ASSUME NEW j \in Nat, j >= k, j + 1 < Len(window') PROVE window[Len(window) - j] # SyncByte
        OBVIOUS
    <2>1. window'[Len(window') - (j + 1)] = window[Len(window) - j]
        BY <1>2
    <2>2. window'[Len(window') - (j + 1)] # SyncByte
        BY <1>4
    <2> QED BY <2>1, <2>2
<1>7. SilentBefore(k)
    <2>1. CASE Len(window) < FrameBytes
        <3>1. before' = before /\ Len(window') = Len(window) + 1
            BY <1>2, <1>3, <2>1
        <3> QED BY <1>1, <1>4, <1>6, <3>1 DEF SilentBefore, WireAt
    <2>2. CASE Len(window) = FrameBytes
        <3>1. Len(window') = FrameBytes /\ Head(window) = window[1]
            BY <1>1, <1>2, <1>3, <2>2
        <3>2. before' # 0
            BY <1>3, <1>4, <3>1
        <3>3. Head(window) # SyncByte /\ before' <= before + 1 /\ before' \in Nat
            BY <1>1, <1>3, <2>2, <3>2
        <3>4. before + Len(window) - k >= Quiet
            <4>1. before' + FrameBytes - (k + 1) >= Quiet
                BY <1>4, <3>1
            <4>2. before + FrameBytes - k >= Quiet
                BY <1>1, <1>3, <3>3, <4>1, SilenceCount
            <4> QED BY <2>2, <4>2
        <3>5. ASSUME NEW j \in Nat, j >= k, j < Len(window) PROVE WireAt(j) # SyncByte
            <4>1. CASE j + 1 < FrameBytes
                BY <1>6, <3>1, <3>5, <4>1 DEF WireAt
            <4>2. CASE j + 1 = FrameBytes
                <5>1. Len(window) - j = 1
                    BY <1>3, <2>2, <4>2
                <5> QED BY <3>1, <3>3, <5>1 DEF WireAt
            <4> QED BY <1>3, <2>2, <3>5, <4>1, <4>2
        <3> QED BY <3>4, <3>5 DEF SilentBefore
    <2> QED BY <1>1, <1>3, <2>1, <2>2
<1>8. BegunBy(k) /\ (k = 1 => b = RcPayload + 2)
    <2>1. window'[Len(window') - k] = SyncByte /\ window'[Len(window') - (k - 1)] = RcPayload + 2
        <3>1. window'[Len(window') - ((k + 1) - 1)] = SyncByte /\ window'[Len(window') - ((k + 1) - 2)] = RcPayload + 2
            BY DEF BegunBy, WireAt
        <3>2. (k + 1) - 1 = k /\ (k + 1) - 2 = k - 1
            OBVIOUS
        <3> QED BY <3>1, <3>2
    <2>2. window[Len(window) - (k - 1)] = SyncByte
        <3>1. k - 1 \in Nat /\ (k - 1) + 1 < Len(window') /\ (k - 1) + 1 = k
            BY <1>1, <1>2, <1>3
        <3> QED BY <1>2, <2>1, <3>1
    <2>3. k = 1 => b = RcPayload + 2
        BY <1>1, <1>2, <1>3, <2>1
    <2>4. ASSUME k >= 2 PROVE window[Len(window) - (k - 2)] = RcPayload + 2
        <3>1. k - 2 \in Nat /\ (k - 2) + 1 < Len(window') /\ (k - 2) + 1 = k - 1
            BY <1>1, <1>2, <1>3, <2>4
        <3> QED BY <1>2, <2>1, <3>1
    <2> QED BY <2>2, <2>3, <2>4 DEF BegunBy, WireAt
<1> QED BY <1>5, <1>7, <1>8

(* The parser follows a frame that begins after a silence. *)
LEMMA FollowsStep ==
    ASSUME LinkInv, NEW b \in Byte, Push(b),
           window' = IF Len(window) < RcPayload + 4 THEN Append(window, b) ELSE Append(Tail(window), b),
           before' = IF Len(window) < RcPayload + 4 THEN before
                     ELSE IF Head(window) = SyncByte THEN 0
                     ELSE IF before < Quiet THEN before + 1 ELSE Quiet
    PROVE  FollowsInv'
<1> SUFFICES ASSUME NEW k \in 1 .. (FrameBytes - 1), k <= Len(window'), SilentBefore(k)', BegunBy(k)'
             PROVE  /\ Len(parser'.buf) = k
                    /\ k = 1 => parser'.state = "Length"
                    /\ k >= 2 => parser'.state = "Data" /\ parser'.len = RcPayload + 2
    BY DEF FollowsInv
<1>1. /\ Len(window) \in Nat /\ Len(window) <= FrameBytes /\ before \in Nat /\ before <= Quiet /\ window \in Seq(Byte)
      /\ parser.buf \in Seq(Byte) /\ Len(parser.buf) \in Nat
      /\ parser \in [state : {"Sync", "Length", "Data"}, buf : Seq(Byte), len : Nat]
    BY DEF LinkInv, LinkTypeOK
<1>2. /\ Len(window') = IF Len(window) < FrameBytes THEN Len(window) + 1 ELSE FrameBytes
      /\ window'[Len(window')] = b
      /\ \A j \in Nat : j + 1 < Len(window') => window'[Len(window') - (j + 1)] = window[Len(window) - j]
    BY WindowSlides DEF LinkInv
<1>3. /\ FrameBytes \in Nat /\ FrameBytes >= 4 /\ FrameBytes = RcPayload + 4 /\ Quiet \in Nat /\ Quiet = MaxFrameLen - 1
      /\ MaxFrameLen \in Nat /\ MaxFrameLen >= FrameBytes /\ RcPayload \in Nat
    BY LinkConstants
<1>4. CASE k = 1
    <2>1. /\ before' + Len(window') - 1 >= Quiet
          /\ \A j \in Nat : j >= 1 /\ j < Len(window') => window'[Len(window') - j] # SyncByte
        BY <1>4 DEF SilentBefore, WireAt
    <2>2. b = SyncByte
        <3>1. window'[Len(window') - 0] = SyncByte
            BY <1>4 DEF BegunBy, WireAt
        <3> QED BY <1>1, <1>2, <1>3, <3>1
    <2>3. \A j \in Nat : j + 1 < Len(window') => window[Len(window) - j] # SyncByte
        <3> SUFFICES ASSUME NEW j \in Nat, j + 1 < Len(window') PROVE window[Len(window) - j] # SyncByte
            OBVIOUS
        <3>1. window'[Len(window') - (j + 1)] = window[Len(window) - j] /\ window'[Len(window') - (j + 1)] # SyncByte
            BY <1>2, <2>1
        <3> QED BY <3>1
    <2>4. /\ before + Len(window) >= Quiet
          /\ \A j \in Nat : j < Len(window) /\ j + 1 < MaxFrameLen => WireAt(j) # SyncByte
        <3>1. CASE Len(window) < FrameBytes
            <4>1. before' = before /\ Len(window') = Len(window) + 1
                BY <1>2, <1>3, <3>1
            <4> QED BY <1>1, <2>1, <2>3, <4>1 DEF WireAt
        <3>2. CASE Len(window) = FrameBytes
            <4>1. Len(window') = FrameBytes /\ Head(window) = window[1] /\ before' <= before + 1 /\ before' \in Nat
                BY <1>1, <1>2, <1>3, <3>2
            <4>2. before + Len(window) >= Quiet /\ (MaxFrameLen > FrameBytes => before' # 0)
                <5>1. before' + FrameBytes - 1 >= Quiet
                    BY <2>1, <4>1
                <5>2. before' + FrameBytes - (0 + 1) >= Quiet
                    BY <5>1
                <5>3. before + FrameBytes - 0 >= Quiet
                    BY <1>1, <1>3, <4>1, <5>2, SilenceCount
                <5>4. before + FrameBytes >= Quiet
                    BY <1>1, <1>3, <5>3
                <5>5. MaxFrameLen > FrameBytes => before' # 0
                    <6> SUFFICES ASSUME MaxFrameLen > FrameBytes, before' = 0 PROVE FALSE
                        OBVIOUS
                    <6>1. 0 + FrameBytes - 1 >= MaxFrameLen - 1
                        BY <1>3, <5>1
                    <6> QED BY <1>3, <6>1
                <5> QED BY <3>2, <5>4, <5>5
            <4>3. ASSUME NEW j \in Nat, j < Len(window), j + 1 < MaxFrameLen PROVE WireAt(j) # SyncByte
                <5>1. CASE j + 1 < FrameBytes
                    BY <2>3, <4>1, <5>1 DEF WireAt
                <5>2. CASE j + 1 = FrameBytes
                    <6>1. Len(window) - j = 1 /\ before' # 0
                        BY <1>3, <3>2, <4>2, <4>3, <5>2
                    <6>2. Head(window) # SyncByte
                        BY <1>3, <3>2, <6>1
                    <6> QED BY <4>1, <6>1, <6>2 DEF WireAt
                <5> QED BY <1>3, <3>2, <4>3, <5>1, <5>2
            <4> QED BY <4>2, <4>3
        <3> QED BY <1>1, <1>3, <3>1, <3>2
    <2>5. parser.state = "Sync"
        BY <2>4, SilenceEndsFrames
    <2>6. parser' = [state |-> "Length", buf |-> <<b>>, len |-> 0]
        BY <2>2, <2>5 DEF Push
    <2> QED BY <1>4, <2>6
<1>5. CASE k >= 2
    <2> DEFINE i == k - 1
    <2>1. i \in 1 .. (FrameBytes - 1) /\ i \in Nat /\ i >= 1 /\ i + 1 = k
        BY <1>3, <1>5
    <2> HIDE DEF i
    <2>2. SilentBefore(i + 1)' /\ BegunBy(i + 1)' /\ i + 1 <= Len(window')
        BY <2>1
    <2>3. i <= Len(window) /\ SilentBefore(i) /\ BegunBy(i) /\ (i = 1 => b = RcPayload + 2)
        BY <2>1, <2>2, SilenceStep
    <2>4. /\ Len(parser.buf) = i /\ (i = 1 => parser.state = "Length")
          /\ i >= 2 => parser.state = "Data" /\ parser.len = RcPayload + 2
        BY <2>1, <2>3 DEF LinkInv, FollowsInv
    <2>5. Len(Append(parser.buf, b)) = i + 1
        BY <1>1, <2>4, BufferGrows
    <2>6. CASE i = 1
        <3>1. parser.state = "Length" /\ b = RcPayload + 2 /\ ~(b < 2 \/ b > MaxFrameLen - 2)
            BY <1>3, <2>3, <2>4, <2>6
        <3>2. parser' = [state |-> "Data", buf |-> Append(parser.buf, b), len |-> b]
            BY <3>1 DEF Push, PushLength
        <3> QED BY <1>5, <2>1, <2>5, <3>1, <3>2
    <2>7. CASE i >= 2
        <3>1. parser.state = "Data" /\ parser.len = RcPayload + 2 /\ Len(parser.buf) + 1 < 2 + parser.len
            BY <1>3, <2>1, <2>4, <2>7
        <3>2. parser' = [parser EXCEPT !.buf = Append(parser.buf, b)]
            BY <1>1, <3>1 DEF Push
        <3>3. parser'.buf = Append(parser.buf, b) /\ parser'.state = "Data" /\ parser'.len = RcPayload + 2
            BY <1>1, <3>1, <3>2
        <3> QED BY <1>5, <2>1, <2>5, <3>3
    <2> QED BY <2>1, <2>6, <2>7
<1> QED BY <1>3, <1>4, <1>5

(* When the last byte completes what the parser holds to a frame's length,   *)
(* the window is what it held and that byte.                                  *)
LEMMA WholeFrame ==
    ASSUME LinkInv, NEW b \in Byte, Push(b), Len(parser.buf) = FrameBytes - 1,
           window' = IF Len(window) < RcPayload + 4 THEN Append(window, b) ELSE Append(Tail(window), b),
           before' = IF Len(window) < RcPayload + 4 THEN before
                     ELSE IF Head(window) = SyncByte THEN 0
                     ELSE IF before < Quiet THEN before + 1 ELSE Quiet
    PROVE  Append(parser.buf, b) = window' /\ Len(window') = FrameBytes
<1>1. /\ Len(window) \in Nat /\ Len(window) <= FrameBytes /\ parser.buf \in Seq(Byte) /\ HeldInv
    BY DEF LinkInv, LinkTypeOK
<1>2. /\ window' \in Seq(Byte)
      /\ Len(window') = IF Len(window) < FrameBytes THEN Len(window) + 1 ELSE FrameBytes
    BY WindowSlides DEF LinkInv
<1>3. FrameBytes \in Nat /\ FrameBytes >= 4
    BY LinkConstants
<1>4. Len(window') = FrameBytes
    BY <1>1, <1>2, <1>3 DEF HeldInv
<1>5. \A j \in Nat : j < Len(parser.buf) + 1 /\ j < Len(window') =>
         Append(parser.buf, b)[(Len(parser.buf) + 1) - j] = window'[Len(window') - j]
    BY HeldStep
<1>6. Append(parser.buf, b) \in Seq(Byte) /\ Len(Append(parser.buf, b)) = FrameBytes
    <2>1. Append(parser.buf, b) \in Seq(Byte) /\ Len(Append(parser.buf, b)) = Len(parser.buf) + 1
        BY <1>1, BufferGrows
    <2>2. Len(parser.buf) + 1 = FrameBytes
        BY <1>3
    <2> QED BY <2>1, <2>2
<1>7. ASSUME NEW i \in 1 .. FrameBytes PROVE Append(parser.buf, b)[i] = window'[i]
    <2>1. FrameBytes - i \in Nat /\ FrameBytes - i < FrameBytes /\ FrameBytes - (FrameBytes - i) = i
          /\ Len(parser.buf) + 1 = FrameBytes
        BY <1>3
    <2>2. Append(parser.buf, b)[(Len(parser.buf) + 1) - (FrameBytes - i)] = window'[Len(window') - (FrameBytes - i)]
        <3>1. FrameBytes - i \in Nat /\ FrameBytes - i < Len(parser.buf) + 1 /\ FrameBytes - i < Len(window')
            BY <1>4, <2>1
        <3> QED BY <1>5, <3>1
    <2>3. (Len(parser.buf) + 1) - (FrameBytes - i) = i /\ Len(window') - (FrameBytes - i) = i
        BY <1>3, <1>4, <2>1
    <2> QED BY <2>2, <2>3
<1>8. Append(parser.buf, b) = window'
    <2> DEFINE s == Append(parser.buf, b)
    <2>1. s = [i \in 1 .. FrameBytes |-> s[i]] /\ window' = [i \in 1 .. FrameBytes |-> window'[i]]
        BY <1>2, <1>4, <1>6
    <2> HIDE DEF s
    <2>2. \A i \in 1 .. FrameBytes : s[i] = window'[i]
        BY <1>7 DEF s
    <2>3. s = window'
        BY <2>1, <2>2
    <2> QED BY <2>3 DEF s
<1> QED BY <1>4, <1>8

(* A byte keeps the invariant. *)
LEMMA ReceiveKeeps == ASSUME LinkInv, Receive PROVE LinkInv'
<1>1. PICK b \in Byte :
        /\ Push(b)
        /\ window' = IF Len(window) < RcPayload + 4 THEN Append(window, b) ELSE Append(Tail(window), b)
        /\ before' = IF Len(window) < RcPayload + 4 THEN before
                     ELSE IF Head(window) = SyncByte THEN 0
                     ELSE IF before < Quiet THEN before + 1 ELSE Quiet
        /\ UNCHANGED <<due, boost, passed>>
    BY Zenon DEF Receive
<1>c. /\ FrameBytes \in Nat /\ FrameBytes >= 4 /\ FrameBytes = RcPayload + 4 /\ RcPayload \in Nat
    BY LinkConstants
<1>2. /\ parser' \in [state : {"Sync", "Length", "Data"}, buf : Seq(Byte), len : Nat]
      /\ accepted' \in BOOLEAN /\ stats' \in BOOLEAN /\ ParserInv'
      /\ accepted' => /\ parser.state = "Data" /\ Len(parser.buf) + 1 = 2 + parser.len
                      /\ Complete(Append(parser.buf, b), parser.len)
    BY <1>1, PushStep
<1>3. before' \in Nat /\ before' <= Quiet /\ HeldInv'
    BY <1>1, HeldStep
<1>4. FollowsInv'
    BY <1>1, FollowsStep
<1>5. window' \in Seq(Byte) /\ Len(window') <= FrameBytes
    <2>1. window' \in Seq(Byte) /\ Len(window') = IF Len(window) < FrameBytes THEN Len(window) + 1 ELSE FrameBytes
        BY <1>1, WindowSlides DEF LinkInv
    <2>2. Len(window) \in Nat
        BY DEF LinkInv, LinkTypeOK
    <2> QED BY <1>c, <2>1, <2>2
<1>6. LinkTypeOK'
    BY <1>2, <1>3, <1>5 DEF LinkTypeOK
<1>7. TurnInv'
    BY <1>1 DEF LinkInv, TurnInv
<1>8. AcceptedIsWhole'
    <2> SUFFICES ASSUME accepted' PROVE GoodRc(window)'
        BY DEF AcceptedIsWhole
    <2>1. /\ parser.state = "Data" /\ Len(parser.buf) + 1 = 2 + parser.len
          /\ Complete(Append(parser.buf, b), parser.len)
        BY <1>2
    <2> DEFINE f == Append(parser.buf, b)
    <2>2. /\ crc8(Covered(f, parser.len)) = f[parser.len + 2] /\ f[3] = TypeRc /\ parser.len = RcPayload + 2
        BY <2>1 DEF Complete
    <2>3. Len(parser.buf) \in Nat /\ Len(parser.buf) = FrameBytes - 1 /\ Len(parser.buf) >= 3
        BY <1>c, <2>1, <2>2 DEF LinkInv, LinkTypeOK
    <2>4. f = window' /\ Len(window') = FrameBytes
        BY <1>1, <2>3, WholeFrame
    <2>5. parser.buf \in Seq(Byte) /\ parser.buf[1] = SyncByte /\ parser.buf[2] = parser.len
        BY <2>1 DEF LinkInv, LinkTypeOK, ParserInv
    <2>6. f[1] = SyncByte /\ f[2] = RcPayload + 2
        BY <2>2, <2>3, <2>5, BufferGrows
    <2>7. parser.len + 2 = Len(window') /\ parser.len + 1 = Len(window') - 1
        BY <1>c, <2>2, <2>4
    <2>8. crc8(SubSeq(window', 3, Len(window') - 1)) = window'[Len(window')]
        <3> HIDE DEF f
        <3> QED BY <2>2, <2>4, <2>7 DEF Covered
    <2> HIDE DEF f
    <2> QED BY <1>c, <2>2, <2>4, <2>6, <2>8 DEF GoodRc
<1>9. GoodFrameAfterQuiet'
    <2> SUFFICES ASSUME GoodRc(window)', before' = Quiet PROVE accepted'
        BY DEF GoodFrameAfterQuiet
    <2>1. /\ Len(window') = FrameBytes /\ window'[1] = SyncByte /\ window'[2] = RcPayload + 2 /\ window'[3] = TypeRc
          /\ window'[Len(window')] = crc8(SubSeq(window', 3, Len(window') - 1))
        BY <1>c DEF GoodRc
    <2>2. PICK k \in Nat : k \in 1 .. (FrameBytes - 1) /\ k >= 2 /\ k + 1 = FrameBytes
        <3>1. FrameBytes - 1 \in Nat /\ FrameBytes - 1 \in 1 .. (FrameBytes - 1) /\ FrameBytes - 1 >= 2
              /\ FrameBytes - 1 + 1 = FrameBytes
            BY <1>c
        <3> QED BY <3>1
    <2>3. SilentBefore(k + 1)' /\ BegunBy(k + 1)'
        <3>1. /\ before' + Len(window') - (k + 1) >= Quiet
            BY <1>3, <2>1, <2>2, <1>c, LinkConstants
        <3>2. \A j \in Nat : j >= k + 1 /\ j < Len(window') => window'[Len(window') - j] # SyncByte
            BY <1>c, <2>1, <2>2
        <3>3. Len(window') - ((k + 1) - 1) = 1 /\ Len(window') - ((k + 1) - 2) = 2
            BY <1>c, <2>1, <2>2
        <3>4. window'[Len(window') - ((k + 1) - 1)] = SyncByte /\ window'[Len(window') - ((k + 1) - 2)] = RcPayload + 2
            BY <2>1, <3>3
        <3>5. SilentBefore(k + 1)'
            BY <3>1, <3>2 DEF SilentBefore, WireAt
        <3>6. BegunBy(k + 1)'
            BY <3>4 DEF BegunBy, WireAt
        <3> QED BY <3>5, <3>6
    <2>4. k <= Len(window) /\ SilentBefore(k) /\ BegunBy(k)
        <3>1. k + 1 <= Len(window')
            BY <1>c, <2>1, <2>2
        <3> QED BY <1>1, <2>2, <2>3, <3>1, SilenceStep
    <2>5. Len(parser.buf) = k /\ parser.state = "Data" /\ parser.len = RcPayload + 2
        BY <2>2, <2>4 DEF LinkInv, FollowsInv
    <2>6. Len(parser.buf) = FrameBytes - 1 /\ Len(parser.buf) + 1 = 2 + parser.len
        BY <1>c, <2>2, <2>5
    <2> DEFINE f == Append(parser.buf, b)
    <2>7. f = window'
        BY <1>1, <2>6, WholeFrame
    <2>8. Complete(f, parser.len)
        BY <1>1, <2>5, <2>6 DEF Push
    <2>9. parser.len + 2 = Len(window') /\ parser.len + 1 = Len(window') - 1
        BY <1>c, <2>1, <2>5
    <2> HIDE DEF f
    <2>10. accepted' = (crc8(Covered(f, parser.len)) = f[parser.len + 2] /\ f[3] = TypeRc /\ parser.len = RcPayload + 2)
        BY <2>8 DEF Complete
    <2>11. crc8(Covered(f, parser.len)) = f[parser.len + 2]
        BY <2>1, <2>7, <2>9 DEF Covered
    <2> QED BY <2>1, <2>5, <2>7, <2>10, <2>11
<1> QED BY <1>2, <1>3, <1>4, <1>6, <1>7, <1>8, <1>9 DEF LinkInv

(* A pass of the downlink keeps the invariant. *)
LEMMA DownlinkKeeps == ASSUME LinkInv, Downlink PROVE LinkInv'
<1>1. PICK imuFresh \in BOOLEAN, room \in BOOLEAN, gap \in 1..MaxGap, b \in BOOLEAN :
        LET type == ChooseFrame(imuFresh, TRUE)
            sent == type # "none" /\ room
            age(t) == IF sent /\ t = type THEN 0 ELSE due[t]
        IN  /\ due' = [t \in DOMAIN due |-> LET a == age(t) + gap IN IF a > BatteryPeriod THEN BatteryPeriod ELSE a]
            /\ boost' = b
            /\ passed' = IF ~Due("battery") \/ type = "battery" \/ ~room THEN 0
                         ELSE IF sent THEN passed + 1 ELSE passed
            /\ UNCHANGED <<parser, accepted, stats, window, before>>
    BY Zenon DEF Downlink
<1>2. LinkTypeOK' /\ ParserInv' /\ HeldInv' /\ FollowsInv' /\ AcceptedIsWhole' /\ GoodFrameAfterQuiet'
    BY <1>1 DEF LinkInv, LinkTypeOK, ParserInv, HeldInv, HeldAt, WireAt, FollowsInv, SilentBefore, BegunBy,
                AcceptedIsWhole, GoodFrameAfterQuiet
<1> DEFINE type == ChooseFrame(imuFresh, TRUE)
<1>3. /\ {StatusPeriod, BoostPeriod, AttitudePeriod, BatteryPeriod, MaxGap} \subseteq Nat
      /\ MaxGap < BoostPeriod /\ BoostPeriod <= StatusPeriod /\ 2 * BoostPeriod <= AttitudePeriod
      /\ gap \in Nat /\ gap <= MaxGap
    BY CrsfAssumption
<1>4. /\ due \in [{"status", "attitude", "battery"} -> Nat] /\ boost \in BOOLEAN /\ passed \in 0..3
      /\ due["status"] \in Nat /\ due["attitude"] \in Nat /\ due["battery"] \in Nat
    BY DEF LinkInv, TurnInv
<1>5. /\ Due("status") => due["status"] >= BoostPeriod
      /\ Due("attitude") <=> due["attitude"] >= AttitudePeriod
    BY <1>3, <1>4 DEF Due, PeriodOf
<1>6. /\ type \in {"status", "attitude", "battery", "none"}
      /\ type = "status" => Due("status")
      /\ type = "attitude" => Due("attitude")
      /\ Due("battery") => type # "none"
    BY DEF ChooseFrame
<1>7. /\ DOMAIN due = {"status", "attitude", "battery"}
      /\ \A t \in {"status", "attitude", "battery"} :
            LET a == (IF type # "none" /\ room /\ t = type THEN 0 ELSE due[t]) + gap
            IN  due'[t] = IF a > BatteryPeriod THEN BatteryPeriod ELSE a
      /\ due' = [t \in {"status", "attitude", "battery"} |-> due'[t]]
    BY <1>1, <1>4
<1>8. /\ boost' = b
      /\ passed' = IF ~Due("battery") \/ type = "battery" \/ ~room THEN 0
                   ELSE IF type # "none" /\ room THEN passed + 1 ELSE passed
    BY <1>1
<1> HIDE DEF type
<1>9. /\ due'["status"] \in Nat /\ due'["attitude"] \in Nat /\ due'["battery"] \in Nat
      /\ due'["status"] <= due["status"] + gap /\ due'["attitude"] <= due["attitude"] + gap
      /\ type = "status" /\ room => due'["status"] <= gap
      /\ type = "attitude" /\ room => due'["attitude"] <= gap
    BY <1>3, <1>4, <1>7
<1>10. due' \in [{"status", "attitude", "battery"} -> Nat]
    BY <1>7, <1>9
<1>11. CASE ~Due("battery") \/ type = "battery" \/ ~room
    <2>1. passed' = 0
        BY <1>8, <1>11
    <2>2. TurnInv'
        BY <1>8, <1>10, <2>1 DEF TurnInv
    <2> QED BY <1>2, <2>2 DEF LinkInv
<1>12. CASE ~(~Due("battery") \/ type = "battery" \/ ~room)
    <2>1. room /\ passed' = passed + 1 /\ (type = "status" \/ type = "attitude")
        BY <1>6, <1>8, <1>12
    <2>2. CASE type = "status"
        <3>1. due["status"] >= BoostPeriod /\ due'["status"] <= MaxGap
            BY <1>3, <1>5, <1>6, <1>9, <2>1, <2>2
        <3>2. ~(due["status"] <= MaxGap)
            BY <1>3, <1>4, <3>1
        <3>3. passed = 0 \/ passed = 1 \/ passed = 2
            BY <1>4, <3>2 DEF LinkInv, TurnInv
        <3>4. passed = 1 \/ passed = 2 => due'["attitude"] <= 2 * MaxGap
            BY <1>3, <1>4, <1>9, <3>2 DEF LinkInv, TurnInv
        <3>5. TurnInv'
            BY <1>8, <1>10, <2>1, <3>1, <3>3, <3>4 DEF TurnInv
        <3> QED BY <1>2, <3>5 DEF LinkInv
    <2>3. CASE type = "attitude"
        <3>1. due["attitude"] >= AttitudePeriod /\ due'["attitude"] <= MaxGap
            BY <1>3, <1>5, <1>6, <1>9, <2>1, <2>3
        <3>2. ~(due["attitude"] <= 2 * MaxGap) /\ ~(due["attitude"] <= MaxGap)
            BY <1>3, <1>4, <3>1
        <3>3. passed = 0 \/ passed = 1
            BY <1>4, <3>2 DEF LinkInv, TurnInv
        <3>4. TurnInv'
            BY <1>8, <1>10, <2>1, <3>1, <3>3 DEF TurnInv
        <3> QED BY <1>2, <3>4 DEF LinkInv
    <2> QED BY <2>1, <2>2, <2>3
<1> QED BY <1>11, <1>12

(* An idle parser and an empty wire satisfy the invariant. *)
LEMMA LinkStarts == ASSUME CrsfInit PROVE LinkInv
<1>1. Quiet \in Nat /\ FrameBytes \in Nat /\ FrameBytes >= 4 /\ FrameBytes = RcPayload + 4
    BY LinkConstants
<1>2. /\ parser = Reset /\ accepted = FALSE /\ stats = FALSE /\ window = <<>> /\ before = Quiet
      /\ due = [status |-> 0, attitude |-> 0, battery |-> 0] /\ boost = FALSE /\ passed = 0 /\ Len(window) = 0
    BY DEF CrsfInit
<1>3. LinkTypeOK
    <2>1. Reset \in [state : {"Sync", "Length", "Data"}, buf : Seq(Byte), len : Nat]
        BY DEF Reset
    <2>2. window \in Seq(Byte) /\ Len(window) <= FrameBytes
        BY <1>1, <1>2
    <2>3. before \in Nat /\ before <= Quiet
        BY <1>1, <1>2
    <2> QED BY <1>2, <2>1, <2>2, <2>3 DEF LinkTypeOK
<1>4. ParserInv /\ HeldInv
    BY <1>1, <1>2 DEF ParserInv, HeldInv, Reset
<1>5. FollowsInv
    BY <1>1, <1>2 DEF FollowsInv
<1>6. TurnInv
    <2>1. due \in [{"status", "attitude", "battery"} -> Nat]
        BY <1>2
    <2>2. passed = 0 /\ boost \in BOOLEAN
        BY <1>2, Zenon
    <2>3. passed \in 0 .. 3 /\ passed # 1 /\ passed # 2 /\ passed # 3
        BY <2>2
    <2> QED BY <2>1, <2>2, <2>3 DEF TurnInv
<1>7. AcceptedIsWhole /\ GoodFrameAfterQuiet
    BY <1>1, <1>2 DEF AcceptedIsWhole, GoodFrameAfterQuiet, GoodRc
<1> QED BY <1>3, <1>4, <1>5, <1>6, <1>7 DEF LinkInv

(***************************************************************************)
(* Whatever bytes arrive, CrsfParser::push accepts a channel frame only    *)
(* when its bytes are the last ones on the wire, and accepts every one that *)
(* follows a silence; and rcTask's one telemetry frame per pass reaches the *)
(* battery after at most three others, for every byte width, payload length *)
(* and period.                                                             *)
(***************************************************************************)
THEOREM LinkAlwaysRecovers == CrsfSpec => []LinkRecovers
<1>1. CrsfInit => LinkInv
    BY LinkStarts
<1>2. LinkInv /\ [Receive \/ Downlink]_crsfVars => LinkInv'
    <2> SUFFICES ASSUME LinkInv, [Receive \/ Downlink]_crsfVars PROVE LinkInv'
        OBVIOUS
    <2>1. CASE Receive
        BY <2>1, ReceiveKeeps
    <2>2. CASE Downlink
        BY <2>2, DownlinkKeeps
    <2>3. CASE UNCHANGED crsfVars
        BY <2>3 DEF crsfVars, LinkInv, LinkTypeOK, ParserInv, HeldInv, HeldAt, WireAt, FollowsInv, SilentBefore, BegunBy,
                    TurnInv, AcceptedIsWhole, GoodFrameAfterQuiet
    <2> QED BY <2>1, <2>2, <2>3
<1>3. LinkInv => LinkRecovers
    BY DEF LinkInv, TurnInv, LinkRecovers, BatteryIsNotStarved
<1> QED BY <1>1, <1>2, <1>3, PTL DEF CrsfSpec
=============================================================================
