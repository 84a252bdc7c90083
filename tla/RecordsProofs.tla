---------------------------- MODULE RecordsProofs ----------------------------
(***************************************************************************)
(* What the robot reports, records and senses: proofs about the error       *)
(* journal and event log (ErrorRecords), the watchdog and reset evidence    *)
(* (ResetEvidence), the card and the storage pass (CardStorage) and the     *)
(* foot sensors (SensorBus), for every value of the constants.              *)
(***************************************************************************)
EXTENDS MCRecords, WellFoundedInduction, TLAPS

-----------------------------------------------------------------------------
(***************************************************************************)
(* The error journal.  A slot is chosen by an order on three keys; that the *)
(* choice exists rests on the well-foundedness of the natural numbers.      *)
(***************************************************************************)
LEMMA LeastNatural == ASSUME NEW S \in SUBSET Nat, S # {} PROVE \E m \in S : \A n \in S : m <= n
<1> DEFINE R == OpToRel(<, Nat)
<1>1. IsWellFoundedOn(R, Nat)
    BY NatLessThanWellFounded
<1>2. \A a, b \in Nat : <<a, b>> \in R <=> a < b
    BY DEF OpToRel
<1> HIDE DEF R
<1>3. PICK x \in S : \A y \in S : ~ (<<y, x>> \in R)
    BY <1>1, WFMin, Zenon
<1>4. \A y \in S : ~(y < x)
    BY <1>2, <1>3, Zenon
<1>5. \A y \in S : x <= y
    BY <1>4
<1> QED BY <1>5

LEMMA LeastOf ==
    ASSUME NEW C \in SUBSET Nat, C # {}, NEW f, \A i \in C : f[i] \in Nat
    PROVE  \E i \in C : \A j \in C : f[i] <= f[j]
<1> DEFINE S == {f[i] : i \in C}
<1>1. S \in SUBSET Nat /\ S # {}
    OBVIOUS
<1>2. PICK m \in S : \A n \in S : m <= n
    BY <1>1, LeastNatural
<1> QED BY <1>2

LEMMA LexicographicLeast ==
    ASSUME NEW C \in SUBSET Nat, C # {}, NEW f, NEW g, \A i \in C : f[i] \in Nat /\ g[i] \in Nat
    PROVE  \E i \in C : \A j \in C : \/ f[i] < f[j]
                                     \/ f[i] = f[j] /\ g[i] < g[j]
                                     \/ f[i] = f[j] /\ g[i] = g[j] /\ i <= j
<1>1. PICK a \in C : \A j \in C : f[a] <= f[j]
    BY LeastOf
<1> DEFINE A == {i \in C : f[i] = f[a]}
<1>2. PICK b \in A : \A j \in A : g[b] <= g[j]
    <2>1. A \in SUBSET Nat /\ A # {} /\ \A i \in A : g[i] \in Nat
        OBVIOUS
    <2> HIDE DEF A
    <2> QED BY <2>1, LeastOf
<1> DEFINE B == {i \in A : g[i] = g[b]}
<1>3. PICK c \in B : \A j \in B : c <= j
    <2>1. B \in SUBSET Nat /\ B # {}
        BY <1>2
    <2> HIDE DEF B
    <2> QED BY <2>1, LeastNatural
<1>4. c \in C /\ f[c] = f[a] /\ g[c] = g[b] /\ f[b] = f[a]
    BY <1>2, <1>3
<1>5. ASSUME NEW j \in C
      PROVE  f[c] < f[j] \/ (f[c] = f[j] /\ g[c] < g[j]) \/ (f[c] = f[j] /\ g[c] = g[j] /\ c <= j)
    <2>1. f[c] <= f[j] /\ f[c] \in Nat /\ f[j] \in Nat
        BY <1>1, <1>4
    <2>2. CASE f[c] = f[j]
        <3>1. j \in A /\ g[c] <= g[j] /\ g[c] \in Nat /\ g[j] \in Nat
            BY <1>2, <1>4, <2>2
        <3>2. g[c] = g[j] => j \in B
            BY <1>4, <3>1
        <3> QED BY <1>3, <2>2, <3>1, <3>2
    <2> QED BY <2>1, <2>2
<1> QED BY <1>4, <1>5

-----------------------------------------------------------------------------
(***************************************************************************)
(* The journal.  A key has one entry, whose first time is the time of its   *)
(* last announcement.                                                       *)
(***************************************************************************)
EntryType == [key : Keys, first : Nat, last : Nat, pending : BOOLEAN]

JournalInv ==
    /\ now \in Nat /\ table \in Seq(EntryType) /\ told \in [Keys -> Nat]
    /\ \A i, j \in DOMAIN table : table[i].key = table[j].key => i = j
    /\ \A i \in DOMAIN table : /\ table[i].first <= table[i].last /\ table[i].last <= now
                               /\ told[table[i].key] = table[i].first + 1

LEMMA TableTypes ==
    ASSUME JournalInv
    PROVE  /\ Len(table) \in Nat /\ DOMAIN table = 1 .. Len(table)
           /\ \A i \in DOMAIN table : /\ table[i] \in EntryType /\ table[i].key \in Keys /\ SevOf[table[i].key] \in 0 .. 3
                                      /\ table[i].first \in Nat /\ table[i].last \in Nat /\ table[i].pending \in BOOLEAN
<1>1. table \in Seq(EntryType)
    BY DEF JournalInv
<1>2. Len(table) \in Nat /\ DOMAIN table = 1 .. Len(table) /\ \A i \in DOMAIN table : table[i] \in EntryType
    BY <1>1
<1>3. \A e \in EntryType : e.key \in Keys /\ e.first \in Nat /\ e.last \in Nat /\ e.pending \in BOOLEAN
    BY DEF EntryType
<1>4. \A k \in Keys : SevOf[k] \in 0 .. 3
    BY JournalBounds
<1> QED BY <1>2, <1>3, <1>4

LEMMA FindKey ==
    ASSUME JournalInv, NEW k \in Keys
    PROVE  \/ find(k) = 0 /\ \A i \in DOMAIN table : table[i].key # k
           \/ find(k) \in DOMAIN table /\ table[find(k)].key = k
BY TableTypes DEF find

LEMMA RecycledGivesWay ==
    ASSUME JournalInv, NEW sev
    PROVE  recycleSlot(sev) = 0 \/ recycleSlot(sev) \in Recyclable(sev)
<1> DEFINE C == Recyclable(sev)
           f == [i \in DOMAIN table |-> SevOf[table[i].key]]
           g == [i \in DOMAIN table |-> table[i].last]
<1>1. C \in SUBSET Nat /\ C \subseteq DOMAIN table
    BY TableTypes DEF Recyclable
<1>2. \A i \in C : f[i] \in Nat /\ g[i] \in Nat /\ f[i] = SevOf[table[i].key] /\ g[i] = table[i].last
    BY <1>1, TableTypes
<1> HIDE DEF C, f, g
<1>3. CASE C # {}
    <2>1. \E i \in C : \A j \in C : \/ f[i] < f[j]
                                    \/ f[i] = f[j] /\ g[i] < g[j]
                                    \/ f[i] = f[j] /\ g[i] = g[j] /\ i <= j
        BY <1>1, <1>2, <1>3, LexicographicLeast
    <2>2. \E i \in C : \A j \in C : \/ SevOf[table[i].key] < SevOf[table[j].key]
                                    \/ SevOf[table[i].key] = SevOf[table[j].key] /\ table[i].last < table[j].last
                                    \/ SevOf[table[i].key] = SevOf[table[j].key] /\ table[i].last = table[j].last /\ i <= j
        BY <1>2, <2>1
    <2>3. recycleSlot(sev) \in C
        BY <1>3, <2>2 DEF recycleSlot, C
    <2> QED BY <2>3 DEF C
<1>4. CASE C = {}
    BY <1>4 DEF recycleSlot, C
<1> QED BY <1>3, <1>4

LEMMA TakenIsFirst ==
    ASSUME JournalInv, NEW i \in DOMAIN table, table[i].pending
    PROVE  /\ takePending \in DOMAIN table /\ table[takePending].pending
           /\ SevOf[table[takePending].key] >= SevOf[table[i].key]
<1> DEFINE P == {j \in DOMAIN table : table[j].pending}
           f == [j \in DOMAIN table |-> 3 - SevOf[table[j].key]]
           g == [j \in DOMAIN table |-> table[j].first]
<1>1. P \in SUBSET Nat /\ P \subseteq DOMAIN table /\ i \in P
    BY TableTypes
<1>2. \A j \in P : /\ f[j] \in Nat /\ g[j] \in Nat /\ f[j] = 3 - SevOf[table[j].key] /\ g[j] = table[j].first
                   /\ SevOf[table[j].key] \in Int
    BY <1>1, TableTypes
<1>a. takePending = IF P = {} THEN 0
                    ELSE CHOOSE x \in P : \A j \in P :
                            \/ SevOf[table[x].key] > SevOf[table[j].key]
                            \/ SevOf[table[x].key] = SevOf[table[j].key] /\ table[x].first < table[j].first
                            \/ SevOf[table[x].key] = SevOf[table[j].key] /\ table[x].first = table[j].first /\ x <= j
    BY DEF takePending
<1>b. \A j \in P : table[j].pending
    OBVIOUS
<1> HIDE DEF P, f, g
<1>3. \E x \in P : \A j \in P : \/ f[x] < f[j]
                                \/ f[x] = f[j] /\ g[x] < g[j]
                                \/ f[x] = f[j] /\ g[x] = g[j] /\ x <= j
    BY <1>1, <1>2, LexicographicLeast
<1>4. \E x \in P : \A j \in P : \/ SevOf[table[x].key] > SevOf[table[j].key]
                                \/ SevOf[table[x].key] = SevOf[table[j].key] /\ table[x].first < table[j].first
                                \/ SevOf[table[x].key] = SevOf[table[j].key] /\ table[x].first = table[j].first /\ x <= j
    BY <1>2, <1>3
<1>5. /\ takePending \in P
      /\ \/ SevOf[table[takePending].key] > SevOf[table[i].key]
         \/ SevOf[table[takePending].key] = SevOf[table[i].key]
    BY <1>1, <1>4, <1>a
<1>6. takePending \in DOMAIN table /\ table[takePending].pending
    BY <1>1, <1>5, <1>b
<1>7. SevOf[table[takePending].key] \in Int /\ SevOf[table[i].key] \in Int
    BY <1>1, <1>2, <1>5
<1> QED BY <1>5, <1>6, <1>7

\* what note() does to the table
LEMMA NoteCases ==
    ASSUME JournalInv, NEW k \in Keys
    PROVE  \/ SlotFor(k) = 0 /\ note(k) = table
           \/ /\ SlotFor(k) = Len(table) + 1 /\ find(k) = 0 /\ Announces(k)
              /\ note(k) = Append(table, Entry(k, now, now, TRUE))
           \/ /\ SlotFor(k) \in Recyclable(SevOf[k]) /\ find(k) = 0 /\ Announces(k)
              /\ note(k) = [table EXCEPT ![SlotFor(k)] = Entry(k, now, now, TRUE)]
           \/ /\ SlotFor(k) = find(k) /\ find(k) \in DOMAIN table /\ table[find(k)].key = k
              /\ note(k) = [table EXCEPT ![find(k)] = IF Announces(k) THEN Entry(k, now, now, TRUE)
                              ELSE Entry(k, table[find(k)].first, now, table[find(k)].pending)]
<1> DEFINE s == SlotFor(k)
           e == IF Announces(k) THEN Entry(k, now, now, TRUE) ELSE Entry(k, table[s].first, now, table[s].pending)
<1>1. note(k) = IF s = 0 THEN table ELSE IF s > Len(table) THEN Append(table, e) ELSE [table EXCEPT ![s] = e]
    BY DEF note
<1>2. s = IF find(k) # 0 THEN find(k) ELSE IF Len(table) < Slots THEN Len(table) + 1 ELSE recycleSlot(SevOf[k])
    BY DEF SlotFor
<1>3. find(k) = 0 => Announces(k)
    BY DEF Announces
<1>a. Len(table) \in Nat /\ DOMAIN table = 1 .. Len(table)
    BY TableTypes
<1>b. e = IF Announces(k) THEN Entry(k, now, now, TRUE) ELSE Entry(k, table[s].first, now, table[s].pending)
    OBVIOUS
<1>c. s = SlotFor(k)
    OBVIOUS
<1> HIDE DEF s, e
<1>4. CASE find(k) # 0
    <2>1. find(k) \in DOMAIN table /\ table[find(k)].key = k /\ s = find(k)
        BY <1>2, <1>4, FindKey
    <2>2. s # 0 /\ ~(s > Len(table))
        BY <1>a, <2>1
    <2> QED BY <1>1, <1>b, <1>c, <2>1, <2>2
<1>5. CASE find(k) = 0 /\ Len(table) < Slots
    <2>1. s = Len(table) + 1 /\ s # 0 /\ s > Len(table) /\ e = Entry(k, now, now, TRUE)
        BY <1>2, <1>3, <1>5, <1>a, <1>b
    <2> QED BY <1>1, <1>3, <1>5, <1>c, <2>1
<1>6. CASE find(k) = 0 /\ ~(Len(table) < Slots)
    <2>1. s = recycleSlot(SevOf[k]) /\ e = Entry(k, now, now, TRUE)
        BY <1>2, <1>3, <1>6, <1>b
    <2>2. s = 0 \/ s \in Recyclable(SevOf[k])
        BY <2>1, RecycledGivesWay
    <2>3. s \in Recyclable(SevOf[k]) => s \in DOMAIN table
        BY DEF Recyclable
    <2>4. s \in DOMAIN table => s # 0 /\ ~(s > Len(table))
        BY <1>a
    <2> QED BY <1>1, <1>3, <1>6, <1>c, <2>1, <2>2, <2>3, <2>4
<1> QED BY <1>4, <1>5, <1>6

LEMMA NewEntry == ASSUME JournalInv, NEW k \in Keys, NEW a \in Nat, NEW b \in Nat, NEW p \in BOOLEAN
                  PROVE  /\ Entry(k, a, b, p) \in EntryType /\ Entry(k, a, b, p).key = k
                         /\ Entry(k, a, b, p).first = a /\ Entry(k, a, b, p).last = b /\ Entry(k, a, b, p).pending = p
BY DEF Entry, EntryType

\* the table after one entry was replaced or added, as facts about its entries
Replaced(t, s, e) ==
    /\ t \in Seq(EntryType) /\ s \in DOMAIN t /\ t[s] = e
    /\ DOMAIN table \subseteq DOMAIN t /\ DOMAIN t \subseteq DOMAIN table \cup {s}
    /\ \A i \in DOMAIN table \ {s} : t[i] = table[i]

LEMMA ReplacedEntry ==
    ASSUME JournalInv, NEW e \in EntryType, NEW s
    PROVE  /\ s \in DOMAIN table => Replaced([table EXCEPT ![s] = e], s, e)
           /\ s = Len(table) + 1 => Replaced(Append(table, e), s, e)
<1>1. table \in Seq(EntryType) /\ Len(table) \in Nat /\ DOMAIN table = 1 .. Len(table)
    BY TableTypes DEF JournalInv
<1>2. ASSUME s \in DOMAIN table PROVE Replaced([table EXCEPT ![s] = e], s, e)
    BY <1>1, <1>2 DEF Replaced
<1>3. ASSUME s = Len(table) + 1 PROVE Replaced(Append(table, e), s, e)
    BY <1>1, <1>3 DEF Replaced
<1> QED BY <1>2, <1>3

\* the three things noteError(k) can do
LEMMA NoteEffect ==
    ASSUME JournalInv, NEW k \in Keys, noteError(k)
    PROVE  \/ table' = table /\ told' = told
           \/ \E s : /\ find(k) = 0 /\ (s \in DOMAIN table => s \in Recyclable(SevOf[k]))
                     /\ Replaced(table', s, Entry(k, now, now, TRUE)) /\ told' = [told EXCEPT ![k] = now + 1]
           \/ \E s : /\ s = find(k) /\ s \in DOMAIN table /\ table[s].key = k
                     /\ \/ /\ Announces(k) /\ told' = [told EXCEPT ![k] = now + 1]
                           /\ Replaced(table', s, Entry(k, now, now, TRUE))
                        \/ /\ told' = told
                           /\ Replaced(table', s, Entry(k, table[s].first, now, table[s].pending))
<1>0. /\ table' = note(k)
      /\ told' = IF SlotFor(k) # 0 /\ Announces(k) THEN [told EXCEPT ![k] = now + 1] ELSE told
    BY DEF noteError
<1>1. now \in Nat /\ Len(table) \in Nat /\ DOMAIN table = 1 .. Len(table)
    BY TableTypes DEF JournalInv
<1>2. Entry(k, now, now, TRUE) \in EntryType
    BY <1>1, NewEntry
<1>3. CASE SlotFor(k) = 0 /\ note(k) = table
    BY <1>0, <1>3
<1>4. CASE /\ SlotFor(k) = Len(table) + 1 /\ find(k) = 0 /\ Announces(k)
           /\ note(k) = Append(table, Entry(k, now, now, TRUE))
    <2>1. Replaced(table', Len(table) + 1, Entry(k, now, now, TRUE))
        BY <1>0, <1>2, <1>4, ReplacedEntry
    <2>2. SlotFor(k) # 0 /\ Len(table) + 1 \notin DOMAIN table
        BY <1>1, <1>4
    <2> QED BY <1>0, <1>4, <2>1, <2>2
<1>5. CASE /\ SlotFor(k) \in Recyclable(SevOf[k]) /\ find(k) = 0 /\ Announces(k)
           /\ note(k) = [table EXCEPT ![SlotFor(k)] = Entry(k, now, now, TRUE)]
    <2>1. SlotFor(k) \in DOMAIN table
        BY <1>5 DEF Recyclable
    <2>2. Replaced(table', SlotFor(k), Entry(k, now, now, TRUE))
        BY <1>0, <1>2, <1>5, <2>1, ReplacedEntry
    <2>3. SlotFor(k) # 0
        BY <1>1, <2>1
    <2> QED BY <1>0, <1>5, <2>2, <2>3
<1>6. CASE /\ SlotFor(k) = find(k) /\ find(k) \in DOMAIN table /\ table[find(k)].key = k
           /\ note(k) = [table EXCEPT ![find(k)] = IF Announces(k) THEN Entry(k, now, now, TRUE)
                              ELSE Entry(k, table[find(k)].first, now, table[find(k)].pending)]
    <2>1. find(k) # 0 /\ table[find(k)].first \in Nat /\ table[find(k)].pending \in BOOLEAN
        BY <1>1, <1>6, TableTypes
    <2>2. Entry(k, table[find(k)].first, now, table[find(k)].pending) \in EntryType
        BY <1>1, <2>1, NewEntry
    <2>3. CASE Announces(k)
        <3>1. Replaced(table', find(k), Entry(k, now, now, TRUE))
            BY <1>0, <1>2, <1>6, <2>3, ReplacedEntry
        <3> QED BY <1>0, <1>6, <2>1, <2>3, <3>1
    <2>4. CASE ~Announces(k)
        <3>1. Replaced(table', find(k), Entry(k, table[find(k)].first, now, table[find(k)].pending))
            BY <1>0, <1>6, <2>2, <2>4, ReplacedEntry
        <3> QED BY <1>0, <1>6, <2>1, <2>4, <3>1
    <2> QED BY <2>3, <2>4
<1> QED BY <1>3, <1>4, <1>5, <1>6, NoteCases

\* the action properties, as one step
ShownFirst ==
    \A i \in DOMAIN table : table[i].pending /\ SevOf[table[i].key] = Critical =>
          \/ latest' = {table[i].key}
          \/ /\ \E j \in DOMAIN table' : table'[j].key = table[i].key /\ table'[j].pending
             /\ \A k \in latest' \ latest : SevOf[k] = Critical

RepeatsSpaced ==
    \A k \in Keys : told'[k] # told[k] /\ told[k] # 0 /\ find(k) # 0 => now + 1 - told[k] >= Repeat

\* one entry replaced, its time announced: the invariant and the properties
LEMMA AnnouncedEntry ==
    ASSUME JournalInv, NEW k \in Keys, NEW s, Replaced(table', s, Entry(k, now, now, TRUE)),
           told' = [told EXCEPT ![k] = now + 1], now' = now, latest' = latest,
           \A i \in DOMAIN table \ {s} : table[i].key # k,
           s \in DOMAIN table => s \in Recyclable(SevOf[k]) \/ table[s].key = k
    PROVE  JournalInv' /\ ShownFirst
<1>1. /\ now \in Nat /\ told \in [Keys -> Nat] /\ SevOf[k] \in 0 .. 3
    BY JournalBounds DEF JournalInv
<1>2. /\ table' \in Seq(EntryType) /\ s \in DOMAIN table' /\ DOMAIN table \subseteq DOMAIN table'
      /\ DOMAIN table' \subseteq DOMAIN table \cup {s}
      /\ \A i \in DOMAIN table \ {s} : table'[i] = table[i]
      /\ table'[s].key = k /\ table'[s].first = now /\ table'[s].last = now /\ table'[s].pending
    <2> DEFINE e == Entry(k, now, now, TRUE)
    <2>1. e.key = k /\ e.first = now /\ e.last = now /\ e.pending = TRUE
        BY DEF Entry
    <2> HIDE DEF e
    <2>2. Replaced(table', s, e)
        BY DEF e
    <2>3. table'[s] = e
        BY <2>2 DEF Replaced
    <2>4. table'[s].key = k /\ table'[s].first = now /\ table'[s].last = now /\ table'[s].pending
        BY <2>1, <2>3
    <2> QED BY <2>2, <2>4 DEF Replaced
<1>3. \A i \in DOMAIN table' : i # s => i \in DOMAIN table /\ table'[i] = table[i] /\ table'[i].key # k
    BY <1>2
<1>4. told' \in [Keys -> Nat] /\ told'[k] = now + 1 /\ \A x \in Keys : x # k => told'[x] = told[x]
    BY <1>1
<1>5. \A i, j \in DOMAIN table' : table'[i].key = table'[j].key => i = j
    BY <1>2, <1>3 DEF JournalInv
<1>6. ASSUME NEW i \in DOMAIN table'
      PROVE  /\ table'[i].first <= table'[i].last /\ table'[i].last <= now'
             /\ told'[table'[i].key] = table'[i].first + 1
    <2>1. CASE i = s
        BY <1>1, <1>2, <1>4, <2>1
    <2>2. CASE i # s
        <3>1. i \in DOMAIN table /\ table'[i] = table[i] /\ table[i].key # k /\ table[i].key \in Keys
            BY <1>3, <2>2, TableTypes
        <3> QED BY <1>4, <3>1 DEF JournalInv
    <2> QED BY <2>1, <2>2
<1>7. JournalInv'
    BY <1>1, <1>2, <1>4, <1>5, <1>6 DEF JournalInv
<1>8. ASSUME NEW i \in DOMAIN table, table[i].pending, SevOf[table[i].key] = Critical
      PROVE  \E j \in DOMAIN table' : table'[j].key = table[i].key /\ table'[j].pending
    <2>1. CASE i # s
        BY <1>2, <1>8, <2>1
    <2>2. CASE i = s
        <3>1. i \notin Recyclable(SevOf[k])
            BY <1>1, <1>8 DEF Recyclable, Critical
        <3> QED BY <1>2, <2>2, <3>1
    <2> QED BY <2>1, <2>2
<1> QED BY <1>7, <1>8 DEF ShownFirst

LEMMA JournalStep ==
    ASSUME JournalInv, [JournalNext]_journalVars
    PROVE  JournalInv' /\ ShownFirst /\ RepeatsSpaced
<1>0. Repeat \in Nat /\ ClearAfter \in Nat /\ ClearAfter > Repeat /\ now \in Nat /\ told \in [Keys -> Nat]
    BY JournalBounds DEF JournalInv
<1>1. CASE \E k \in Keys : noteError(k)
    <2>1. PICK k \in Keys : noteError(k)
        BY <1>1
    <2>2. now' = now /\ latest' = latest
        BY <2>1 DEF noteError
    <2>3. CASE table' = table /\ told' = told
        BY <2>2, <2>3 DEF JournalInv, ShownFirst, RepeatsSpaced
    <2>4. ASSUME NEW s, find(k) = 0, s \in DOMAIN table => s \in Recyclable(SevOf[k]),
                 Replaced(table', s, Entry(k, now, now, TRUE)), told' = [told EXCEPT ![k] = now + 1]
          PROVE  JournalInv' /\ ShownFirst /\ RepeatsSpaced
        <3>1. 0 \notin DOMAIN table
            BY TableTypes
        <3>2. \A i \in DOMAIN table : table[i].key # k
            BY <2>4, <3>1, FindKey
        <3>3. JournalInv' /\ ShownFirst
            BY <2>2, <2>4, <3>2, AnnouncedEntry
        <3>4. RepeatsSpaced
            BY <1>0, <2>4 DEF RepeatsSpaced
        <3> QED BY <3>3, <3>4
    <2>5. ASSUME NEW s, s = find(k), s \in DOMAIN table, table[s].key = k
          PROVE  /\ \A i \in DOMAIN table \ {s} : table[i].key # k
                 /\ told[k] = table[s].first + 1 /\ table[s].first <= table[s].last /\ table[s].last <= now
                 /\ table[s].first \in Nat /\ table[s].last \in Nat /\ table[s].pending \in BOOLEAN
        BY <2>5, TableTypes DEF JournalInv
    <2>6. ASSUME NEW s, s = find(k), s \in DOMAIN table, table[s].key = k, Announces(k),
                 told' = [told EXCEPT ![k] = now + 1], Replaced(table', s, Entry(k, now, now, TRUE))
          PROVE  JournalInv' /\ ShownFirst /\ RepeatsSpaced
        <3>1. JournalInv' /\ ShownFirst
            BY <2>2, <2>5, <2>6, AnnouncedEntry
        <3>2. now - table[s].last >= ClearAfter \/ now - table[s].first >= Repeat
            <4>1. s # 0
                BY <2>6, TableTypes
            <4> QED BY <2>6, <4>1 DEF Announces
        <3>3. now + 1 - told[k] >= Repeat
            BY <1>0, <2>5, <2>6, <3>2
        <3>4. RepeatsSpaced
            BY <1>0, <2>6, <3>3 DEF RepeatsSpaced
        <3> QED BY <3>1, <3>4
    <2>7. ASSUME NEW s, s = find(k), s \in DOMAIN table, table[s].key = k, told' = told,
                 Replaced(table', s, Entry(k, table[s].first, now, table[s].pending))
          PROVE  JournalInv' /\ ShownFirst /\ RepeatsSpaced
        <3>1. /\ table' \in Seq(EntryType) /\ DOMAIN table' = DOMAIN table
              /\ \A i \in DOMAIN table \ {s} : table'[i] = table[i]
              /\ table'[s].key = k /\ table'[s].first = table[s].first /\ table'[s].last = now
              /\ table'[s].pending = table[s].pending
            <4> DEFINE e == Entry(k, table[s].first, now, table[s].pending)
            <4>1. e.key = k /\ e.first = table[s].first /\ e.last = now /\ e.pending = table[s].pending
                BY <1>0, <2>5, <2>7, NewEntry
            <4> HIDE DEF e
            <4>2. Replaced(table', s, e)
                BY <2>7 DEF e
            <4>3. table'[s] = e
                BY <4>2 DEF Replaced
            <4>4. /\ table'[s].key = k /\ table'[s].first = table[s].first /\ table'[s].last = now
                  /\ table'[s].pending = table[s].pending
                BY <4>1, <4>3
            <4>5. DOMAIN table' = DOMAIN table
                BY <2>7, <4>2 DEF Replaced
            <4> QED BY <4>2, <4>4, <4>5 DEF Replaced
        <3>2. \A i \in DOMAIN table : /\ table'[i].key = table[i].key /\ table'[i].first = table[i].first
                                      /\ table'[i].pending = table[i].pending
            BY <2>7, <3>1
        <3>3. \A i \in DOMAIN table : table'[i].first <= table'[i].last /\ table'[i].last <= now
            BY <1>0, <2>5, <2>7, <3>1 DEF JournalInv
        <3> QED BY <2>2, <2>7, <3>1, <3>2, <3>3 DEF JournalInv, ShownFirst, RepeatsSpaced
    <2> QED BY <2>1, <2>3, <2>4, <2>6, <2>7, NoteEffect
<1>2. CASE Drain
    <2> DEFINE i == takePending
    <2>1. /\ table' = IF i = 0 THEN table ELSE [table EXCEPT ![i].pending = FALSE]
          /\ latest' = IF i = 0 THEN latest ELSE {table[i].key}
          /\ now' = now /\ told' = told
        BY <1>2 DEF Drain
    <2>2. 0 \notin DOMAIN table
        BY TableTypes
    <2>3. CASE \A x \in DOMAIN table : ~table[x].pending
        <3>1. i = 0
            BY <2>3 DEF takePending
        <3> QED BY <2>1, <2>3, <3>1 DEF JournalInv, ShownFirst, RepeatsSpaced
    <2>4. CASE \E x \in DOMAIN table : table[x].pending
        <3>1. /\ i \in DOMAIN table
              /\ \A x \in DOMAIN table : table[x].pending => SevOf[table[i].key] >= SevOf[table[x].key]
            BY <2>4, TakenIsFirst
        <3>2. SevOf[table[i].key] \in 0 .. 3
            BY <3>1, TableTypes
        <3> HIDE DEF i
        <3>3. table' = [table EXCEPT ![i].pending = FALSE] /\ latest' = {table[i].key}
            BY <2>1, <2>2, <3>1
        <3>4. table[i] \in EntryType /\ [table[i] EXCEPT !.pending = FALSE] \in EntryType
            BY <3>1, TableTypes DEF EntryType
        <3>5. /\ table' \in Seq(EntryType) /\ DOMAIN table' = DOMAIN table
              /\ \A x \in DOMAIN table \ {i} : table'[x] = table[x]
              /\ table'[i] = [table[i] EXCEPT !.pending = FALSE]
            BY <3>1, <3>3, <3>4 DEF JournalInv
        <3>6. \A x \in DOMAIN table : /\ table'[x].key = table[x].key /\ table'[x].first = table[x].first
                                      /\ table'[x].last = table[x].last
            BY <3>4, <3>5 DEF EntryType
        <3>7. JournalInv' /\ RepeatsSpaced
            BY <2>1, <3>5, <3>6 DEF JournalInv, RepeatsSpaced
        <3>8. ShownFirst
            BY <3>1, <3>2, <3>3, <3>5 DEF ShownFirst, Critical
        <3> QED BY <3>7, <3>8
    <2> QED BY <2>3, <2>4
<1>3. CASE JournalTick
    <2>1. now' = now + 1 /\ UNCHANGED <<table, latest, told>>
        BY <1>3 DEF JournalTick
    <2>2. \A i \in DOMAIN table : table[i].last <= now + 1
        BY <1>0, TableTypes DEF JournalInv
    <2> QED BY <1>0, <2>1, <2>2 DEF JournalInv, ShownFirst, RepeatsSpaced
<1>4. CASE UNCHANGED journalVars
    BY <1>4 DEF journalVars, JournalInv, ShownFirst, RepeatsSpaced
<1> QED BY <1>1, <1>2, <1>3, <1>4 DEF JournalNext

(***************************************************************************)
(* For any errors, severities, table size and intervals: a critical error   *)
(* that was announced is in the journal until it is shown, before any       *)
(* lesser one, and a tracked error is announced once per interval           *)
(* (error_journal.cpp, noteError and controlTask of app/tasks.cpp).         *)
(***************************************************************************)
THEOREM JournalIsFair == JournalSpec => CriticalIsShownFirst /\ TrackedRepeatsAreSpaced
<1>1. JournalInit => JournalInv
    <2> SUFFICES ASSUME JournalInit PROVE JournalInv
        OBVIOUS
    <2>1. table = <<>> /\ <<>> \in Seq(EntryType) /\ DOMAIN <<>> = {}
        BY DEF JournalInit
    <2> QED BY <2>1 DEF JournalInit, JournalInv
<1>2. JournalInv /\ [JournalNext]_journalVars => JournalInv'
    BY JournalStep
<1>3. JournalInv /\ [JournalNext]_journalVars
        => [\A i \in DOMAIN table : table[i].pending /\ SevOf[table[i].key] = Critical =>
              \/ latest' = {table[i].key}
              \/ /\ \E j \in DOMAIN table' : table'[j].key = table[i].key /\ table'[j].pending
                 /\ \A k \in latest' \ latest : SevOf[k] = Critical]_journalVars
    BY JournalStep DEF ShownFirst
<1>4. JournalInv /\ [JournalNext]_journalVars
        => [\A k \in Keys : told'[k] # told[k] /\ told[k] # 0 /\ find(k) # 0 => now + 1 - told[k] >= Repeat]_journalVars
    BY JournalStep DEF RepeatsSpaced
<1> QED BY <1>1, <1>2, <1>3, <1>4, PTL DEF JournalSpec, CriticalIsShownFirst, TrackedRepeatsAreSpaced

-----------------------------------------------------------------------------
(***************************************************************************)
(* The event log.                                                           *)
(***************************************************************************)
\* the queue holds, in order, events not yet known to be filed; the writer's copy
\* is its head, and nothing on the card is newer than what is queued
LogInv ==
    /\ pushed \in Nat /\ queue \in Seq(Nat) /\ ordered = TRUE
    /\ taken # <<>> => queue # <<>> /\ taken[1] = queue[1]
    /\ \A i \in DOMAIN queue : queue[i] <= pushed /\ queue[i] \notin refused
    /\ \A i, j \in DOMAIN queue : i < j => queue[i] < queue[j]
    /\ \A e \in onCard : e \in 1 .. pushed /\ e \notin refused
    /\ \A e \in onCard : \A i \in DOMAIN queue : e <= queue[i]
    /\ \A e \in refused : e \in 1 .. pushed
    /\ \A e \in 1 .. pushed : e \in onCard \/ e \in refused \/ \E i \in DOMAIN queue : queue[i] = e
    /\ \A i \in DOMAIN queue : queue[i] >= 1

\* a sequence's head and tail, an element appended to it, as facts about its elements
LEMMA SeqParts ==
    ASSUME NEW q \in Seq(Nat)
    PROVE  /\ Len(q) \in Nat /\ DOMAIN q = 1 .. Len(q) /\ \A i \in DOMAIN q : q[i] \in Nat
           /\ q = <<>> <=> Len(q) = 0
           /\ q # <<>> => /\ Head(q) = q[1] /\ 1 \in DOMAIN q /\ Tail(q) \in Seq(Nat) /\ DOMAIN Tail(q) = 1 .. Len(q) - 1
                          /\ \A i \in 1 .. Len(q) - 1 : Tail(q)[i] = q[i + 1]
           /\ \A x \in Nat : /\ Append(q, x) \in Seq(Nat) /\ DOMAIN Append(q, x) = 1 .. Len(q) + 1
                             /\ Append(q, x)[Len(q) + 1] = x /\ \A i \in 1 .. Len(q) : Append(q, x)[i] = q[i]
BY SMT

LEMMA LogStep ==
    ASSUME LogInv, [EventLogNext]_logVars
    PROVE  LogInv'
<1> DEFINE n == Len(queue)
<1>0. /\ queue \in Seq(Nat) /\ pushed \in Nat
    BY DEF LogInv
<1>a. n \in Nat /\ DOMAIN queue = 1 .. n /\ (queue = <<>> <=> n = 0) /\ \A i \in 1 .. n : queue[i] \in Nat
    BY <1>0, SeqParts
<1> HIDE DEF n
<1>1. CASE LogAnnounce
    <2>1. /\ pushed' = pushed + 1 /\ queue' = push(queue, pushed + 1)
          /\ refused' = IF Len(queue) >= Capacity THEN refused \cup {pushed + 1} ELSE refused
          /\ UNCHANGED <<taken, onCard, ordered>>
        BY <1>1 DEF LogAnnounce
    <2>2. CASE Len(queue) >= Capacity
        <3>1. queue' = queue /\ refused' = refused \cup {pushed + 1}
            BY <2>1, <2>2 DEF push
        <3>2. /\ \A i \in DOMAIN queue' : queue'[i] <= pushed' /\ queue'[i] >= 1 /\ queue'[i] \notin refused'
              /\ \A e \in onCard' : e \in 1 .. pushed' /\ e \notin refused'
            <4>1. ASSUME NEW i \in DOMAIN queue
                  PROVE  queue[i] <= pushed + 1 /\ queue[i] >= 1 /\ queue[i] # pushed + 1 /\ queue[i] \notin refused
                BY <1>0, <1>a DEF LogInv
            <4>2. ASSUME NEW e \in onCard PROVE e \in 1 .. pushed + 1 /\ e # pushed + 1 /\ e \notin refused
                BY <1>0 DEF LogInv
            <4> QED BY <2>1, <3>1, <4>1, <4>2
        <3>3. \A e \in refused' : e \in 1 .. pushed'
            BY <1>0, <2>1, <3>1 DEF LogInv
        <3>4. \A e \in 1 .. pushed' : e \in onCard' \/ e \in refused' \/ \E i \in DOMAIN queue' : queue'[i] = e
            <4>1. \A e \in 1 .. pushed' : e \in 1 .. pushed \/ e = pushed + 1
                BY <1>0, <2>1
            <4> QED BY <2>1, <3>1, <4>1 DEF LogInv
        <3>5. /\ \A i, j \in DOMAIN queue' : i < j => queue'[i] < queue'[j]
              /\ \A e \in onCard' : \A i \in DOMAIN queue' : e <= queue'[i]
              /\ taken' # <<>> => queue' # <<>> /\ taken'[1] = queue'[1]
            BY <2>1, <3>1 DEF LogInv
        <3>6. pushed' \in Nat /\ queue' \in Seq(Nat) /\ ordered' = TRUE
            BY <1>0, <2>1, <3>1 DEF LogInv
        <3> QED BY <3>2, <3>3, <3>4, <3>5, <3>6 DEF LogInv
    <2>3. CASE ~(Len(queue) >= Capacity)
        <3>1. queue' = Append(queue, pushed + 1) /\ refused' = refused
            BY <2>1, <2>3 DEF push
        <3>2. /\ queue' \in Seq(Nat) /\ DOMAIN queue' = 1 .. n + 1 /\ queue'[n + 1] = pushed + 1
              /\ \A i \in 1 .. n : queue'[i] = queue[i]
            BY <1>0, <3>1, SeqParts DEF n
        <3>3. \A i \in DOMAIN queue' : i = n + 1 \/ i \in DOMAIN queue
            BY <1>a, <3>2
        <3>4. taken' # <<>> => queue' # <<>> /\ taken'[1] = queue'[1]
            <4>1. queue' # <<>>
                BY <1>a, <3>2, SeqParts
            <4>2. taken # <<>> => 1 \in 1 .. n
                BY <1>a DEF LogInv
            <4> QED BY <2>1, <3>2, <4>1, <4>2 DEF LogInv
        <3>5. ASSUME NEW i \in DOMAIN queue' PROVE queue'[i] <= pushed' /\ queue'[i] >= 1 /\ queue'[i] \notin refused'
            BY <1>0, <1>a, <2>1, <3>1, <3>2, <3>3 DEF LogInv
        <3>6. ASSUME NEW i \in DOMAIN queue', NEW j \in DOMAIN queue', i < j PROVE queue'[i] < queue'[j]
            BY <1>0, <1>a, <2>1, <3>2, <3>3, <3>6 DEF LogInv
        <3>7. ASSUME NEW e \in onCard PROVE \A i \in DOMAIN queue' : e <= queue'[i]
            BY <1>0, <1>a, <2>1, <3>2, <3>3 DEF LogInv
        <3>8. ASSUME NEW e \in 1 .. pushed'
              PROVE  e \in onCard' \/ e \in refused' \/ \E i \in DOMAIN queue' : queue'[i] = e
            <4>1. CASE e = pushed + 1
                BY <1>a, <3>2, <4>1
            <4>2. CASE e \in 1 .. pushed
                <5>1. e \in onCard \/ e \in refused \/ \E i \in DOMAIN queue : queue[i] = e
                    BY <4>2 DEF LogInv
                <5> QED BY <1>a, <2>1, <3>1, <3>2, <5>1
            <4> QED BY <1>0, <2>1, <4>1, <4>2
        <3>9. /\ \A e \in onCard' : e \in 1 .. pushed' /\ e \notin refused'
              /\ \A e \in refused' : e \in 1 .. pushed'
            BY <1>0, <2>1, <3>1 DEF LogInv
        <3>10. pushed' \in Nat /\ ordered' = TRUE
            BY <1>0, <2>1 DEF LogInv
        <3> QED BY <2>1, <3>2, <3>4, <3>5, <3>6, <3>7, <3>8, <3>9, <3>10 DEF LogInv
    <2> QED BY <2>2, <2>3
<1>2. CASE LogPeek
    <2>1. /\ UNCHANGED <<queue, pushed, refused, onCard, ordered>>
          /\ taken' = taken \/ (queue # <<>> /\ taken' = <<Head(queue)>>)
        BY <1>2 DEF LogPeek
    <2>2. taken' # <<>> => queue # <<>> /\ taken'[1] = queue[1]
        BY <1>0, <2>1, SeqParts DEF LogInv
    <2> QED BY <2>1, <2>2 DEF LogInv
<1>3. CASE LogAppend
    <2>1. PICK landed \in BOOLEAN, transfers \in BOOLEAN :
            /\ onCard' = IF landed THEN onCard \cup {taken[1]} ELSE onCard
            /\ ordered' = (ordered /\ (landed => \A e \in onCard : e <= taken[1]))
            /\ queue' = IF Written(landed, transfers) THEN pop(queue) ELSE queue
        BY <1>3 DEF LogAppend
    <2>2. taken # <<>> /\ taken' = <<>> /\ pushed' = pushed /\ refused' = refused
        BY <1>3 DEF LogAppend
    <2>3. queue # <<>> /\ taken[1] = queue[1] /\ 1 \in 1 .. n
        BY <1>a, <2>2 DEF LogInv
    <2>4. /\ queue[1] \in 1 .. pushed /\ queue[1] \notin refused /\ \A e \in onCard : e <= queue[1]
          /\ \A i \in 1 .. n : queue[1] <= queue[i]
        <3>1. queue[1] \in 1 .. pushed /\ queue[1] \notin refused /\ \A e \in onCard : e <= queue[1]
            BY <1>0, <1>a, <2>3 DEF LogInv
        <3>2. ASSUME NEW i \in 1 .. n PROVE queue[1] <= queue[i]
            <4>1. CASE i = 1
                BY <1>a, <4>1
            <4>2. CASE 1 < i
                <5>1. queue[1] < queue[i]
                    BY <1>a, <2>3, <4>2 DEF LogInv
                <5> QED BY <1>a, <2>3, <5>1
            <4> QED BY <1>a, <4>1, <4>2
        <3> QED BY <3>1, <3>2
    <2>5. ordered' = TRUE
        <3>1. ordered = TRUE /\ (landed => \A e \in onCard : e <= taken[1])
            BY <2>3, <2>4 DEF LogInv
        <3> QED BY <2>1, <3>1
    <2>6. /\ \A e \in onCard' : e \in 1 .. pushed /\ e \notin refused /\ \A i \in 1 .. n : e <= queue[i]
          /\ \A e \in onCard : e \in onCard'
        BY <1>a, <2>1, <2>3, <2>4 DEF LogInv
    <2>7. CASE ~Written(landed, transfers)
        <3>1. queue' = queue
            BY <2>1, <2>7
        <3>2. \A e \in 1 .. pushed : e \in onCard' \/ e \in refused \/ \E i \in DOMAIN queue : queue[i] = e
            BY <2>6 DEF LogInv
        <3>3. /\ \A i \in DOMAIN queue : queue[i] <= pushed /\ queue[i] \notin refused /\ queue[i] >= 1
              /\ \A i, j \in DOMAIN queue : i < j => queue[i] < queue[j]
              /\ \A e \in refused : e \in 1 .. pushed
            BY DEF LogInv
        <3> QED BY <1>0, <1>a, <2>2, <2>5, <2>6, <3>1, <3>2, <3>3 DEF LogInv
    <2>8. CASE Written(landed, transfers)
        <3>1. queue' = Tail(queue) /\ onCard' = onCard \cup {queue[1]}
            BY <2>1, <2>3, <2>8 DEF pop, Written
        <3>2. /\ queue' \in Seq(Nat) /\ DOMAIN queue' = 1 .. n - 1
              /\ \A i \in 1 .. n - 1 : queue'[i] = queue[i + 1]
            BY <1>0, <2>3, <3>1, SeqParts DEF n
        <3>3. \A i \in 1 .. n - 1 : i + 1 \in DOMAIN queue
            BY <1>a
        <3>4. ASSUME NEW i \in DOMAIN queue'
              PROVE  queue'[i] <= pushed' /\ queue'[i] >= 1 /\ queue'[i] \notin refused' /\ \A e \in onCard' : e <= queue'[i]
            BY <1>a, <2>2, <2>6, <3>2, <3>3 DEF LogInv
        <3>5. ASSUME NEW i \in DOMAIN queue', NEW j \in DOMAIN queue', i < j PROVE queue'[i] < queue'[j]
            <4>1. i \in 1 .. n - 1 /\ j \in 1 .. n - 1 /\ i + 1 < j + 1
                BY <1>a, <3>2, <3>5
            <4> QED BY <3>2, <3>3, <4>1 DEF LogInv
        <3>6. ASSUME NEW e \in 1 .. pushed
              PROVE  e \in onCard' \/ e \in refused \/ \E i \in DOMAIN queue' : queue'[i] = e
            <4>1. CASE e \in onCard \/ e \in refused
                BY <2>6, <4>1
            <4>2. ASSUME NEW x \in DOMAIN queue, queue[x] = e
                  PROVE  e \in onCard' \/ \E i \in DOMAIN queue' : queue'[i] = e
                <5>1. CASE x = 1
                    BY <3>1, <4>2, <5>1
                <5>2. CASE x # 1
                    <6>1. x - 1 \in 1 .. n - 1 /\ (x - 1) + 1 = x
                        BY <1>a, <5>2
                    <6> QED BY <3>2, <4>2, <6>1
                <5> QED BY <5>1, <5>2
            <4> QED BY <4>1, <4>2 DEF LogInv
        <3>7. \A e \in refused : e \in 1 .. pushed
            BY DEF LogInv
        <3>8. taken' # <<>> => queue' # <<>> /\ taken'[1] = queue'[1]
            BY <2>2
        <3> QED BY <1>0, <2>2, <2>5, <2>6, <3>2, <3>4, <3>5, <3>6, <3>7, <3>8 DEF LogInv
    <2> QED BY <2>7, <2>8
<1>4. CASE UNCHANGED logVars
    BY <1>4 DEF logVars, LogInv
<1> QED BY <1>1, <1>2, <1>3, <1>4 DEF EventLogNext

(***************************************************************************)
(* For any queue capacity and any number of events: whatever an append loses *)
(* or repeats, the accepted events are in EVENTS.LOG in order, without a     *)
(* gap, or still queued (event_log.cpp, i2cTask of app/tasks.cpp).           *)
(***************************************************************************)
THEOREM EventsAreKept == EventLogSpec => []LogHasNoGap
<1>1. EventLogInit => LogInv
    <2> SUFFICES ASSUME EventLogInit PROVE LogInv
        OBVIOUS
    <2>1. queue = <<>> /\ <<>> \in Seq(Nat) /\ DOMAIN <<>> = {} /\ pushed = 0 /\ 1 .. 0 = {}
        BY DEF EventLogInit
    <2> QED BY <2>1 DEF EventLogInit, LogInv
<1>2. LogInv /\ [EventLogNext]_logVars => LogInv'
    BY LogStep
<1>3. LogInv => LogHasNoGap
    <2> SUFFICES ASSUME LogInv PROVE LogHasNoGap
        OBVIOUS
    <2>1. \A i \in DOMAIN queue : queue[i] \in 1 .. pushed
        BY SeqParts DEF LogInv
    <2>2. onCard \cup QueuedEvents \cup refused = 1 .. pushed
        BY <2>1 DEF LogInv, QueuedEvents
    <2> QED BY <2>2 DEF LogInv, LogHasNoGap
<1> QED BY <1>1, <1>2, <1>3, PTL DEF EventLogSpec

-----------------------------------------------------------------------------
(***************************************************************************)
(* The card's file.  The driver mirrors the position of a stream it cannot   *)
(* see; within a session the mirror is exact, or the stream is given up.     *)
(***************************************************************************)
DriverType == [read : BOOLEAN, append : {"none", "CONFIG", "EVENTS"}, size : Nat, source : Nat, client : Nat,
               cache : [from : Nat, pos : Nat, len : Nat]]
ReadingType == [at : {"size", "open", "skip", "copy"}, offset : Nat, len : Nat, copied : Nat, attempt : 1 .. Attempts,
                right : BOOLEAN, faults : Nat]
AnswerType == [ok : BOOLEAN, right : BOOLEAN, faults : Nat, inFile : BOOLEAN]

\* while the store reads in a session, an open stream is where the driver takes it
\* for: what the card serves next is source, and the cache holds what lies between
\* the client and source
Stream ==
    session /\ driver.read =>
        /\ driver.size = chars /\ served = driver.source /\ driver.source <= driver.size
        /\ driver.cache.pos <= driver.cache.len
        /\ driver.source = driver.client + (driver.cache.len - driver.cache.pos)
        /\ driver.cache.pos < driver.cache.len =>
              driver.cache.from # Lost /\ driver.cache.from + driver.cache.pos = driver.client

\* the read in progress: what it has copied is right, and each failed attempt at
\* characters the file has met a fault
Attempted ==
    reading # NotReading =>
        /\ reading \in ReadingType /\ session = TRUE /\ reading.right = TRUE /\ reading.len >= 1
        /\ reading.at \in {"skip", "copy"} => driver.read
        /\ reading.at = "open" => driver.size = chars
        /\ reading.at = "skip" => driver.client <= reading.offset
        /\ reading.at # "copy" => reading.copied = 0
        /\ reading.at = "copy" => reading.copied <= reading.len /\ driver.client = reading.offset + reading.copied
        /\ reading.offset + reading.len <= chars => reading.faults >= reading.attempt - 1

Answered == answer \in AnswerType /\ ReadsAreFromFile /\ ReadNeedsThreeFaults

FileInv ==
    /\ chars \in Nat /\ chars <= 2 * MaxBytes /\ served \in Nat /\ busFaults \in Nat /\ session \in BOOLEAN
    /\ driver \in DriverType
    /\ Stream /\ Attempted /\ Answered

LEMMA DriverFields ==
    ASSUME NEW d \in DriverType
    PROVE  /\ d.read \in BOOLEAN /\ d.size \in Nat /\ d.source \in Nat /\ d.client \in Nat
           /\ d.cache.from \in Nat /\ d.cache.pos \in Nat /\ d.cache.len \in Nat
BY DEF DriverType

LEMMA ReadingFields ==
    ASSUME NEW r \in ReadingType
    PROVE  /\ r.at \in {"size", "open", "skip", "copy"} /\ r.offset \in Nat /\ r.len \in Nat /\ r.copied \in Nat
           /\ r.attempt \in 1 .. Attempts /\ r.right \in BOOLEAN /\ r.faults \in Nat /\ r # NotReading
<1>1. r.at # "idle"
    BY DEF ReadingType
<1>2. NotReading.at = "idle"
    BY DEF NotReading
<1> QED BY <1>1, <1>2 DEF ReadingType

\* between reads: whatever the card and the driver do, only a session relies on it
LEMMA BetweenReads ==
    ASSUME FileInv, chars' \in Nat, chars' <= 2 * MaxBytes, served' \in Nat, busFaults' \in Nat,
           session' \in BOOLEAN, driver' \in DriverType, session' /\ driver'.read => FALSE,
           reading = NotReading, reading' = reading, answer' = answer
    PROVE  FileInv'
<1>1. Stream'
    BY DEF Stream
<1>2. Attempted'
    BY DEF Attempted
<1>3. Answered'
    BY DEF FileInv, Answered, ReadsAreFromFile, ReadNeedsThreeFaults
<1> QED BY <1>1, <1>2, <1>3 DEF FileInv

\* selectAppendFile leaves a driver
LEMMA SelectAppend ==
    ASSUME FileInv, NEW f \in {"CONFIG", "EVENTS"}, selectAppendFile(f)
    PROVE  driver' \in DriverType
<1>1. driver \in DriverType
    BY DEF FileInv
<1>2. [driver EXCEPT !.append = f, !.read = FALSE] \in DriverType
    BY <1>1 DEF DriverType
<1> QED BY <1>1, <1>2 DEF selectAppendFile

\* an attempt that fails closes the stream; the third one ends the read
LEMMA FailedAttempt ==
    ASSUME FileInv, reading # NotReading, NEW n \in 0 .. 1, AttemptFails(driver, n),
           reading.offset + reading.len <= chars => n = 1,
           chars' = chars, session' = session, served' \in Nat, busFaults' \in Nat
    PROVE  FileInv'
<1>1. /\ driver \in DriverType /\ reading \in ReadingType /\ chars \in Nat /\ chars <= 2 * MaxBytes
      /\ session \in BOOLEAN /\ session = TRUE
      /\ reading.len >= 1 /\ (reading.offset + reading.len <= chars => reading.faults >= reading.attempt - 1)
    BY DEF FileInv, Attempted
<1>2. /\ reading.offset \in Nat /\ reading.len \in Nat /\ reading.attempt \in 1 .. 3 /\ reading.faults \in Nat
    BY <1>1, ReadingFields DEF Attempts
<1>3. driver' \in DriverType /\ driver'.read = FALSE
    <2>1. driver' = [driver EXCEPT !.read = FALSE, !.cache = NoCache]
        BY DEF AttemptFails
    <2>2. NoCache \in [from : Nat, pos : Nat, len : Nat]
        BY DEF NoCache
    <2> QED BY <1>1, <2>1, <2>2 DEF DriverType
<1>4. Stream'
    BY <1>3 DEF Stream
<1>5. CASE reading.attempt = Attempts
    <2>1. /\ reading' = NotReading
          /\ answer' = [ok |-> FALSE, right |-> TRUE, faults |-> reading.faults + n,
                        inFile |-> reading.offset + reading.len <= chars]
        BY <1>5 DEF AttemptFails
    <2>2. answer' \in AnswerType /\ answer'.ok = FALSE /\ answer'.faults = reading.faults + n
          /\ answer'.inFile = (reading.offset + reading.len <= chars)
        BY <1>2, <2>1 DEF AnswerType
    <2>3. reading.offset + reading.len <= chars => reading.faults + n >= 3
        BY <1>1, <1>2, <1>5 DEF Attempts
    <2>4. Answered'
        BY <2>2, <2>3 DEF Answered, ReadsAreFromFile, ReadNeedsThreeFaults, Attempts
    <2>5. Attempted'
        BY <2>1 DEF Attempted
    <2> QED BY <1>1, <1>3, <1>4, <2>4, <2>5 DEF FileInv
<1>6. CASE reading.attempt # Attempts
    <2>1. /\ reading' = [reading EXCEPT !.at = "size", !.attempt = @ + 1, !.copied = 0, !.right = TRUE, !.faults = @ + n]
          /\ answer' = answer
        BY <1>6 DEF AttemptFails
    <2>2. /\ reading'.at = "size" /\ reading'.attempt = reading.attempt + 1 /\ reading'.right = TRUE
          /\ reading'.faults = reading.faults + n /\ reading'.offset = reading.offset /\ reading'.len = reading.len
          /\ reading'.copied = 0
        BY <1>1, <2>1 DEF ReadingType
    <2>3. reading.attempt + 1 \in 1 .. Attempts /\ reading.faults + n \in Nat
        BY <1>2, <1>6 DEF Attempts
    <2>4. reading' \in ReadingType
        BY <1>1, <2>1, <2>3 DEF ReadingType
    <2>5. reading'.offset + reading'.len <= chars' => reading'.faults >= reading'.attempt - 1
        BY <1>1, <1>2, <2>2
    <2>6. reading'.at \notin {"skip", "copy"} /\ reading'.at # "open" /\ reading'.at # "skip" /\ reading'.at # "copy"
        BY <2>2
    <2>7. Attempted'
        BY <1>1, <2>2, <2>4, <2>5, <2>6 DEF Attempted
    <2>8. Answered'
        BY <2>1 DEF FileInv, Answered, ReadsAreFromFile, ReadNeedsThreeFaults
    <2> QED BY <1>1, <1>3, <1>4, <2>7, <2>8 DEF FileInv
<1> QED BY <1>5, <1>6

\* the characters of a session's open stream, as numbers
LEMMA StreamFacts ==
    ASSUME FileInv, reading # NotReading, reading.at \in {"skip", "copy"}
    PROVE  /\ driver \in DriverType /\ reading \in ReadingType /\ session = TRUE /\ driver.read = TRUE
           /\ driver.size = chars /\ served = driver.source /\ driver.source <= driver.size
           /\ driver.cache.pos <= driver.cache.len /\ Cached \in Nat
           /\ driver.source = driver.client + Cached
           /\ Cached > 0 => driver.cache.from # Lost /\ driver.cache.from + driver.cache.pos = driver.client
           /\ served # Lost
<1>1. driver \in DriverType /\ reading \in ReadingType /\ session = TRUE /\ driver.read = TRUE
      /\ chars \in Nat /\ chars <= 2 * MaxBytes
    BY DriverFields DEF FileInv, Attempted
<1>2. /\ driver.size = chars /\ served = driver.source /\ driver.source <= driver.size
      /\ driver.cache.pos <= driver.cache.len
      /\ driver.source = driver.client + (driver.cache.len - driver.cache.pos)
      /\ driver.cache.pos < driver.cache.len =>
              driver.cache.from # Lost /\ driver.cache.from + driver.cache.pos = driver.client
    BY <1>1 DEF FileInv, Stream
<1>3. Cached \in Nat /\ driver.source = driver.client + Cached /\ (Cached > 0 => driver.cache.pos < driver.cache.len)
    BY <1>1, <1>2, DriverFields DEF Cached
<1>4. served # Lost
    BY <1>1, <1>2, OpenLogAssumption, DriverFields DEF Lost
<1> QED BY <1>1, <1>2, <1>3, <1>4

\* characters taken from the cache
LEMMA AdvancedStream ==
    ASSUME FileInv, reading # NotReading, reading.at \in {"skip", "copy"}, NEW n \in Nat, n <= Cached,
           driver' = Advanced(n), UNCHANGED <<chars, served, session>>
    PROVE  /\ driver' \in DriverType /\ driver'.client = driver.client + n /\ driver'.read = TRUE
           /\ Stream'
<1>1. driver \in DriverType
    BY DEF FileInv
<1>2. /\ driver'.read = driver.read /\ driver'.size = driver.size /\ driver'.source = driver.source
      /\ driver'.client = driver.client + n /\ driver'.cache.from = driver.cache.from
      /\ driver'.cache.pos = driver.cache.pos + n /\ driver'.cache.len = driver.cache.len
    BY <1>1 DEF Advanced, DriverType
<1>3. driver' \in DriverType
    <2>1. driver.client + n \in Nat /\ driver.cache.pos + n \in Nat
        BY <1>1, DriverFields
    <2> QED BY <1>1, <2>1 DEF Advanced, DriverType
<1>4. /\ driver.size = chars /\ served = driver.source /\ driver.source <= driver.size
      /\ driver.cache.pos + n <= driver.cache.len
      /\ driver.source = (driver.client + n) + (driver.cache.len - (driver.cache.pos + n))
      /\ driver.cache.pos + n < driver.cache.len =>
             driver.cache.from # Lost /\ driver.cache.from + (driver.cache.pos + n) = driver.client + n
    <2>1. /\ driver.size \in Nat /\ driver.source \in Nat /\ driver.client \in Nat
          /\ driver.cache.from \in Nat /\ driver.cache.pos \in Nat /\ driver.cache.len \in Nat
        BY <1>1, DriverFields
    <2>2. /\ driver.size = chars /\ served = driver.source /\ driver.source <= driver.size
          /\ driver.cache.pos <= driver.cache.len /\ driver.source = driver.client + Cached
        BY StreamFacts
    <2>3. Cached > 0 => driver.cache.from # Lost /\ driver.cache.from + driver.cache.pos = driver.client
        BY StreamFacts
    <2>4. Cached = driver.cache.len - driver.cache.pos
        BY DEF Cached
    <2>5. driver.cache.pos + n < driver.cache.len => Cached > 0
        BY <2>1, <2>4
    <2>6. /\ driver.cache.pos + n <= driver.cache.len
          /\ driver.source = (driver.client + n) + (driver.cache.len - (driver.cache.pos + n))
        BY <2>1, <2>2, <2>4
    <2>7. driver.cache.from + driver.cache.pos = driver.client
             => driver.cache.from + (driver.cache.pos + n) = driver.client + n
        BY <2>1
    <2> QED BY <2>2, <2>3, <2>5, <2>6, <2>7
<1>5. Stream'
    BY <1>2, <1>4 DEF Stream, Lost
<1> QED BY <1>2, <1>3, <1>5, StreamFacts

LEMMA LesserOf == ASSUME NEW a \in Nat, NEW b \in Nat
                  PROVE  /\ Lesser(a, b) \in Nat /\ Lesser(a, b) <= a /\ Lesser(a, b) <= b
                         /\ (a > 0 /\ b > 0 => Lesser(a, b) > 0)
BY DEF Lesser

LEMMA FileStep ==
    ASSUME FileInv, [FileNext]_fileVars
    PROVE  FileInv'
<1>0. /\ chars \in Nat /\ chars <= 2 * MaxBytes /\ served \in Nat /\ busFaults \in Nat /\ session \in BOOLEAN
      /\ driver \in DriverType /\ Answered /\ Attempted /\ Stream
    BY DEF FileInv
<1>a. Lost \in Nat /\ MaxBytes \in Nat /\ CacheSize \in Nat /\ CacheSize > 0
    BY OpenLogAssumption DEF Lost
<1>b. reading # NotReading => reading \in ReadingType
    BY <1>0 DEF Attempted
<1>c. answer' = answer => Answered'
    BY <1>0 DEF Answered, ReadsAreFromFile, ReadNeedsThreeFaults
<1>d. \A x \in {"size", "open", "skip", "copy"} : reading.at = x => reading # NotReading
    BY DEF NotReading
<1>1. CASE \E own \in BOOLEAN : fileSize(own)
    <2>1. PICK own \in BOOLEAN : fileSize(own)
        BY <1>1
    <2>2. /\ reading = NotReading /\ driver' = [driver EXCEPT !.read = FALSE, !.append = "none"] /\ served' = Lost
          /\ session' = (own /\ chars % 2 = 0) /\ UNCHANGED <<chars, reading, answer, busFaults>>
        BY <2>1 DEF fileSize, CardIdle
    <2>3. driver' \in DriverType /\ driver'.read = FALSE
        BY <1>0, <2>2 DEF DriverType
    <2>4. session' \in BOOLEAN
        BY <2>2
    <2> QED BY <1>0, <1>a, <2>2, <2>3, <2>4, BetweenReads
<1>2. CASE fileSizeFails
    <2>1. /\ reading = NotReading /\ busFaults' = busFaults + 1 /\ served' \in {served, Lost} /\ session' = FALSE
          /\ UNCHANGED <<chars, driver, reading, answer>>
        BY <1>2 DEF fileSizeFails, CardIdle, BusFault
    <2>n. busFaults' \in Nat /\ served' \in Nat /\ chars' \in Nat /\ chars' <= 2 * MaxBytes
        BY <1>0, <1>a, <2>1
    <2>s. session' \in BOOLEAN /\ driver' \in DriverType /\ (session' /\ driver'.read => FALSE)
        BY <1>0, <1>a, <2>1
    <2> QED BY <2>1, <2>n, <2>s, BetweenReads
<1>3. ASSUME NEW f \in {"CONFIG", "EVENTS"}, appendTo(f)
      PROVE  FileInv'
    <2>1. /\ reading = NotReading /\ served' = Lost /\ session' = FALSE /\ UNCHANGED <<reading, answer, busFaults>>
        BY <1>3 DEF appendTo, CardIdle
    <2>2. chars' \in Nat /\ chars' <= 2 * MaxBytes
        BY <1>0, <1>3 DEF appendTo
    <2>3. driver' \in DriverType
        BY <1>3, SelectAppend DEF appendTo
    <2> QED BY <1>0, <1>a, <2>1, <2>2, <2>3, BetweenReads
<1>4. ASSUME NEW f \in {"CONFIG", "EVENTS"}, appendFails(f)
      PROVE  FileInv'
    <2>1. /\ reading = NotReading /\ served' \in {served, Lost} /\ session' = FALSE /\ UNCHANGED <<reading, answer>>
          /\ busFaults' = busFaults + 1
        BY <1>4 DEF appendFails, CardIdle, BusFault
    <2>2. chars' \in Nat /\ chars' <= 2 * MaxBytes
        BY <1>0, <1>a, <1>4 DEF appendFails
    <2>3. driver' \in DriverType
        BY <1>0, <1>4, SelectAppend DEF appendFails
    <2>n. busFaults' \in Nat /\ served' \in Nat /\ chars' \in Nat /\ chars' <= 2 * MaxBytes
        BY <1>0, <1>a, <2>1, <2>2, <2>3
    <2>s. session' \in BOOLEAN /\ driver' \in DriverType /\ (session' /\ driver'.read => FALSE)
        BY <1>0, <1>a, <2>1, <2>2, <2>3
    <2> QED BY <2>1, <2>n, <2>s, BetweenReads
<1>5. CASE \E ok \in BOOLEAN : sync(ok)
    <2>1. /\ reading = NotReading /\ session' = FALSE /\ UNCHANGED <<chars, served, driver, reading, answer>>
          /\ busFaults' = busFaults \/ busFaults' = busFaults + 1
        BY <1>5 DEF sync, CardIdle, BusFault
    <2>n. busFaults' \in Nat /\ served' \in Nat /\ chars' \in Nat /\ chars' <= 2 * MaxBytes
        BY <1>0, <2>1
    <2>s. session' \in BOOLEAN /\ driver' \in DriverType /\ (session' /\ driver'.read => FALSE)
        BY <1>0, <2>1
    <2> QED BY <2>1, <2>n, <2>s, BetweenReads
<1>6. ASSUME NEW b \in 0 .. MaxBytes - 1, NEW n \in 1 .. 2, readAt(b, n)
      PROVE  FileInv'
    <2>1. /\ session = TRUE /\ UNCHANGED <<chars, served, driver, session, answer, busFaults>>
          /\ reading' = [at |-> IF Opens(2 * b) THEN "size" ELSE "skip", offset |-> 2 * b, len |-> 2 * n,
                         copied |-> 0, attempt |-> 1, right |-> TRUE, faults |-> 0]
        BY <1>0, <1>6 DEF readAt
    <2>2. 2 * b \in Nat /\ 2 * n \in Nat /\ 2 * n >= 1 /\ 1 \in 1 .. Attempts
        BY <1>a DEF Attempts
    <2>3. /\ reading'.at = (IF Opens(2 * b) THEN "size" ELSE "skip") /\ reading'.offset = 2 * b /\ reading'.len = 2 * n
          /\ reading'.copied = 0 /\ reading'.attempt = 1 /\ reading'.right = TRUE /\ reading'.faults = 0
        BY <2>1
    <2>4. reading' \in ReadingType
        BY <2>1, <2>2 DEF ReadingType
    <2>5. ~Opens(2 * b) => driver.read /\ driver.client <= 2 * b
        BY <1>0, <2>2, DriverFields DEF Opens
    <2>6. /\ reading'.at # "open" /\ reading'.at # "copy"
          /\ reading'.at = "skip" => ~Opens(2 * b)
        BY <2>3
    <2>7. Attempted'
        BY <2>1, <2>2, <2>3, <2>4, <2>5, <2>6 DEF Attempted
    <2>8. Stream'
        BY <1>0, <2>1 DEF Stream, Lost
    <2> QED BY <1>0, <1>c, <2>1, <2>7, <2>8 DEF FileInv
<1>7. CASE beginReadSize
    <2>1. /\ reading.at = "size" /\ reading # NotReading /\ reading \in ReadingType /\ chars' = chars /\ session' = session
        BY <1>7, <1>b, <1>d DEF beginReadSize
    <2>2. CASE /\ driver' = [driver EXCEPT !.read = FALSE, !.append = "none", !.size = chars] /\ served' = Lost
               /\ reading' = [reading EXCEPT !.at = "open"] /\ answer' = answer /\ busFaults' = busFaults
        <3>1. driver' \in DriverType /\ driver'.read = FALSE /\ driver'.size = chars
            BY <1>0, <2>2 DEF DriverType
        <3>2. /\ reading' \in ReadingType /\ reading'.at = "open" /\ reading'.offset = reading.offset
              /\ reading'.copied = reading.copied
              /\ reading'.len = reading.len /\ reading'.right = reading.right
              /\ reading'.attempt = reading.attempt /\ reading'.faults = reading.faults
            BY <2>1, <2>2 DEF ReadingType
        <3>3. Attempted'
            BY <1>0, <2>1, <3>1, <3>2 DEF Attempted
        <3>4. Stream'
            BY <3>1 DEF Stream
        <3> QED BY <1>0, <1>a, <1>c, <2>1, <2>2, <3>1, <3>3, <3>4 DEF FileInv
    <2>3. CASE BusFault /\ served' \in {served, Lost} /\ AttemptFails(driver, 1)
        <3>1. served' \in Nat /\ busFaults' \in Nat /\ 1 \in 0 .. 1
            BY <1>0, <1>a, <2>3 DEF BusFault
        <3> QED BY <2>1, <2>3, <3>1, FailedAttempt
    <2> QED BY <1>7, <2>2, <2>3 DEF beginReadSize
<1>8. CASE beginReadOpen
    <2>1. /\ reading.at = "open" /\ reading # NotReading /\ reading \in ReadingType /\ chars' = chars /\ session' = session
        BY <1>8, <1>b, <1>d DEF beginReadOpen
    <2>2. CASE /\ served' = 0
               /\ driver' = [driver EXCEPT !.read = TRUE, !.append = "none", !.source = 0, !.client = 0, !.cache = NoCache]
               /\ reading' = [reading EXCEPT !.at = "skip"] /\ answer' = answer /\ busFaults' = busFaults
        <3>0. NoCache \in [from : Nat, pos : Nat, len : Nat] /\ NoCache.from = 0 /\ NoCache.pos = 0 /\ NoCache.len = 0
            BY DEF NoCache
        <3>1. driver' \in DriverType
            BY <1>0, <2>2, <3>0 DEF DriverType
        <3>2. /\ driver'.read = TRUE /\ driver'.size = driver.size /\ driver'.source = 0 /\ driver'.client = 0
              /\ driver'.cache = NoCache
            BY <1>0, <2>2 DEF DriverType
        <3>3. /\ reading' \in ReadingType /\ reading'.at = "skip" /\ reading'.offset = reading.offset
              /\ reading'.len = reading.len /\ reading'.right = reading.right
              /\ reading'.attempt = reading.attempt /\ reading'.faults = reading.faults
            BY <2>1, <2>2 DEF ReadingType
        <3>4. driver.size = chars
            BY <1>0, <2>1 DEF Attempted
        <3>5. reading'.copied = 0 /\ 0 <= reading.offset
            <4>1. reading'.copied = reading.copied /\ reading.copied = 0
                BY <1>0, <2>1, <2>2 DEF ReadingType, Attempted
            <4> QED BY <2>1, <4>1, ReadingFields
        <3>6. Attempted'
            BY <1>0, <2>1, <3>2, <3>3, <3>5 DEF Attempted
        <3>7. Stream'
            BY <1>0, <2>1, <2>2, <3>0, <3>2, <3>4 DEF Stream
        <3> QED BY <1>0, <1>a, <1>c, <2>1, <2>2, <3>1, <3>6, <3>7 DEF FileInv
    <2>3. CASE chars = 0 /\ AttemptFails(driver, 0) /\ UNCHANGED <<served, busFaults>>
        <3>1. ~(reading.offset + reading.len <= chars)
            BY <1>0, <2>1, <2>3, ReadingFields DEF Attempted
        <3>2. 0 \in 0 .. 1
            OBVIOUS
        <3> QED BY <1>0, <2>1, <2>3, <3>1, <3>2, FailedAttempt
    <2>4. CASE BusFault /\ served' \in {served, Lost, 0} /\ AttemptFails(driver, 1)
        <3>1. served' \in Nat /\ busFaults' \in Nat /\ 1 \in 0 .. 1
            BY <1>0, <1>a, <2>4 DEF BusFault
        <3> QED BY <2>1, <2>4, <3>1, FailedAttempt
    <2> QED BY <1>8, <2>2, <2>3, <2>4 DEF beginReadOpen
<1>9. CASE fillReadCache
    <2>1. /\ reading.at \in {"skip", "copy"} /\ Cached = 0 /\ chars' = chars /\ session' = session
          /\ IF reading.at = "skip" THEN driver.client < reading.offset ELSE reading.copied < reading.len
        BY <1>9 DEF fillReadCache
    <2>2. reading # NotReading
        BY <1>d, <2>1
    <2>3. /\ reading \in ReadingType /\ session = TRUE /\ driver.read = TRUE
          /\ driver.size = chars /\ served = driver.source /\ driver.source <= driver.size
          /\ driver.source = driver.client + Cached /\ served # Lost
        BY <2>1, <2>2, StreamFacts
    <2>4. /\ driver.size \in Nat /\ driver.source \in Nat /\ driver.client \in Nat
          /\ reading.offset \in Nat /\ reading.len \in Nat /\ reading.copied \in Nat
        BY <1>0, <2>3, DriverFields, ReadingFields
    <2>5. driver.source = driver.client
        BY <2>1, <2>3, <2>4
    <2>6. CASE driver.source < driver.size
        <3>1. driver.size - driver.source \in Nat /\ driver.size - driver.source > 0
            BY <2>4, <2>6
        <3>2. /\ CacheLen \in Nat /\ CacheLen > 0 /\ CacheLen <= driver.size - driver.source
            BY <1>a, <3>1, LesserOf DEF CacheLen
        <3> DEFINE c == CacheLen
        <3> HIDE DEF c
        <3>3. c \in Nat /\ c > 0 /\ driver.source + c \in Nat /\ driver.source + c <= driver.size
            BY <2>4, <3>2 DEF c
        <3>4. \A x \in Nat : Moved(x) = driver.source + x /\ Moved(x) \in Nat
            BY <2>3, <2>4 DEF Moved
        <3>5. CASE /\ driver' = [driver EXCEPT !.source = @ + CacheLen, !.cache = [from |-> served, pos |-> 0, len |-> CacheLen]]
                   /\ served' = Moved(CacheLen) /\ UNCHANGED <<reading, answer, busFaults>>
            <4>1. driver' = [driver EXCEPT !.source = @ + c, !.cache = [from |-> served, pos |-> 0, len |-> c]]
                  /\ served' = driver.source + c
                BY <3>3, <3>4, <3>5 DEF c
            <4>2. [from |-> served, pos |-> 0, len |-> c] \in [from : Nat, pos : Nat, len : Nat]
                BY <1>0, <3>3
            <4>3. driver' \in DriverType
                BY <1>0, <3>3, <4>1, <4>2 DEF DriverType
            <4>4. /\ driver'.read = driver.read /\ driver'.size = driver.size /\ driver'.source = driver.source + c
                  /\ driver'.client = driver.client /\ driver'.cache = [from |-> served, pos |-> 0, len |-> c]
                BY <1>0, <4>1 DEF DriverType
            <4>5. driver'.cache.from = driver.source /\ driver'.cache.pos = 0 /\ driver'.cache.len = c
                BY <2>3, <4>4
            <4>6. Stream'
                BY <2>1, <2>3, <2>4, <2>5, <3>3, <4>1, <4>4, <4>5 DEF Stream, Lost
            <4>7. Attempted'
                BY <1>0, <2>1, <3>5, <4>4 DEF Attempted
            <4> QED BY <1>0, <1>c, <2>1, <2>4, <3>3, <3>5, <4>1, <4>3, <4>6, <4>7 DEF FileInv
        <3>6. CASE BusFault /\ (\E x \in {0, 1, CacheLen} : served' = Moved(x)) /\ AttemptFails(driver, 1)
            <4>1. served' \in Nat /\ busFaults' \in Nat /\ 1 \in 0 .. 1
                BY <1>0, <3>2, <3>4, <3>6 DEF BusFault
            <4> QED BY <2>1, <2>2, <3>6, <4>1, FailedAttempt
        <3> QED BY <1>9, <2>4, <2>6, <3>5, <3>6 DEF fillReadCache
    <2>7. CASE ~(driver.source < driver.size)
        <3>1. AttemptFails(driver, 0) /\ UNCHANGED <<served, busFaults>>
            BY <1>9, <2>7 DEF fillReadCache
        <3>2. driver.client = chars
            BY <2>3, <2>4, <2>5, <2>7
        <3>3. ~(reading.offset + reading.len <= chars)
            <4>1. CASE reading.at = "skip"
                BY <1>0, <2>1, <2>4, <3>2, <4>1
            <4>2. CASE reading.at = "copy"
                <5>1. driver.client = reading.offset + reading.copied
                    BY <1>0, <2>2, <4>2 DEF Attempted
                <5> QED BY <1>0, <2>1, <2>4, <3>2, <4>2, <5>1
            <4> QED BY <2>1, <4>1, <4>2
        <3>4. 0 \in 0 .. 1
            OBVIOUS
        <3> QED BY <1>0, <2>1, <2>2, <3>1, <3>3, <3>4, FailedAttempt
    <2> QED BY <2>6, <2>7
<1>10. CASE skipTo
    <2>1. /\ reading.at = "skip" /\ reading # NotReading /\ UNCHANGED <<chars, served, session, answer, busFaults>>
        BY <1>10, <1>d DEF skipTo
    <2>2. /\ reading \in ReadingType /\ session = TRUE /\ driver.read = TRUE /\ Cached \in Nat
          /\ driver.client \in Nat /\ reading.offset \in Nat
        BY <1>0, <2>1, StreamFacts, DriverFields, ReadingFields
    <2>3. CASE driver.client < reading.offset
        <3> DEFINE n == Lesser(reading.offset - driver.client, Cached)
        <3>1. driver' = Advanced(n) /\ reading' = reading
            BY <1>10, <2>3 DEF skipTo
        <3>2. n \in Nat /\ n <= Cached /\ n <= reading.offset - driver.client
            <4>1. reading.offset - driver.client \in Nat
                BY <2>2, <2>3
            <4> QED BY <2>2, <4>1, LesserOf
        <3> HIDE DEF n
        <3>3. driver' \in DriverType /\ driver'.client = driver.client + n /\ driver'.read = TRUE /\ Stream'
            BY <2>1, <3>1, <3>2, AdvancedStream
        <3>4. driver.client + n <= reading.offset
            BY <2>2, <3>2
        <3>5. Attempted'
            BY <1>0, <2>1, <3>1, <3>3, <3>4 DEF Attempted
        <3> QED BY <1>0, <1>c, <2>1, <3>3, <3>5 DEF FileInv
    <2>4. CASE ~(driver.client < reading.offset)
        <3>1. reading' = [reading EXCEPT !.at = "copy"] /\ driver' = driver
            BY <1>10, <2>4 DEF skipTo
        <3>2. /\ reading' \in ReadingType /\ reading'.at = "copy" /\ reading'.offset = reading.offset
              /\ reading'.len = reading.len /\ reading'.right = reading.right /\ reading'.copied = reading.copied
              /\ reading'.attempt = reading.attempt /\ reading'.faults = reading.faults
            BY <2>2, <3>1 DEF ReadingType
        <3>3. driver.client = reading.offset + reading.copied /\ reading.copied <= reading.len
            BY <1>0, <2>1, <2>2, <2>4, ReadingFields DEF Attempted
        <3>4. Attempted'
            BY <1>0, <2>1, <2>2, <3>1, <3>2, <3>3 DEF Attempted
        <3>5. Stream'
            BY <1>0, <2>1, <3>1 DEF Stream, Lost
        <3> QED BY <1>0, <1>c, <2>1, <3>1, <3>4, <3>5 DEF FileInv
    <2> QED BY <2>3, <2>4
<1>11. CASE copyOut
    <2>1. /\ reading.at = "copy" /\ reading # NotReading /\ UNCHANGED <<chars, served, session, busFaults>>
        BY <1>11, <1>d DEF copyOut
    <2>2. /\ reading \in ReadingType /\ session = TRUE /\ driver.read = TRUE /\ Cached \in Nat
          /\ driver.source = driver.client + Cached /\ driver.source <= driver.size /\ driver.size = chars
          /\ Cached > 0 => driver.cache.from # Lost /\ driver.cache.from + driver.cache.pos = driver.client
        BY <2>1, StreamFacts
    <2>3. /\ driver.client \in Nat /\ driver.source \in Nat /\ reading.offset \in Nat /\ reading.len \in Nat
          /\ reading.copied \in Nat /\ reading.faults \in Nat
        BY <1>0, <2>2, DriverFields, ReadingFields
    <2>4. /\ reading.right = TRUE /\ reading.copied <= reading.len /\ driver.client = reading.offset + reading.copied
        BY <1>0, <2>1 DEF Attempted
    <2>5. CASE reading.copied < reading.len
        <3> DEFINE n == Lesser(reading.len - reading.copied, Cached)
                   r == driver.cache.from # Lost /\ driver.cache.from + driver.cache.pos = driver.client
        <3>1. /\ Cached > 0 /\ driver' = Advanced(n) /\ answer' = answer
              /\ reading' = [reading EXCEPT !.copied = @ + n, !.right = @ /\ driver.cache.from # Lost
                                             /\ driver.cache.from + driver.cache.pos = driver.client]
            BY <1>11, <2>5 DEF copyOut
        <3>2. n \in Nat /\ n <= Cached /\ n <= reading.len - reading.copied
            <4>1. reading.len - reading.copied \in Nat
                BY <2>3, <2>5
            <4> QED BY <2>2, <4>1, LesserOf
        <3> HIDE DEF n
        <3>3. driver' \in DriverType /\ driver'.client = driver.client + n /\ driver'.read = TRUE /\ Stream'
            BY <2>1, <3>1, <3>2, AdvancedStream
        <3>4. reading' = [reading EXCEPT !.copied = reading.copied + n, !.right = TRUE]
            BY <2>2, <2>4, <3>1
        <3>5. /\ reading'.at = "copy" /\ reading'.offset = reading.offset
              /\ reading'.len = reading.len /\ reading'.right = TRUE /\ reading'.copied = reading.copied + n
              /\ reading'.attempt = reading.attempt /\ reading'.faults = reading.faults
            BY <2>1, <2>2, <3>4 DEF ReadingType
        <3>6. reading.copied + n \in Nat /\ reading.copied + n <= reading.len
              /\ driver.client + n = reading.offset + (reading.copied + n)
            BY <2>3, <2>4, <3>2
        <3>7. reading' \in ReadingType
            BY <2>2, <3>4, <3>6 DEF ReadingType
        <3>8. Attempted'
            BY <1>0, <2>1, <2>2, <3>3, <3>5, <3>6, <3>7 DEF Attempted
        <3> QED BY <1>0, <1>c, <2>1, <3>1, <3>3, <3>8 DEF FileInv
    <2>6. CASE ~(reading.copied < reading.len)
        <3>1. /\ reading' = NotReading /\ driver' = driver
              /\ answer' = [ok |-> TRUE, right |-> reading.right, faults |-> reading.faults,
                            inFile |-> reading.offset + reading.len <= chars]
            BY <1>11, <2>6 DEF copyOut, Finish
        <3>2. reading.offset + reading.len <= chars
            BY <1>0, <2>2, <2>3, <2>4, <2>6
        <3>3. answer' \in AnswerType /\ answer'.ok = TRUE /\ answer'.right = TRUE /\ answer'.inFile = TRUE
            BY <2>3, <2>4, <3>1, <3>2 DEF AnswerType
        <3>4. Answered'
            BY <3>3 DEF Answered, ReadsAreFromFile, ReadNeedsThreeFaults
        <3>5. Attempted'
            BY <3>1 DEF Attempted
        <3>6. Stream'
            BY <1>0, <2>1, <3>1 DEF Stream, Lost
        <3> QED BY <1>0, <2>1, <3>1, <3>4, <3>5, <3>6 DEF FileInv
    <2> QED BY <2>5, <2>6
<1>12. CASE UNCHANGED fileVars
    <2>1. UNCHANGED <<chars, served, driver, reading, session, answer, busFaults>>
        BY <1>12 DEF fileVars
    <2> QED BY <1>0, <1>c, <2>1 DEF FileInv, Stream, Attempted, Lost
<1> QED BY <1>1, <1>2, <1>3, <1>4, <1>5, <1>6, <1>7, <1>8, <1>9, <1>10, <1>11, <1>12 DEF FileNext

(***************************************************************************)
(* For any cache size, file size and number of bus faults: a read that      *)
(* succeeds returned the file's characters at the offset asked for, and a   *)
(* read of characters the file has fails only after three faults            *)
(* (readAt, fillReadCache and beginRead of qwiic_openlog.cpp).              *)
(***************************************************************************)
THEOREM ReadsAreRight == FileSpec => [](ReadsAreFromFile /\ ReadNeedsThreeFaults)
<1>1. FileInit => FileInv
    <2> SUFFICES ASSUME FileInit PROVE FileInv
        OBVIOUS
    <2>1. Lost \in Nat /\ 0 <= 2 * MaxBytes
        BY OpenLogAssumption DEF Lost
    <2>2. NoCache \in [from : Nat, pos : Nat, len : Nat]
        BY DEF NoCache
    <2>3. driver \in DriverType
        BY <2>2 DEF FileInit, DriverType
    <2>4. answer \in AnswerType /\ answer.ok = TRUE /\ answer.right = TRUE /\ answer.inFile = TRUE
        BY DEF FileInit, NoAnswer, AnswerType
    <2>5. session = FALSE /\ reading = NotReading /\ chars = 0 /\ served = Lost /\ busFaults = 0
        BY DEF FileInit
    <2> QED BY <2>1, <2>3, <2>4, <2>5
            DEF FileInv, Stream, Attempted, Answered, ReadsAreFromFile, ReadNeedsThreeFaults
<1>2. FileInv /\ [FileNext]_fileVars => FileInv'
    BY FileStep
<1>3. FileInv => ReadsAreFromFile /\ ReadNeedsThreeFaults
    BY DEF FileInv, Answered
<1> QED BY <1>1, <1>2, <1>3, PTL DEF FileSpec

-----------------------------------------------------------------------------
(***************************************************************************)
(* The storage pass.                                                        *)
(***************************************************************************)
\* toggles are counted, samples are bounded, and a session without a failure is
\* the one the requests heard so far ask for
PassInv ==
    /\ toggles \in Nat /\ completed \in Nat /\ whole \in Nat /\ fails \in Nat /\ rowsLeft \in Nat
    /\ started \in BOOLEAN /\ recording \in BOOLEAN /\ held \in BOOLEAN /\ intended \in BOOLEAN
    /\ intact \in BOOLEAN
    /\ completed <= whole /\ whole <= MaxSamples
    /\ ~held => ~started
    /\ fails = 0 /\ ~held => (toggles % 2 = 0 <=> (recording <=> intended))
    /\ fails = 0 /\ rowsLeft > 0 => intact

LEMMA Parity == ASSUME NEW n \in Nat
                PROVE  /\ n % 2 = 0 \/ n % 2 = 1
                       /\ n % 2 = 0 <=> (n + 1) % 2 = 1
BY SMT

LEMMA PassStep ==
    ASSUME PassInv, [PassNext]_passVars
    PROVE  PassInv'
<1> USE DEF PassInv
<1>0. MaxSamples \in Nat
    BY StorageBounds
<1>1. CASE PressToggle
    <2>1. toggles' = toggles + 1 /\ UNCHANGED <<started, held, fails, captureVars>>
        BY <1>1 DEF PressToggle
    <2>2. intended' \in BOOLEAN /\ (intended' <=> ~intended)
        BY <1>1 DEF PressToggle
    <2>3. toggles' \in Nat /\ (toggles' % 2 = 0 <=> ~(toggles % 2 = 0))
        BY <2>1, Parity
    <2> QED BY <2>1, <2>2, <2>3 DEF captureVars
<1>2. CASE HoldStart
    BY <1>2 DEF HoldStart, captureVars, waitingVars
<1>3. CASE RequestCommit \/ ReportEvent \/ ChangeDisplay
    BY <1>3 DEF RequestCommit, ReportEvent, ChangeDisplay, requestVars, captureVars
<1>4. CASE CommitPass
    BY <1>4 DEF CommitPass, requestVars
<1>5. CASE MarkerPass
    <2>1. PICK ok \in BOOLEAN : Outcome(ok) /\ recording' = (~recording /\ ok)
        BY <1>5 DEF MarkerPass
    <2>2. /\ toggles' = 0 /\ started' = FALSE /\ held' = held /\ intended' = intended /\ rowsLeft' = 0
          /\ intact' = intact /\ Acts
          /\ (completed' = completed /\ whole' = whole) \/ (completed' = 0 /\ whole' = 0)
        BY <1>5 DEF MarkerPass, Heard
    <2>3. fails' \in Nat /\ (fails' = 0 => fails = 0 /\ ok)
        BY <2>1 DEF Outcome
    <2>4. recording' \in BOOLEAN /\ (recording' <=> ~recording /\ ok)
        BY <2>1
    <2>5. fails' = 0 /\ ~held' => toggles % 2 = 1
        BY <2>2, <2>3 DEF Acts
    <2>6. toggles' % 2 = 0
        BY <2>2, Parity
    <2>7. fails' = 0 /\ ~held' => (recording' <=> intended')
        BY <2>2, <2>3, <2>4, <2>5
    <2>8. /\ toggles' \in Nat /\ completed' \in Nat /\ whole' \in Nat /\ rowsLeft' \in Nat
          /\ completed' <= whole' /\ whole' <= MaxSamples
        BY <1>0, <2>2
    <2>9. started' \in BOOLEAN /\ held' \in BOOLEAN /\ intended' \in BOOLEAN /\ intact' \in BOOLEAN
        BY <2>2
    <2>10. /\ ~held' => ~started'
           /\ ~(rowsLeft' > 0)
        BY <2>2
    <2> QED BY <2>3, <2>4, <2>6, <2>7, <2>8, <2>9, <2>10
<1>6. CASE RowPass
    <2>1. Heard /\ ~Acts /\ RowDue
        BY <1>6 DEF RowPass
    <2>2. PICK n \in 2..MaxRows, ok \in BOOLEAN, landed \in BOOLEAN :
            LET fresh == rowsLeft = 0
                before == IF fresh THEN n ELSE rowsLeft
                there == (fresh \/ intact) /\ landed
                last == before = 1
                good == ok /\ (last => SampleCounts(there))
            IN  /\ fresh \/ n = 2
                /\ Outcome(ok /\ landed)
                /\ intact' = there
                /\ recording' = good
                /\ rowsLeft' = IF good THEN before - 1 ELSE 0
                /\ completed' = IF good /\ last THEN Capped(completed + 1) ELSE completed
                /\ whole' = IF last /\ there THEN Capped(whole + 1) ELSE whole
        BY <1>6 DEF RowPass
    <2> DEFINE fresh == rowsLeft = 0
               before == IF fresh THEN n ELSE rowsLeft
               there == (fresh \/ intact) /\ landed
               last == before = 1
               good == ok /\ (last => SampleCounts(there))
    <2>3. /\ Outcome(ok /\ landed)
          /\ intact' = there /\ recording' = good
          /\ rowsLeft' = IF good THEN before - 1 ELSE 0
          /\ completed' = IF good /\ last THEN Capped(completed + 1) ELSE completed
          /\ whole' = IF last /\ there THEN Capped(whole + 1) ELSE whole
        BY <2>2
    <2>4. before \in Nat /\ before >= 1 /\ there \in BOOLEAN /\ good \in BOOLEAN
        BY DEF SampleCounts
    <2>5. rowsLeft' \in Nat /\ intact' \in BOOLEAN /\ recording' \in BOOLEAN
        BY <2>3, <2>4
    <2>6. (good /\ last) => there
        BY DEF SampleCounts
    <2>7. fails' \in Nat /\ (fails' = 0 => fails = 0 /\ ok /\ landed)
        BY <2>3 DEF Outcome
    <2>8. fails' = 0 => there /\ good
        BY <2>1, <2>7 DEF SampleCounts
    <2>9. toggles' = 0 /\ started' = FALSE /\ held' = held /\ intended' = intended
        BY <2>1 DEF Heard
    <2> HIDE DEF before, there, last, good
    <2>10. /\ completed' \in Nat /\ whole' \in Nat /\ completed' <= whole' /\ whole' <= MaxSamples
        BY <1>0, <2>3, <2>6 DEF Capped
    <2>11. fails' = 0 /\ ~held' => (toggles' % 2 = 0 <=> (recording' <=> intended'))
        <3>1. recording' <=> good
            BY <2>3
        <3>2. toggles % 2 = 0 /\ toggles' % 2 = 0 /\ recording
            BY <2>1, <2>9, Parity DEF Acts, RowDue
        <3> QED BY <2>7, <2>8, <2>9, <3>1, <3>2
    <2> QED BY <2>3, <2>5, <2>7, <2>8, <2>9, <2>10, <2>11
<1>7. CASE LogPass \/ DisplayPass \/ IdlePass
    <2>1. /\ toggles' = 0 /\ started' = FALSE /\ held' = held /\ intended' = intended /\ ~Acts
          /\ UNCHANGED <<recording, rowsLeft, completed, intact, whole>>
        BY <1>7 DEF LogPass, DisplayPass, IdlePass, Heard
    <2>2. fails' \in Nat /\ (fails' = 0 => fails = 0)
        BY <1>7 DEF LogPass, DisplayPass, IdlePass, Outcome
    <2>3. toggles % 2 = 0 /\ toggles' % 2 = 0
        BY <2>1, Parity DEF Acts
    <2> QED BY <2>1, <2>2, <2>3
<1>8. CASE UNCHANGED passVars
    BY <1>8 DEF passVars, requestVars, captureVars
<1> QED BY <1>1, <1>2, <1>3, <1>4, <1>5, <1>6, <1>7, <1>8 DEF PassNext, Pass

(***************************************************************************)
(* For any number of requests, failures, samples and rows: a sample that is *)
(* counted is on the card, and toggles that coalesce behind a commit are    *)
(* neither lost nor doubled (i2cTask of app/tasks.cpp).                     *)
(***************************************************************************)
THEOREM SamplesAreCounted == PassSpec => [](CountedSamplesAreOnCard /\ TogglesAreExact)
<1>1. PassInit => PassInv
    <2> SUFFICES ASSUME PassInit PROVE PassInv
        OBVIOUS
    <2>1. toggles % 2 = 0 /\ 0 <= MaxSamples
        BY StorageBounds, Parity DEF PassInit
    <2>2. /\ started \in BOOLEAN /\ recording \in BOOLEAN /\ held \in BOOLEAN /\ intended \in BOOLEAN
          /\ intact \in BOOLEAN /\ (recording <=> intended) /\ ~started
        BY DEF PassInit
    <2> QED BY <2>1, <2>2 DEF PassInit, PassInv
<1>2. PassInv /\ [PassNext]_passVars => PassInv'
    BY PassStep
<1>3. PassInv => CountedSamplesAreOnCard /\ TogglesAreExact
    BY DEF PassInv, CountedSamplesAreOnCard, TogglesAreExact, Settled
<1> QED BY <1>1, <1>2, <1>3, PTL DEF PassSpec

-----------------------------------------------------------------------------
(***************************************************************************)
(* What is reported was there, for every value of the constants: no gap in  *)
(* the event log, no sample counted that is not on the card, no read of      *)
(* another file's characters, no critical error shown after a lesser one    *)
(* (error_journal.cpp, event_log.cpp, qwiic_openlog.cpp, app/tasks.cpp).    *)
(***************************************************************************)
THEOREM RecordsHold == JournalSpec /\ EventLogSpec /\ FileSpec /\ PassSpec => RecordsAreTrue
BY JournalIsFair, EventsAreKept, ReadsAreRight, SamplesAreCounted, PTL DEF RecordsAreTrue

-----------------------------------------------------------------------------
(***************************************************************************)
(* The watchdog.  A live task beats in every window, so what an evaluation  *)
(* misses is hung and stays missed; until it misses a critical task the     *)
(* hardware counts at most the window and one lost feed, also between the    *)
(* two stores of an evaluation that is about to feed it, and a task that     *)
(* hangs after its beat is missed one window later.                         *)
(***************************************************************************)
Watched == CriticalTasks \cup {"Health"}
Kept == [missed : SUBSET Tasks, missedInverse : SUBSET Tasks, marked : BOOLEAN]

EvidenceTypeOK ==
    /\ hung \subseteq Tasks /\ beats \subseteq Tasks
    /\ primed \in BOOLEAN /\ armed \in BOOLEAN /\ fed \in BOOLEAN
    /\ wait \in 0 .. Window /\ dog \in 0 .. Timeout /\ stalled \in Nat
    /\ judging \in BOOLEAN /\ kept \in Kept
    /\ fatal \in [magic : BOOLEAN, body : Nat, sum : Nat] /\ writing \in 0 .. 4
    /\ snapshot \in Nat /\ crashDue \in BOOLEAN /\ verified \in BOOLEAN /\ resets \in Nat /\ captured \in Nat

ArmedInOrder == (~primed => ~armed) /\ (~armed => dog = 0 /\ stalled = 0)

MissedAreHung ==
    /\ kept.missed \subseteq hung /\ kept.missed \cap beats = {}
    /\ primed /\ wait > 0 => Tasks \ hung \subseteq beats

FedInTime ==
    "Health" \notin hung /\ kept.missed \cap CriticalTasks = {}
        => dog <= (IF judging THEN Window ELSE wait) + (IF fed THEN 0 ELSE Window)

Judging ==
    judging =>
        /\ "Health" \notin hung /\ wait = 0 /\ beats = {}
        /\ armed /\ kept.missed \cap CriticalTasks = {} => stalled <= Window

StallCounted ==
    /\ stalled # 0 => hung \cap Watched # {}
    /\ armed => wait <= dog /\ stalled <= Window + dog
    /\ armed /\ "Health" \notin hung /\ hung \cap CriticalTasks \subseteq beats => stalled <= wait

WatchInv == EvidenceTypeOK /\ ArmedInOrder /\ MissedAreHung /\ FedInTime /\ Judging /\ StallCounted

(***************************************************************************)
(* The fault record.  It is invalid while it is being written and once its  *)
(* line is acknowledged; the boots in between report what it holds, and a   *)
(* line that was seen in the file is on the card.                           *)
(***************************************************************************)
RecordSound ==
    /\ writing \in 1 .. 3 => ~fatal.magic
    /\ writing \in 2 .. 4 => fatal.body = resets + 1
    /\ writing \in 3 .. 4 => fatal.sum = fatal.body
    /\ writing = 4 => fatal.magic
    /\ writing # 0 => captured = 0
    /\ writing = 0 => fatal.body <= resets
    /\ fatal.body <= resets + 1

FiledSound ==
    /\ filed \subseteq 1 .. resets /\ acknowledged \subseteq filed
    /\ RetainedValid => fatal.body \notin acknowledged
    /\ snapshot <= resets /\ (crashDue => snapshot # 0)
    /\ verified => crashDue /\ snapshot \in filed

RecordInv == EvidenceTypeOK /\ RecordSound /\ FiledSound /\ CrashSurvives

EvidenceInv == WatchInv /\ RecordInv

LEMMA WatchdogSizes == Window \in Nat /\ Window > 0 /\ Timeout \in Nat /\ Timeout > 2 * Window
BY WatchdogBounds

\* every reset starts from the same running state
LEMMA RestartWatch == ASSUME NEW why, EvidenceTypeOK, Restart(why) PROVE WatchInv'
<1>1. /\ hung' = {} /\ beats' = {} /\ primed' = FALSE /\ armed' = FALSE /\ fed' = TRUE /\ judging' = FALSE
      /\ wait' = Window /\ dog' = 0 /\ stalled' = 0 /\ kept' = CleanKept /\ fatal' = fatal
      /\ writing' = 0 /\ resets' = resets + 1
    BY DEF Restart
<1>2. Adopted \in Nat /\ snapshot' = Adopted /\ crashDue' \in BOOLEAN /\ verified' = FALSE
    BY DEF Restart, Adopted, EvidenceTypeOK
<1>3. captured' \in Nat
    BY DEF Restart, EvidenceTypeOK
<1>4. EvidenceTypeOK'
    <2>1. kept' \in Kept
        BY <1>1 DEF CleanKept, Kept
    <2>2. primed' \in BOOLEAN /\ armed' \in BOOLEAN /\ fed' \in BOOLEAN /\ judging' \in BOOLEAN
        BY <1>1
    <2>3. /\ wait' \in 0 .. Window /\ dog' \in 0 .. Timeout /\ stalled' \in Nat /\ writing' \in 0 .. 4
          /\ hung' \subseteq Tasks /\ beats' \subseteq Tasks /\ resets' \in Nat
          /\ fatal' \in [magic : BOOLEAN, body : Nat, sum : Nat]
        BY <1>1, WatchdogSizes DEF EvidenceTypeOK
    <2> QED BY <1>2, <1>3, <2>1, <2>2, <2>3 DEF EvidenceTypeOK
<1>a. ~primed' /\ ~armed' /\ kept'.missed = {}
    BY <1>1 DEF CleanKept
<1>5. ArmedInOrder' /\ MissedAreHung' /\ StallCounted' /\ Judging'
    BY <1>1, <1>a, WatchdogSizes DEF ArmedInOrder, MissedAreHung, StallCounted, Judging
<1>6. FedInTime'
    BY <1>1, WatchdogSizes DEF FedInTime
<1> QED BY <1>4, <1>5, <1>6 DEF WatchInv

LEMMA RestartRecord ==
    ASSUME NEW why, RecordInv, Restart(why), why = "fatal" <=> writing = 4
    PROVE  RecordInv' /\ snapshot' \notin acknowledged
<1>1. EvidenceTypeOK'
    BY RestartWatch DEF RecordInv, WatchInv
<1>2. fatal' = fatal /\ filed' = filed /\ acknowledged' = acknowledged /\ ~verified' /\ resets' = resets + 1 /\ writing' = 0
    BY DEF Restart
<1>3. RecordSound'
    BY <1>1, <1>2 DEF RecordInv, RecordSound, EvidenceTypeOK
<1>4. snapshot' = IF RetainedValid THEN fatal.body ELSE 0
    BY DEF Restart, Adopted
<1>5. FiledSound' /\ snapshot' \notin acknowledged
    <2>1. filed \subseteq 1 .. resets /\ resets \in Nat /\ fatal.body \in Nat /\ fatal.body <= resets + 1
        BY DEF RecordInv, FiledSound, RecordSound, EvidenceTypeOK
    <2>2. snapshot' \notin acknowledged /\ snapshot' <= resets + 1
        BY <1>4, <2>1 DEF RecordInv, FiledSound
    <2>3. crashDue' => snapshot' # 0
        BY DEF Restart
    <2>4. RetainedValid' => fatal'.body \notin acknowledged'
        BY <1>2 DEF RecordInv, FiledSound, RetainedValid
    <2>5. filed' \subseteq 1 .. resets' /\ acknowledged' \subseteq filed'
        BY <1>2, <2>1 DEF RecordInv, FiledSound
    <2> QED BY <1>2, <2>2, <2>3, <2>4, <2>5 DEF FiledSound
<1>6. CrashSurvives'
    BY <1>2, <1>4 DEF RecordInv, RecordSound, FiledSound, CrashSurvives, RetainedValid, Running, Restart, Adopted, EvidenceTypeOK
<1> QED BY <1>1, <1>3, <1>5, <1>6 DEF RecordInv

LEMMA EvidenceStep ==
    ASSUME EvidenceInv, [EvidenceNext]_evidenceVars
    PROVE  EvidenceInv'
<1> USE WatchdogSizes DEF EvidenceInv
<1>1. CASE UNCHANGED evidenceVars
    BY <1>1 DEF evidenceVars, watchVars, bootVars, recordVars, WatchInv, RecordInv, EvidenceTypeOK, ArmedInOrder, MissedAreHung,
        FedInTime, Judging, StallCounted, RecordSound, FiledSound, CrashSurvives, RetainedValid, Running
<1>2. CASE MarkFirst \/ MarkSecond
    <2>1. /\ UNCHANGED <<watchVars, fatal, writing, bootVars, recordVars, resets, recordVars>>
          /\ kept' \in Kept /\ kept'.missed = kept.missed
        BY <1>2 DEF MarkFirst, MarkSecond, WatchInv, EvidenceTypeOK, Kept
    <2> QED BY <2>1 DEF watchVars, bootVars, recordVars, WatchInv, RecordInv, EvidenceTypeOK, ArmedInOrder, MissedAreHung,
            FedInTime, Judging, StallCounted, RecordSound, FiledSound, CrashSurvives, RetainedValid, Running
<1>3. CASE \E t \in Tasks : Hang(t)
    <2>1. PICK t \in Tasks : Hang(t)
        BY <1>3
    <2>2. RecordInv'
        BY <2>1 DEF Hang, bootVars, recordVars, RecordInv, EvidenceTypeOK, RecordSound, FiledSound, CrashSurvives, RetainedValid, Running
    <2>3. WatchInv'
        BY <2>1 DEF Hang, bootVars, recordVars, WatchInv, EvidenceTypeOK, ArmedInOrder, MissedAreHung, FedInTime, Judging, StallCounted,
            Watched, CriticalTasks, Tasks
    <2> QED BY <2>2, <2>3
<1>4. CASE EvidenceTick
    <2>0. EvidenceTypeOK'
        BY <1>4 DEF EvidenceTick, WatchInv, EvidenceTypeOK, bootVars, recordVars
    <2>1. RecordInv'
        BY <1>4, <2>0 DEF EvidenceTick, bootVars, recordVars, RecordInv, RecordSound, FiledSound, CrashSurvives, RetainedValid, Running
    <2>2. ArmedInOrder'
        BY <1>4 DEF EvidenceTick, bootVars, recordVars, WatchInv, ArmedInOrder
    <2>3. MissedAreHung'
        BY <1>4 DEF EvidenceTick, bootVars, recordVars, WatchInv, MissedAreHung, EvidenceTypeOK
    <2>4. FedInTime'
        BY <1>4 DEF EvidenceTick, bootVars, recordVars, WatchInv, FedInTime, EvidenceTypeOK, ArmedInOrder
    <2>6. Judging'
        BY <1>4 DEF EvidenceTick, WatchInv, Judging
    <2>5. StallCounted'
        BY <1>4 DEF EvidenceTick, bootVars, recordVars, WatchInv, StallCounted, EvidenceTypeOK, ArmedInOrder, Watched
    <2> QED BY <2>0, <2>1, <2>2, <2>3, <2>4, <2>5, <2>6 DEF WatchInv
<1>5. CASE evaluate
    <2>0. /\ UNCHANGED <<hung, primed, armed, dog, fed, stalled, fatal, writing, snapshot, crashDue, verified, resets, recordVars>>
          /\ "Health" \notin hung /\ ~judging /\ wait = Window /\ beats' = {} /\ wait' = 0 /\ judging' = TRUE
        BY <1>5 DEF evaluate, bootVars, Live
    <2>1. kept' \in Kept /\ kept'.missed = IF primed THEN Tasks \ beats ELSE {}
        BY <1>5 DEF evaluate, WatchInv, EvidenceTypeOK, Kept
    <2>2. EvidenceTypeOK'
        BY <2>0, <2>1 DEF WatchInv, EvidenceTypeOK, recordVars
    <2>3. RecordInv'
        BY <2>0, <2>2 DEF recordVars, RecordInv, RecordSound, FiledSound, CrashSurvives, RetainedValid, Running
    <2>4. ArmedInOrder'
        BY <2>0 DEF WatchInv, ArmedInOrder
    <2>5. MissedAreHung'
        BY <2>0, <2>1 DEF WatchInv, MissedAreHung, EvidenceTypeOK
    <2>6. kept'.missed \cap CriticalTasks = {} /\ primed => kept.missed \cap CriticalTasks = {} /\ CriticalTasks \subseteq beats
        BY <2>0, <2>1 DEF WatchInv, MissedAreHung, EvidenceTypeOK, CriticalTasks, Tasks
    <2>7. FedInTime'
        <3>1. CASE primed
            BY <2>0, <2>6, <3>1 DEF WatchInv, FedInTime, EvidenceTypeOK
        <3>2. CASE ~primed
            BY <2>0, <3>2 DEF WatchInv, FedInTime, ArmedInOrder, EvidenceTypeOK
        <3> QED BY <3>1, <3>2
    <2>8. Judging'
        BY <2>0, <2>6 DEF WatchInv, Judging, StallCounted, ArmedInOrder, EvidenceTypeOK
    <2>9. StallCounted'
        BY <2>0 DEF WatchInv, StallCounted, ArmedInOrder, EvidenceTypeOK, Watched
    <2> QED BY <2>2, <2>3, <2>4, <2>5, <2>7, <2>8, <2>9 DEF WatchInv
<1>13. CASE evaluateEnds
    <2>0. /\ UNCHANGED <<hung, beats, wait, stalled, fatal, writing, snapshot, crashDue, verified, resets, recordVars>>
          /\ judging /\ judging' = FALSE
        BY <1>13 DEF evaluateEnds, bootVars
    <2>1. kept' \in Kept /\ kept'.missed = kept.missed
        BY <1>13 DEF evaluateEnds, WatchInv, EvidenceTypeOK, Kept
    <2>2. "Health" \notin hung /\ wait = 0 /\ beats = {}
        BY <2>0 DEF WatchInv, Judging
    <2>3. CASE ~primed
        <3>1. primed' = TRUE /\ UNCHANGED <<armed, dog, fed>> /\ ~armed /\ dog = 0 /\ stalled = 0
            BY <1>13, <2>3 DEF evaluateEnds, Prime, WatchInv, ArmedInOrder
        <3>2. EvidenceTypeOK'
            BY <2>0, <2>1, <3>1 DEF WatchInv, EvidenceTypeOK, recordVars
        <3>3. RecordInv'
            BY <2>0, <3>2 DEF recordVars, RecordInv, RecordSound, FiledSound, CrashSurvives, RetainedValid, Running
        <3>4. WatchInv'
            BY <2>0, <2>1, <2>2, <3>1, <3>2 DEF WatchInv, ArmedInOrder, MissedAreHung, FedInTime, Judging, StallCounted, EvidenceTypeOK
        <3> QED BY <3>3, <3>4
    <2>4. CASE primed
        <3>1. PICK accepted \in BOOLEAN : Judge(accepted)
            BY <1>13, <2>4 DEF evaluateEnds
        <3>2. /\ accepted \/ fed
              /\ primed' = primed /\ fed' = accepted
              /\ armed' = (armed \/ (HealthyWindow(kept.missed) /\ accepted))
              /\ dog' = IF HealthyWindow(kept.missed) /\ accepted THEN 0 ELSE dog
            BY <3>1 DEF Judge
        <3>3. EvidenceTypeOK'
            <4>1. dog' \in 0 .. Timeout /\ primed' \in BOOLEAN
                BY <3>2 DEF WatchInv, EvidenceTypeOK
            <4>2. armed' \in BOOLEAN /\ fed' \in BOOLEAN
                BY <3>2 DEF WatchInv, EvidenceTypeOK
            <4> QED BY <2>0, <2>1, <4>1, <4>2 DEF WatchInv, EvidenceTypeOK, recordVars
        <3>4. RecordInv'
            BY <2>0, <3>3 DEF recordVars, RecordInv, RecordSound, FiledSound, CrashSurvives, RetainedValid, Running
        <3>5. ArmedInOrder'
            BY <2>0, <2>4, <3>2 DEF WatchInv, ArmedInOrder
        <3>6. MissedAreHung' /\ Judging'
            BY <2>0, <2>1, <2>2, <3>2 DEF WatchInv, MissedAreHung, Judging
        <3>7. FedInTime'
            BY <2>0, <2>1, <2>2, <3>2 DEF WatchInv, FedInTime, HealthyWindow, EvidenceTypeOK
        <3>8. StallCounted'
            BY <2>0, <2>1, <2>2, <3>2 DEF WatchInv, StallCounted, Judging, HealthyWindow, EvidenceTypeOK, ArmedInOrder, Watched
        <3> QED BY <3>3, <3>4, <3>5, <3>6, <3>7, <3>8 DEF WatchInv
    <2> QED BY <2>3, <2>4 DEF WatchInv, EvidenceTypeOK
<1>6. CASE WatchdogReset \/ ButtonReset
    BY <1>6, RestartWatch, RestartRecord DEF WatchdogReset, ButtonReset, Running, RecordInv
<1>7. CASE FatalFault
    <2>1. /\ UNCHANGED <<hung, beats, primed, armed, wait, dog, fed, judging, stalled, kept, snapshot, crashDue, verified, resets, filed, acknowledged>>
          /\ writing = 0 /\ writing' = 1 /\ captured' = 0 /\ fatal' = [fatal EXCEPT !.magic = FALSE]
        BY <1>7 DEF FatalFault, watchVars, bootVars, recordVars, Running
    <2>2. /\ fatal' \in [magic : BOOLEAN, body : Nat, sum : Nat] /\ ~fatal'.magic /\ fatal'.body = fatal.body
        BY <2>1 DEF RecordInv, EvidenceTypeOK
    <2>3. EvidenceTypeOK'
        BY <2>1, <2>2 DEF RecordInv, EvidenceTypeOK
    <2>4. WatchInv'
        BY <2>1, <2>3 DEF WatchInv, ArmedInOrder, MissedAreHung, FedInTime, Judging, StallCounted
    <2>5. RecordInv'
        BY <2>1, <2>2, <2>3 DEF RecordInv, EvidenceTypeOK, RecordSound, FiledSound, CrashSurvives, RetainedValid, Running
    <2> QED BY <2>4, <2>5
<1>8. CASE WriteRecord
    <2>0. /\ writing \in 1 .. 3 /\ writing' = writing + 1 /\ fatal' = WriteStep
          /\ UNCHANGED <<hung, beats, primed, armed, wait, dog, fed, judging, stalled, kept, snapshot, crashDue, verified, resets, recordVars>>
        BY <1>8 DEF WriteRecord, watchVars, bootVars
    <2>a. fatal' \in [magic : BOOLEAN, body : Nat, sum : Nat]
        <3>1. fatal \in [magic : BOOLEAN, body : Nat, sum : Nat] /\ resets + 1 \in Nat
            BY DEF RecordInv, EvidenceTypeOK
        <3>2. CASE writing = 1
            BY <2>0, <3>1, <3>2 DEF WriteStep
        <3>3. CASE writing = 2
            BY <2>0, <3>1, <3>3 DEF WriteStep
        <3>4. CASE writing = 3
            BY <2>0, <3>1, <3>4 DEF WriteStep
        <3> QED BY <2>0, <3>2, <3>3, <3>4
    <2>1. WatchInv' /\ writing \in 1 .. 3 /\ writing' = writing + 1 /\ UNCHANGED <<resets, recordVars, snapshot, crashDue, verified>>
        BY <2>0, <2>a DEF recordVars, WatchInv, EvidenceTypeOK, ArmedInOrder, MissedAreHung, FedInTime, Judging, StallCounted
    <2>2. CASE writing = 1
        BY <1>8, <2>1, <2>2 DEF WriteRecord, WriteStep, recordVars, WatchInv, RecordInv, EvidenceTypeOK, RecordSound, FiledSound,
            CrashSurvives, RetainedValid, Running
    <2>3. CASE writing = 2
        BY <1>8, <2>1, <2>3 DEF WriteRecord, WriteStep, recordVars, WatchInv, RecordInv, EvidenceTypeOK, RecordSound, FiledSound,
            CrashSurvives, RetainedValid, Running
    <2>4. CASE writing = 3
        BY <1>8, <2>1, <2>4 DEF WriteRecord, WriteStep, recordVars, WatchInv, RecordInv, EvidenceTypeOK, RecordSound, FiledSound,
            CrashSurvives, RetainedValid, Running
    <2> QED BY <2>1, <2>2, <2>3, <2>4
<1>9. CASE CaptureReset
    BY <1>9, RestartWatch, RestartRecord DEF CaptureReset, RecordInv
<1>10. CASE CaptureCut
    <2>1. PICK why \in {"watchdog", "button"} : Restart(why)
        BY <1>10 DEF CaptureCut
    <2>2. why # "fatal" /\ writing # 4
        BY <1>10 DEF CaptureCut
    <2> QED BY <2>1, <2>2, RestartWatch, RestartRecord DEF RecordInv
<1>11. CASE \E ok \in BOOLEAN : CrashAppend(ok) \/ CrashAcknowledge(ok)
    <2>0. UNCHANGED <<watchVars, kept, writing, snapshot, resets, captured>> /\ writing = 0 /\ crashDue' \in BOOLEAN /\ verified' \in BOOLEAN
        BY <1>11 DEF CrashAppend, CrashAcknowledge, Live, Running, RecordInv, EvidenceTypeOK
    <2>1. fatal' \in [magic : BOOLEAN, body : Nat, sum : Nat]
        BY <1>11 DEF CrashAppend, CrashAcknowledge, acknowledgePersisted, RecordInv, EvidenceTypeOK
    <2>2. EvidenceTypeOK'
        BY <2>0, <2>1 DEF watchVars, RecordInv, EvidenceTypeOK
    <2>3. WatchInv'
        BY <2>0, <2>2 DEF watchVars, WatchInv, ArmedInOrder, MissedAreHung, FedInTime, Judging, StallCounted
    <2>4. CASE \E ok \in BOOLEAN : CrashAppend(ok)
        <3>1. PICK ok \in BOOLEAN : CrashAppend(ok)
            BY <2>4
        <3>2. /\ UNCHANGED <<fatal, acknowledged, crashDue>> /\ crashDue /\ verified' = ok
              /\ filed' = filed \/ filed' = filed \cup {snapshot}
              /\ ok => filed' = filed \cup {snapshot}
            <4>1. /\ UNCHANGED <<fatal, acknowledged, crashDue>> /\ crashDue /\ verified' = ok
                  /\ \E landed \in {ok, TRUE} : filed' = IF landed THEN filed \cup {snapshot} ELSE filed
                BY <3>1 DEF CrashAppend
            <4>2. PICK landed \in {ok, TRUE} : filed' = IF landed THEN filed \cup {snapshot} ELSE filed
                BY <4>1
            <4>3. CASE landed
                BY <4>1, <4>2, <4>3
            <4>4. CASE ~landed
                <5>1. ~ok
                    BY <4>2, <4>4, Zenon
                <5>2. filed' = filed
                    BY <4>2, <4>4
                <5> QED BY <4>1, <5>1, <5>2
            <4> QED BY <4>3, <4>4
        <3>3. snapshot \in 1 .. resets
            BY <3>2 DEF RecordInv, FiledSound, EvidenceTypeOK
        <3>4. FiledSound'
            BY <2>0, <3>2, <3>3 DEF RecordInv, FiledSound, RetainedValid
        <3>5. RecordSound'
            BY <2>0, <3>2 DEF RecordInv, RecordSound
        <3>6. CrashSurvives'
            BY <2>0, <3>2 DEF RecordInv, CrashSurvives, RetainedValid, Running
        <3> QED BY <2>2, <2>3, <3>4, <3>5, <3>6 DEF RecordInv
    <2>5. CASE \E ok \in BOOLEAN : CrashAcknowledge(ok)
        <3>1. PICK ok \in BOOLEAN : CrashAcknowledge(ok)
            BY <2>5
        <3>2. /\ filed' = filed /\ crashDue' = ~ok /\ ~verified' /\ crashDue /\ snapshot \in filed
              /\ acknowledged' = IF ok THEN acknowledged \cup {snapshot} ELSE acknowledged
              /\ fatal' = IF ok THEN [fatal EXCEPT !.magic = FALSE] ELSE fatal
            BY <3>1 DEF CrashAcknowledge, acknowledgePersisted, RecordInv, FiledSound
        <3>3. fatal'.body = fatal.body /\ fatal'.sum = fatal.sum /\ (fatal'.magic => fatal.magic /\ ~ok) /\ (~ok => fatal' = fatal)
            BY <3>2 DEF RecordInv, EvidenceTypeOK
        <3>4. FiledSound'
            BY <2>0, <3>2, <3>3 DEF RecordInv, FiledSound, RetainedValid
        <3>5. RecordSound'
            BY <2>0, <3>2, <3>3 DEF RecordInv, RecordSound
        <3>6. CrashSurvives'
            BY <2>0, <3>2, <3>3 DEF RecordInv, CrashSurvives, RetainedValid, Running, FiledSound
        <3> QED BY <2>2, <2>3, <3>4, <3>5, <3>6 DEF RecordInv
    <2> QED BY <1>11, <2>4, <2>5
<1>12. CASE \E ok \in BOOLEAN : tryPersistWatchdogReset(ok) \/ BootstrapConfig(ok)
    <2>1. UNCHANGED <<watchVars, kept, fatal, writing, snapshot, crashDue, verified, resets, recordVars>>
        BY <1>12 DEF tryPersistWatchdogReset, BootstrapConfig
    <2>2. WatchInv'
        BY <2>1 DEF watchVars, recordVars, WatchInv, EvidenceTypeOK, ArmedInOrder, MissedAreHung, FedInTime, Judging, StallCounted
    <2>3. RecordInv'
        BY <2>1, <2>2 DEF recordVars, WatchInv, RecordInv, RecordSound, FiledSound, CrashSurvives, RetainedValid, Running
    <2> QED BY <2>2, <2>3
<1> QED BY <1>1, <1>2, <1>3, <1>4, <1>5, <1>6, <1>7, <1>8, <1>9, <1>10, <1>11, <1>12, <1>13 DEF EvidenceNext, BootStorage

LEMMA EvidenceSafe ==
    ASSUME EvidenceInv, [EvidenceNext]_evidenceVars
    PROVE  /\ StallIsBounded /\ HealthyIsNotReset /\ CrashSurvives
           /\ WatchdogReset => /\ named' \subseteq hung
                               /\ "Health" \notin hung => named' # {} \/ ~KeptValid
           /\ resets' # resets => snapshot' \notin acknowledged
<1> USE WatchdogSizes DEF EvidenceInv
<1>1. StallIsBounded
    BY DEF WatchInv, StallCounted, ArmedInOrder, EvidenceTypeOK, StallIsBounded
<1>2. dog = Timeout /\ "Health" \notin hung => kept.missed \cap CriticalTasks # {}
    BY DEF WatchInv, FedInTime, EvidenceTypeOK
<1>3. kept.missed \subseteq hung
    BY DEF WatchInv, MissedAreHung
<1>4. HealthyIsNotReset
    BY <1>2, <1>3 DEF HealthyIsNotReset
<1>5. WatchdogReset => /\ named' \subseteq hung
                       /\ "Health" \notin hung => named' # {} \/ ~KeptValid
    <2> SUFFICES ASSUME WatchdogReset
                 PROVE  /\ named' \subseteq hung
                        /\ "Health" \notin hung => named' # {} \/ ~KeptValid
        OBVIOUS
    <2>1. dog = Timeout /\ named' = IF KeptValid THEN kept.missed ELSE {}
        BY DEF WatchdogReset, Restart
    <2> QED BY <1>2, <1>3, <2>1
<1>6. resets' # resets => snapshot' \notin acknowledged
    <2> SUFFICES ASSUME resets' # resets PROVE snapshot' \notin acknowledged
        OBVIOUS
    <2>1. WatchdogReset \/ ButtonReset \/ CaptureReset \/ CaptureCut
        BY DEF EvidenceNext, evidenceVars, MarkFirst, MarkSecond, Hang, EvidenceTick, evaluate, evaluateEnds, FatalFault, WriteRecord,
            BootStorage, CrashAppend, CrashAcknowledge, tryPersistWatchdogReset, BootstrapConfig
    <2>2. PICK why : Restart(why) /\ (why = "fatal" <=> writing = 4)
        BY <2>1 DEF WatchdogReset, ButtonReset, CaptureReset, CaptureCut, Running
    <2> QED BY <2>2, RestartRecord
<1> QED BY <1>1, <1>4, <1>5, <1>6 DEF RecordInv

(***************************************************************************)
(* For any window and timeout within the assumption and any tasks that      *)
(* hang: a stalled critical task resets the robot in bounded time and a     *)
(* healthy robot is never reset; the boot after names only tasks that hung, *)
(* and one of them unless the reset fell between two stores of a pair; a    *)
(* fault record survives until its line, on the card, is acknowledged, and  *)
(* is not reported after that (watchdog.cpp, fault_capture.cpp,             *)
(* app/tasks.cpp).                                                          *)
(***************************************************************************)
THEOREM StallsCaught == EvidenceSpec => StallsAreCaught
<1>1. EvidenceInit => EvidenceInv
    <2> SUFFICES ASSUME EvidenceInit PROVE EvidenceInv
        OBVIOUS
    <2> USE WatchdogSizes
    <2>a. kept \in Kept
        BY DEF EvidenceInit, CleanKept, Kept
    <2>b. fatal \in [magic : BOOLEAN, body : Nat, sum : Nat]
        BY DEF EvidenceInit, NoRecord
    <2>1. EvidenceTypeOK
        <3>1. primed \in BOOLEAN /\ armed \in BOOLEAN /\ fed \in BOOLEAN /\ crashDue \in BOOLEAN
              /\ judging \in BOOLEAN /\ verified \in BOOLEAN
            BY DEF EvidenceInit
        <3>2. /\ wait \in 0 .. Window /\ dog \in 0 .. Timeout /\ stalled \in Nat /\ writing \in 0 .. 4
              /\ hung \subseteq Tasks /\ beats \subseteq Tasks
              /\ snapshot \in Nat /\ resets \in Nat /\ captured \in Nat
            BY DEF EvidenceInit
        <3> QED BY <2>a, <2>b, <3>1, <3>2 DEF EvidenceTypeOK
    <2>2. ~primed /\ ~armed /\ kept.missed = {} /\ ~fatal.magic /\ ~crashDue /\ ~verified /\ ~judging /\ fed
        BY DEF EvidenceInit, NoRecord, CleanKept
    <2>3. ArmedInOrder /\ MissedAreHung /\ StallCounted /\ FedInTime /\ Judging
        BY <2>2 DEF EvidenceInit, ArmedInOrder, MissedAreHung, FedInTime, Judging, StallCounted
    <2>4. RecordSound /\ FiledSound /\ CrashSurvives
        BY <2>2 DEF EvidenceInit, RecordSound, FiledSound, CrashSurvives, RetainedValid, NoRecord
    <2> QED BY <2>1, <2>3, <2>4 DEF EvidenceInv, WatchInv, RecordInv
<1>2. EvidenceInv /\ [EvidenceNext]_evidenceVars => EvidenceInv'
    BY EvidenceStep
<1>3. EvidenceInv /\ [EvidenceNext]_evidenceVars => StallIsBounded /\ HealthyIsNotReset /\ CrashSurvives
    BY EvidenceSafe
<1>4. EvidenceInv /\ [EvidenceNext]_evidenceVars
        => [WatchdogReset => /\ named' \subseteq hung
                             /\ "Health" \notin hung => named' # {} \/ ~KeptValid]_evidenceVars
    BY EvidenceSafe
<1>5. EvidenceInv /\ [EvidenceNext]_evidenceVars
        => [resets' # resets => snapshot' \notin acknowledged]_evidenceVars
    BY EvidenceSafe
<1> QED BY <1>1, <1>2, <1>3, <1>4, <1>5, PTL DEF EvidenceSpec, StallsAreCaught, ResetNamesCulprit, AcknowledgedOnce

-----------------------------------------------------------------------------
(***************************************************************************)
(* The sensor bus.  A foot is read only while its channel alone is routed,  *)
(* and a scan classifies each channel once.                                 *)
(***************************************************************************)
BusInv ==
    /\ SampleIsOwn
    /\ job \in [at : {"idle", "read", "release", "scan"}, ch : Int]
    /\ job.at = "read" => route = {job.ch}
    /\ job.at = "scan" => job.ch \in Channels /\ \A c \in footMask : c < job.ch
    /\ footMask \subseteq Channels /\ found \in [Channels -> SUBSET Channels] /\ plugged \subseteq Channels

LEMMA FeetCount == Feet \in Nat /\ Feet > 0 /\ \A c \in Channels : c \in Int
BY BusBounds DEF Channels

LEMMA BusInvStep == BusInv /\ [BusNext]_busVars => BusInv'
<1> SUFFICES ASSUME BusInv, [BusNext]_busVars PROVE BusInv'
    OBVIOUS
<1> USE FeetCount
<1>1. CASE PollBegin
    <2>1. UNCHANGED <<footMask, found, plugged>>
        BY <1>1 DEF PollBegin
    <2>2. CASE pollCh \notin footMask
        BY <1>1, <2>1, <2>2 DEF PollBegin, BusInv, SampleIsOwn
    <2>3. CASE pollCh \in footMask
        <3>1. PICK ok \in BOOLEAN : PollChannel(pollCh, ok)
            BY <1>1, <2>3 DEF PollBegin
        <3>a. pollCh \in Int
            BY <2>3 DEF BusInv
        <3>2. CASE ok
            <4>1. route' = {pollCh} /\ job' = [at |-> "read", ch |-> pollCh] /\ evidence' = evidence
                BY <3>1, <3>2 DEF PollChannel, Select
            <4> QED BY <2>1, <3>a, <4>1 DEF BusInv, SampleIsOwn
        <3>3. CASE ~ok
            <4>1. job' = [at |-> "release", ch |-> pollCh] /\ evidence' = [foot |-> pollCh, ok |-> FALSE, from |-> {}]
                BY <3>1, <3>3 DEF PollChannel
            <4> QED BY <2>1, <3>a, <4>1 DEF BusInv, SampleIsOwn
        <3> QED BY <3>2, <3>3
    <2> QED BY <2>2, <2>3
<1>2. CASE PollRead
    <2>1. PICK setUp \in BOOLEAN, ok \in BOOLEAN :
            /\ (Configures(job.ch, setUp) \/ ok) => Reached # {}
            /\ evidence' = [foot |-> job.ch, ok |-> ok, from |-> Reached]
            /\ job' = [at |-> "release", ch |-> job.ch]
        BY <1>2 DEF PollRead
    <2>2. job.at = "read" /\ UNCHANGED <<footMask, found, plugged, route>>
        BY <1>2 DEF PollRead
    <2>3. ok => Reached = {job.ch}
        BY <2>1, <2>2 DEF Reached, BusInv
    <2> QED BY <2>1, <2>2, <2>3 DEF BusInv, SampleIsOwn
<1>3. CASE PollRelease
    BY <1>3 DEF PollRelease, Idle, BusInv, SampleIsOwn
<1>4. CASE ScanRoot
    BY <1>4 DEF ScanRoot, Idle, Channels, BusInv, SampleIsOwn
<1>5. CASE ScanChannel
    <2>1. PICK ok \in BOOLEAN : /\ Select({job.ch}, ok) /\ plugged' = plugged
                                /\ footMask' = Classified(job.ch, ok)
                                /\ found' = [found EXCEPT ![job.ch] = Reached']
        BY <1>5 DEF ScanChannel
    <2>2. /\ job.at = "scan" /\ UNCHANGED evidence
          /\ job' = IF job.ch + 1 = Feet THEN [at |-> "release", ch |-> job.ch] ELSE [job EXCEPT !.ch = @ + 1]
        BY <1>5 DEF ScanChannel
    <2>3. job.ch \in Channels /\ job.ch \notin footMask
        BY <2>2 DEF BusInv
    <2>4. ok => Reached' \subseteq {job.ch}
        BY <2>1 DEF Select, Reached
    <2>5. Reached' \subseteq Channels
        BY <2>1 DEF Reached, BusInv
    <2>6. /\ footMask' \subseteq footMask \cup {job.ch}
          /\ job.ch \in footMask' => Reached' = {job.ch}
        BY <2>1, <2>3, <2>4 DEF Classified
    <2>7. /\ found' \in [Channels -> SUBSET Channels]
          /\ found'[job.ch] = Reached' /\ \A c \in Channels \ {job.ch} : found'[c] = found[c]
        BY <2>1, <2>3, <2>5 DEF BusInv
    <2>8. SampleIsOwn'
        BY <2>2, <2>3, <2>6, <2>7 DEF BusInv, SampleIsOwn
    <2>9. job'.at # "read"
        BY <2>2
    <2>10. job'.at = "scan" => job'.ch \in Channels /\ \A c \in footMask' : c < job'.ch
        <3> SUFFICES ASSUME job'.at = "scan" PROVE job'.ch \in Channels /\ \A c \in footMask' : c < job'.ch
            OBVIOUS
        <3>1. job.ch + 1 # Feet /\ job' = [job EXCEPT !.ch = @ + 1]
            BY <2>2
        <3>2. job'.ch = job.ch + 1
            BY <3>1 DEF BusInv
        <3> QED BY <2>2, <2>3, <2>6, <3>1, <3>2 DEF BusInv, Channels
    <2>11. job' \in [at : {"idle", "read", "release", "scan"}, ch : Int]
        <3>1. job \in [at : {"idle", "read", "release", "scan"}, ch : Int] /\ job.ch + 1 \in Int
            BY DEF BusInv
        <3> QED BY <2>2, <3>1
    <2>12. footMask' \subseteq Channels /\ plugged' \subseteq Channels
        BY <2>1, <2>3, <2>6 DEF BusInv
    <2> QED BY <2>7, <2>8, <2>9, <2>10, <2>11, <2>12 DEF BusInv
<1>6. CASE ReadImu
    BY <1>6 DEF ReadImu, deviceVars, BusInv, SampleIsOwn
<1>7. CASE HostScan \/ HubReset \/ UNCHANGED busVars
    BY <1>7 DEF HostScan, HubReset, busVars, deviceVars, BusInv, SampleIsOwn
<1>8. CASE \E ch \in Channels : Unplug(ch) \/ Reseat(ch)
    BY <1>8 DEF Unplug, Reseat, BusInv, SampleIsOwn
<1> QED BY <1>1, <1>2, <1>3, <1>4, <1>5, <1>6, <1>7, <1>8 DEF BusNext, BusWork

(***************************************************************************)
(* The contact estimator.  Its counters never run ahead of the samples they *)
(* count, and a foot that has been seen since it was configured is as old   *)
(* as its last sample.                                                      *)
(***************************************************************************)
ContactInv ==
    /\ contact \in {"Air", "Near", "Touch", "Loaded", "Release", "Stale", "Fault"}
    /\ count \in [touch : Nat, load : Nat, release : Nat, fault : Nat]
    /\ pressed \in Nat /\ lifted \in Nat /\ age \in Nat /\ silent \in Nat
    /\ count.touch <= pressed /\ count.load <= pressed /\ count.release <= lifted
    /\ seen => silent = age
    /\ ContactIsFreshOnceSeen

DebouncedStep ==
    /\ contact \notin Claims /\ contact' \in Claims => pressed' >= Debounce
    /\ (contact \in Claims /\ contact' \notin Claims) =>
          \/ lifted' >= Debounce
          \/ contact' \in {"Fault", "Stale"}
          \/ enabled' = FALSE

LEMMA UpToNat == ASSUME NEW a \in Nat, NEW limit PROVE UpTo(a, limit) \in Nat
BY DEF UpTo

LEMMA ContactStep ==
    ASSUME ContactInv, [ContactNext]_contactVars
    PROVE  ContactInv' /\ DebouncedStep
<1> USE ContactBounds
<1>1. CASE \E p \in Pressures, near \in BOOLEAN : Sample(p, near)
    <2>1. PICK p \in Pressures, near \in BOOLEAN : Sample(p, near)
        BY <1>1
    <2>2. age' = 0 /\ seen' = TRUE /\ silent' = 0
        BY <2>1 DEF Sample
    <2>3. CASE enabled
        <3> DEFINE n == Counted(p - baseline, near)
        <3>1. count' = n /\ contact' = NextContact(n, near)
            BY <2>1, <2>3 DEF Sample
        <3>2. /\ pressed' = IF p - baseline >= thresh[1] \/ p - baseline >= thresh[2] THEN UpTo(pressed, Debounce) ELSE 0
              /\ lifted' = IF p - baseline <= ReleaseThresh /\ ~near THEN UpTo(lifted, Debounce) ELSE 0
            BY <2>1, <2>3 DEF Sample
        <3>3. /\ n \in [touch : Nat, load : Nat, release : Nat, fault : Nat]
              /\ n.touch <= pressed' /\ n.load <= pressed' /\ n.release <= lifted'
              /\ pressed' \in Nat /\ lifted' \in Nat
            <4>1. /\ count.touch \in Nat /\ count.load \in Nat /\ count.release \in Nat /\ pressed \in Nat /\ lifted \in Nat
                  /\ count.touch <= pressed /\ count.load <= pressed /\ count.release <= lifted /\ Debounce \in Nat
                BY DEF ContactInv
            <4>2. /\ UpTo(count.touch, Debounce) \in Nat /\ UpTo(count.load, Debounce) \in Nat
                  /\ UpTo(count.release, Debounce) \in Nat /\ UpTo(0, Debounce) \in Nat
                  /\ UpTo(pressed, Debounce) \in Nat /\ UpTo(lifted, Debounce) \in Nat
                  /\ UpTo(count.touch, Debounce) <= UpTo(pressed, Debounce)
                  /\ UpTo(count.load, Debounce) <= UpTo(pressed, Debounce)
                  /\ UpTo(count.release, Debounce) <= UpTo(lifted, Debounce)
                  /\ UpTo(0, Debounce) <= UpTo(lifted, Debounce)
                BY <4>1 DEF UpTo
            <4>3. /\ n.touch = IF p - baseline >= thresh[1] THEN UpTo(count.touch, Debounce) ELSE 0
                  /\ n.load = IF p - baseline >= thresh[2] THEN UpTo(count.load, Debounce) ELSE 0
                  /\ n.release = IF p - baseline <= ReleaseThresh /\ ~near
                                 THEN UpTo(IF p - baseline >= thresh[1] THEN 0 ELSE count.release, Debounce) ELSE 0
                  /\ n = [touch |-> n.touch, load |-> n.load, release |-> n.release, fault |-> 0]
                BY DEF Counted
            <4> HIDE DEF n
            <4>4. n.touch \in Nat /\ n.load \in Nat /\ n.release \in Nat
                BY <4>2, <4>3
            <4>5. n \in [touch : Nat, load : Nat, release : Nat, fault : Nat]
                BY <4>3, <4>4
            <4> QED BY <3>2, <4>2, <4>3, <4>5
        <3> HIDE DEF n
        <3>4. contact' \in {"Air", "Near", "Touch", "Loaded", "Release", "Stale", "Fault"}
            BY <3>1 DEF NextContact, Pressed, ContactInv
        <3>5. contact \notin Claims /\ contact' \in Claims => n.load >= Debounce \/ n.touch >= Debounce
            BY <3>1 DEF NextContact, Pressed, ContactInv, Claims
        <3>6. contact \in Claims /\ contact' \notin Claims => n.release >= Debounce
            BY <3>1 DEF NextContact, Pressed, ContactInv, Claims
        <3> QED BY <2>2, <3>1, <3>3, <3>4, <3>5, <3>6 DEF ContactInv, DebouncedStep, ContactIsFreshOnceSeen
    <2>4. CASE ~enabled
        <3>1. /\ count' = [count EXCEPT !.fault = 0] /\ contact' = "Air"
              /\ UNCHANGED <<pressed, lifted, enabled>>
            BY <2>1, <2>4 DEF Sample
        <3>2. enabled' = FALSE \/ contact \notin Claims
            <4>1. enabled' = enabled
                BY <3>1
            <4> QED BY <4>1, <2>4
        <3> QED BY <2>2, <3>1, <3>2 DEF ContactInv, DebouncedStep, ContactIsFreshOnceSeen, Claims
    <2> QED BY <2>3, <2>4
<1>2. CASE SampleFailed
    <2>1. /\ count' = [count EXCEPT !.fault = UpTo(count.fault, FaultLimit)]
          /\ contact' \in {contact, "Fault"} /\ UNCHANGED <<pressed, lifted, age, silent, seen, enabled>>
        BY <1>2 DEF SampleFailed
    <2>2. UpTo(count.fault, FaultLimit) \in Nat
        <3>1. count.fault \in Nat
            BY DEF ContactInv
        <3> QED BY <3>1, UpToNat
    <2> QED BY <2>1, <2>2 DEF ContactInv, DebouncedStep, ContactIsFreshOnceSeen, Claims
<1>3. CASE tickStaleness
    BY <1>3 DEF tickStaleness, GoesStale, UpTo, ContactInv, DebouncedStep, ContactIsFreshOnceSeen, Claims
<1>4. CASE configure
    BY <1>4 DEF configure, NoCounts, ContactInv, DebouncedStep, ContactIsFreshOnceSeen
<1>5. CASE Calibrate \/ SetThresholds \/ (\E own \in BOOLEAN : StageThresholds(own)) \/ UNCHANGED contactVars
    BY <1>5 DEF Calibrate, SetThresholds, StageThresholds, contactVars, ContactInv, DebouncedStep, ContactIsFreshOnceSeen
<1> QED BY <1>1, <1>2, <1>3, <1>4, <1>5 DEF ContactNext

(***************************************************************************)
(* For any number of feet, thresholds, debounce count and timeout: a        *)
(* foot's sample came through its own multiplexer channel, and a contact is *)
(* debounced in both directions and not older than its timeout              *)
(* (sensor_bus.cpp, contact_estimator.cpp).                                 *)
(***************************************************************************)
THEOREM ContactsAreTrue == BusSpec /\ ContactSpec => ContactIsTrue
<1>1. BusInit => BusInv
    BY FeetCount DEF BusInit, Idle, NoEvidence, BusInv, SampleIsOwn
<1>2. BusInv => SampleIsOwn
    BY DEF BusInv
<1>3. ContactInit => ContactInv
    BY DEF ContactInit, NoCounts, ContactInv, ContactIsFreshOnceSeen, Claims
<1>4. ContactInv => ContactIsFreshOnceSeen
    BY DEF ContactInv
<1>5. ContactInv /\ [ContactNext]_contactVars => ContactInv'
    BY ContactStep
<1>6. ContactInv /\ [ContactNext]_contactVars
        => /\ [contact \notin Claims /\ contact' \in Claims => pressed' >= Debounce]_contactVars
           /\ [(contact \in Claims /\ contact' \notin Claims) =>
                \/ lifted' >= Debounce
                \/ contact' \in {"Fault", "Stale"}
                \/ enabled' = FALSE]_contactVars
    BY ContactStep DEF DebouncedStep
<1> QED BY <1>1, <1>2, <1>3, <1>4, <1>5, <1>6, BusInvStep, PTL
        DEF BusSpec, ContactSpec, ContactIsTrue, ContactIsDebounced, ReleaseIsDebounced
=============================================================================
