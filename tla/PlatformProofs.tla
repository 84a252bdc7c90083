--------------------------- MODULE PlatformProofs ---------------------------
(***************************************************************************)
(* For every set of threads, tasks, statics, handles, feet and joints,      *)
(* every nesting depth, heap size, size_t, tick period and time limit: what *)
(* the C and C++ run-time library asks of its FreeRTOS port, the memory of  *)
(* the kernel's objects, and what the simulation node gives the controller  *)
(* core.  The parts share no variable, so each has its own inductive        *)
(* invariant and the conjunction of their specifications is                 *)
(* the whole.                                                               *)
(***************************************************************************)
EXTENDS KernelObjects, Threads, RuntimeSupport, SilAdapter, FiniteSetTheorems, SequenceTheorems, WellFoundedInduction, TLAPS

(* A sequence without its last element. *)
LEMMA FrontFacts ==
    ASSUME NEW S, NEW q \in Seq(S), q # <<>>
    PROVE  LET f == SubSeq(q, 1, Len(q) - 1)
           IN  /\ f \in Seq(S) /\ Len(f) = Len(q) - 1
               /\ Len(q) \in Nat \ {0} /\ q[Len(q)] \in S
               /\ \A i \in 1..(Len(q) - 1) : f[i] = q[i]
  <1>1. Len(q) \in Nat \ {0} /\ \A i \in 1..Len(q) : q[i] \in S
    BY EmptySeq, ElementOfSeq
  <1> DEFINE n == Len(q) - 1
             f == SubSeq(q, 1, n)
  <1>2. n \in Nat /\ 1 \in Int /\ n \in Int /\ Len(q) = n + 1
    BY <1>1
  <1>3. \A i \in 1..n : q[i] \in S
    BY <1>1, <1>2
  <1> HIDE DEF n
  <1>4. /\ f \in Seq(S)
        /\ Len(f) = IF 1 <= n THEN n - 1 + 1 ELSE 0
        /\ \A i \in 1 .. n - 1 + 1 : f[i] = q[1 + i - 1]
    BY <1>2, <1>3
  <1> HIDE DEF f
  <1>5. Len(f) = n
    BY <1>2, <1>4
  <1>6. \A i \in 1..n : f[i] = q[i]
    <2> SUFFICES ASSUME NEW i \in 1..n PROVE f[i] = q[i]
      OBVIOUS
    <2>1. i \in 1 .. n - 1 + 1 /\ 1 + i - 1 = i
      BY <1>2
    <2>2. QED
      BY <1>4, <2>1
  <1>7. q[Len(q)] \in S
    BY <1>1
  <1>8. QED
    BY <1>1, <1>4, <1>5, <1>6, <1>7 DEF f, n

-----------------------------------------------------------------------------
(* The clock. *)

ClockTypeOK ==
    /\ cyc \in Nat /\ millis \in Nat /\ scc \in Nat
    /\ step \in {"idle", "again", "millis", "cycles", "now", "check"}
    /\ armed \in BOOLEAN
    /\ seen \in [smc : Nat, scc : Nat, cyc : Nat]
    /\ read \in [us : Int, at : Nat]

(* The tick hook runs at most MaxLate cycles after its tick, and what a reader
   with an intact reservation has read belongs to one tick. *)
ClockInv ==
    /\ ClockTypeOK
    /\ cyc <= Due + MaxLate
    /\ millis * PeriodCycles <= scc /\ scc <= millis * PeriodCycles + MaxLate
    /\ armed /\ step \in {"cycles", "now", "check"} => seen.smc = millis
    /\ armed /\ step \in {"now", "check"} => seen.scc = scc
    /\ ClockErrorIsBounded

LEMMA NextTick ==
    ASSUME NEW m \in Nat
    PROVE  /\ m * PeriodCycles \in Nat /\ (m + 1) * PeriodCycles \in Nat
           /\ (m + 1) * PeriodCycles = m * PeriodCycles + PeriodCycles
  BY ClockAssumption

LEMMA ClockStep == ClockInv /\ [ClockNext]_clockVars => ClockInv'
  <1> SUFFICES ASSUME ClockInv, [ClockNext]_clockVars PROVE ClockInv'
    OBVIOUS
  <1>0. PeriodCycles \in Nat /\ MaxLate \in Nat
    BY ClockAssumption
  <1>a. /\ millis * PeriodCycles \in Nat /\ Due \in Nat
        /\ Due = millis * PeriodCycles + PeriodCycles
    BY NextTick DEF ClockInv, ClockTypeOK, Due
  <1>1. CASE Elapse
    BY <1>0, <1>1, <1>a
    DEF Elapse, ClockInv, ClockTypeOK, ClockErrorIsBounded, Due
  <1>2. CASE vApplicationTickHook
    <2>1. millis' \in Nat /\ millis' * PeriodCycles = Due
      BY <1>2 DEF vApplicationTickHook, ClockInv, ClockTypeOK, Due
    <2>2. Due' = Due + PeriodCycles
      BY <2>1, NextTick DEF Due
    <2>3. cyc' <= Due' + MaxLate /\ scc' >= Due /\ scc' <= Due + MaxLate
      BY <1>0, <1>2, <1>a, <2>2 DEF vApplicationTickHook, ClockInv, ClockTypeOK
    <2>4. QED
      BY <1>2, <2>1, <2>3
      DEF vApplicationTickHook, ClockInv, ClockTypeOK, ClockErrorIsBounded
  <1>3. CASE Ldrex
    BY <1>3 DEF Ldrex, ClockInv, ClockTypeOK, ClockErrorIsBounded, Due
  <1>4. CASE ReadMillis
    BY <1>4 DEF ReadMillis, ClockInv, ClockTypeOK, ClockErrorIsBounded, Due
  <1>5. CASE ReadCycles
    BY <1>5 DEF ReadCycles, ClockInv, ClockTypeOK, ClockErrorIsBounded, Due
  <1>6. CASE ReadNow
    BY <1>6 DEF ReadNow, ClockInv, ClockTypeOK, ClockErrorIsBounded, Due
  <1>7. CASE Strex
    <2>1. CASE armed
      <3>1. read' = [us |-> seen.smc * PeriodCycles + (seen.cyc - seen.scc),
                     at |-> seen.cyc]
        BY <1>7, <2>1 DEF Strex, StoreSucceeds
      <3>2. /\ seen.smc = millis /\ seen.scc = scc
            /\ seen.cyc \in Nat /\ scc \in Nat /\ millis \in Nat
        BY <1>7, <2>1 DEF Strex, ClockInv, ClockTypeOK
      <3>3. /\ read'.us = millis * PeriodCycles + (seen.cyc - scc)
            /\ read'.at = seen.cyc
        BY <3>1, <3>2
      <3>4. /\ read' \in [us : Int, at : Nat]
            /\ ClockErrorIsBounded'
        BY <1>0, <1>a, <3>1, <3>2, <3>3 DEF ClockInv, ClockErrorIsBounded
      <3>5. QED
        BY <1>7, <2>1, <3>4 DEF Strex, StoreSucceeds, ClockInv, ClockTypeOK, Due
    <2>2. CASE ~armed
      BY <1>7, <2>2
      DEF Strex, StoreSucceeds, ClockInv, ClockTypeOK, ClockErrorIsBounded, Due
    <2>3. QED
      BY <2>1, <2>2 DEF ClockInv, ClockTypeOK
  <1>8. CASE UNCHANGED clockVars
    BY <1>8 DEF clockVars, ClockInv, ClockTypeOK, ClockErrorIsBounded, Due
  <1>9. QED
    BY <1>1, <1>2, <1>3, <1>4, <1>5, <1>6, <1>7, <1>8 DEF ClockNext, ClockRead

(* A reading of the microsecond clock mixes no values of two ticks, wherever
   the tick interrupts it, and is late by no more than the tick was. *)
THEOREM ClockErrs == ClockSpec => []ClockErrorIsBounded
  <1>1. ClockInit => ClockInv
    <2> SUFFICES ASSUME ClockInit PROVE ClockInv
      OBVIOUS
    <2>1. /\ 0 * PeriodCycles = 0 /\ Due \in Nat /\ MaxLate \in Nat
      BY ClockAssumption DEF ClockInit, Due
    <2>2. ClockTypeOK
      <3>1. seen \in [smc : Nat, scc : Nat, cyc : Nat]
        BY DEF ClockInit
      <3>2. read \in [us : Int, at : Nat]
        BY DEF ClockInit
      <3>3. QED
        BY <3>1, <3>2 DEF ClockInit, ClockTypeOK
    <2>3. ClockErrorIsBounded
      BY <2>1 DEF ClockInit, ClockErrorIsBounded
    <2>4. /\ cyc <= Due + MaxLate
          /\ millis * PeriodCycles <= scc /\ scc <= millis * PeriodCycles + MaxLate
      BY <2>1 DEF ClockInit
    <2>5. QED
      BY <2>2, <2>3, <2>4 DEF ClockInit, ClockInv
  <1>2. ClockInv => ClockErrorIsBounded
    BY DEF ClockInv
  <1>3. QED
    BY <1>1, <1>2, ClockStep, PTL DEF ClockSpec

-----------------------------------------------------------------------------
(* The heap and the interrupt mask. *)

Kinds == {"critical", "heap"}

HeapTypeOK ==
    /\ runs \in HeapTasks
    /\ calls \in [HeapTasks -> Seq(Kinds)]
    /\ masked \in BOOLEAN /\ saved \in BOOLEAN /\ failed \in BOOLEAN
    /\ critical \in Nat /\ nesting \in Nat
    /\ heapEnd \in 0..(HeapLimit - 1)

(* The heap's code has no critical section of its own, so the running task's
   calls are critical sections first and heap calls above them: the two
   counters say exactly what is on its stack, and the mask saved by the
   outermost heap call says whether a critical section lies below it. *)
StackOf(q, c, n) ==
    /\ Len(q) = c + n
    /\ \A i \in 1..(c + n) : q[i] = IF i <= c THEN "critical" ELSE "heap"

HeapInv ==
    /\ HeapTypeOK
    /\ StackOf(calls[runs], critical, nesting)
    /\ masked <=> critical + nesting > 0
    /\ nesting > 0 => (saved <=> critical > 0)
    /\ \A t \in HeapTasks \ {runs} : calls[t] = <<>>

(* The innermost call, from the counters. *)
LEMMA TopIs ==
    ASSUME HeapInv
    PROVE  /\ Top(runs) = "critical" <=> nesting = 0 /\ critical > 0
           /\ Top(runs) = "heap" <=> nesting > 0
           /\ Top(runs) # "none" => calls[runs] # <<>>
  <1>1. calls[runs] \in Seq(Kinds) /\ critical \in Nat /\ nesting \in Nat
    BY DEF HeapInv, HeapTypeOK
  <1>2. StackOf(calls[runs], critical, nesting)
    BY DEF HeapInv
  <1>3. CASE calls[runs] = <<>>
    BY <1>1, <1>2, <1>3 DEF Top, StackOf
  <1>4. CASE calls[runs] # <<>>
    <2>1. Len(calls[runs]) \in Nat \ {0}
      BY <1>1, <1>4, EmptySeq
    <2>2. Top(runs) = IF nesting = 0 THEN "critical" ELSE "heap"
      BY <1>1, <1>2, <1>4, <2>1 DEF Top, StackOf
    <2>3. QED
      BY <1>1, <1>2, <1>4, <2>1, <2>2 DEF StackOf
  <1>5. QED
    BY <1>3, <1>4

(* Pushing and popping keep the stack in step with the counters. *)
LEMMA PushStack ==
    ASSUME NEW q \in Seq(Kinds), NEW c \in Nat, NEW n \in Nat, StackOf(q, c, n)
    PROVE  /\ n = 0 => StackOf(Append(q, "critical"), c + 1, n)
           /\ StackOf(Append(q, "heap"), c, n + 1)
           /\ Append(q, "critical") \in Seq(Kinds) /\ Append(q, "heap") \in Seq(Kinds)
  <1>1. "critical" \in Kinds /\ "heap" \in Kinds
    BY DEF Kinds
  <1>2. ASSUME NEW k \in Kinds
        PROVE  /\ Append(q, k) \in Seq(Kinds) /\ Len(Append(q, k)) = Len(q) + 1
               /\ \A i \in 1..Len(q) : Append(q, k)[i] = q[i]
               /\ Append(q, k)[Len(q) + 1] = k
    BY AppendProperties
  <1>3. n = 0 => StackOf(Append(q, "critical"), c + 1, n)
    BY <1>1, <1>2 DEF StackOf
  <1>4. StackOf(Append(q, "heap"), c, n + 1)
    BY <1>1, <1>2 DEF StackOf
  <1>5. QED
    BY <1>1, <1>2, <1>3, <1>4

LEMMA PopStack ==
    ASSUME NEW q \in Seq(Kinds), NEW c \in Nat, NEW n \in Nat, StackOf(q, c, n),
           q # <<>>
    PROVE  LET f == SubSeq(q, 1, Len(q) - 1)
           IN  /\ f \in Seq(Kinds)
               /\ n = 0 => StackOf(f, c - 1, n)
               /\ n > 0 => StackOf(f, c, n - 1)
  <1> DEFINE f == SubSeq(q, 1, Len(q) - 1)
  <1>1. /\ f \in Seq(Kinds) /\ Len(f) = Len(q) - 1
        /\ Len(q) \in Nat \ {0}
        /\ \A i \in 1..(Len(q) - 1) : f[i] = q[i]
    BY FrontFacts
  <1> HIDE DEF f
  <1>2. n = 0 => StackOf(f, c - 1, n)
    BY <1>1 DEF StackOf
  <1>3. n > 0 => StackOf(f, c, n - 1)
    BY <1>1 DEF StackOf
  <1>4. QED
    BY <1>1, <1>2, <1>3 DEF f

LEMMA HeapStep == HeapInv /\ [HeapNext]_heapVars => HeapInv'
  <1> SUFFICES ASSUME HeapInv, [HeapNext]_heapVars PROVE HeapInv'
    OBVIOUS
  <1>0. /\ runs \in HeapTasks /\ calls \in [HeapTasks -> Seq(Kinds)]
        /\ calls[runs] \in Seq(Kinds)
        /\ critical \in Nat /\ nesting \in Nat
        /\ masked \in BOOLEAN /\ saved \in BOOLEAN /\ failed \in BOOLEAN
        /\ StackOf(calls[runs], critical, nesting)
    BY DEF HeapInv, HeapTypeOK
  (* What a call or a return of the running task has to show. *)
  <1>q. ASSUME NEW q \in Seq(Kinds), calls' = [calls EXCEPT ![runs] = q],
               critical' \in Nat, nesting' \in Nat,
               StackOf(q, critical', nesting'),
               masked' \in BOOLEAN, saved' \in BOOLEAN,
               masked' <=> critical' + nesting' > 0,
               nesting' > 0 => (saved' <=> critical' > 0),
               UNCHANGED <<runs, heapEnd, failed>>
        PROVE  HeapInv'
    <2>1. calls' \in [HeapTasks -> Seq(Kinds)] /\ calls'[runs] = q
      BY <1>0, <1>q
    <2>2. \A t \in HeapTasks \ {runs} : calls'[t] = <<>>
      BY <1>0, <1>q DEF HeapInv
    <2>3. HeapTypeOK'
      BY <1>0, <1>q, <2>1 DEF HeapInv, HeapTypeOK
    <2>4. QED
      BY <1>q, <2>1, <2>2, <2>3 DEF HeapInv
  <1>1. CASE Switch
    <2>1. calls[runs] = <<>> /\ critical = 0 /\ nesting = 0
      <3>1. critical + nesting = 0
        BY <1>0, <1>1 DEF Switch, HeapInv
      <3>2. Len(calls[runs]) = 0
        BY <1>0, <3>1 DEF StackOf
      <3>3. QED
        BY <1>0, <3>1, <3>2, EmptySeq
    <2>2. \A t \in HeapTasks : calls[t] = <<>>
      BY <2>1 DEF HeapInv
    <2>3. StackOf(<<>>, 0, 0)
      BY DEF StackOf
    <2>4. runs' \in HeapTasks
      BY <1>1 DEF Switch
    <2>5. QED
      BY <1>1, <2>1, <2>2, <2>3, <2>4 DEF Switch, HeapInv, HeapTypeOK
  <1>2. CASE vPortEnterCritical
    <2>1. nesting = 0
      BY <1>0, <1>2, TopIs DEF vPortEnterCritical
    <2> DEFINE q == Append(calls[runs], "critical")
    <2>2. q \in Seq(Kinds) /\ StackOf(q, critical + 1, nesting)
      BY <1>0, <2>1, PushStack
    <2>3. /\ calls' = [calls EXCEPT ![runs] = q]
          /\ masked' = TRUE /\ critical' = critical + 1
          /\ UNCHANGED <<runs, nesting, saved, heapEnd, failed>>
      BY <1>2 DEF vPortEnterCritical, Enter
    <2> HIDE DEF q
    <2>4. /\ critical' \in Nat /\ nesting' \in Nat /\ ~(nesting' > 0) /\ masked'
          /\ critical' + nesting' > 0 /\ saved' \in BOOLEAN
      BY <1>0, <2>1, <2>3
    <2>5. StackOf(q, critical', nesting')
      BY <2>2, <2>3
    <2>6. QED
      BY <1>q, <2>2, <2>3, <2>4, <2>5
  <1>3. CASE vPortExitCritical
    <2>1. nesting = 0 /\ critical > 0 /\ calls[runs] # <<>>
      BY <1>3, TopIs DEF vPortExitCritical, Leave
    <2> DEFINE q == SubSeq(calls[runs], 1, Len(calls[runs]) - 1)
    <2>2. q \in Seq(Kinds) /\ StackOf(q, critical - 1, nesting)
      BY <1>0, <2>1, PopStack
    <2>3. /\ calls' = [calls EXCEPT ![runs] = q]
          /\ critical' = critical - 1
          /\ masked' = IF critical = 1 THEN FALSE ELSE masked
          /\ UNCHANGED <<runs, nesting, saved, heapEnd, failed>>
      BY <1>3 DEF vPortExitCritical, Leave
    <2> HIDE DEF q
    <2>4. /\ critical' \in Nat /\ nesting' \in Nat /\ ~(nesting' > 0)
          /\ saved' \in BOOLEAN
      BY <1>0, <2>1, <2>3
    <2>5. masked
      BY <1>0, <2>1 DEF HeapInv
    <2>6. masked' \in BOOLEAN /\ (masked' <=> critical # 1)
      BY <2>3, <2>5
    <2>7. critical # 1 <=> critical' + nesting' > 0
      BY <1>0, <2>1, <2>3
    <2>8. StackOf(q, critical', nesting')
      BY <2>2, <2>3
    <2>9. QED
      BY <1>q, <2>2, <2>3, <2>4, <2>6, <2>7, <2>8
  <1>4. CASE __malloc_lock
    <2> DEFINE q == Append(calls[runs], "heap")
    <2>1. q \in Seq(Kinds) /\ StackOf(q, critical, nesting + 1)
      BY <1>0, PushStack
    <2>2. /\ calls' = [calls EXCEPT ![runs] = q]
          /\ masked' = TRUE /\ nesting' = nesting + 1
          /\ saved' = SavedMask(masked)
          /\ UNCHANGED <<runs, critical, heapEnd, failed>>
      BY <1>4 DEF __malloc_lock, Enter
    <2> HIDE DEF q
    <2>3. saved' \in BOOLEAN /\ (saved' <=> critical > 0)
      BY <1>0, <2>2 DEF SavedMask, HeapInv
    <2>4. /\ critical' \in Nat /\ nesting' \in Nat /\ masked'
          /\ critical' + nesting' > 0
      BY <1>0, <2>2
    <2>5. StackOf(q, critical', nesting') /\ (saved' <=> critical' > 0)
      BY <2>1, <2>2, <2>3
    <2>6. QED
      BY <1>q, <2>1, <2>2, <2>3, <2>4, <2>5
  <1>5. CASE __malloc_unlock
    <2>1. nesting > 0 /\ calls[runs] # <<>>
      BY <1>5, TopIs DEF __malloc_unlock, Leave
    <2> DEFINE q == SubSeq(calls[runs], 1, Len(calls[runs]) - 1)
    <2>2. q \in Seq(Kinds) /\ StackOf(q, critical, nesting - 1)
      BY <1>0, <2>1, PopStack
    <2>3. /\ calls' = [calls EXCEPT ![runs] = q]
          /\ nesting' = nesting - 1
          /\ masked' = RestoredMask(nesting - 1)
          /\ UNCHANGED <<runs, critical, saved, heapEnd, failed>>
      BY <1>5 DEF __malloc_unlock, Leave
    <2> HIDE DEF q
    <2>4. masked' \in BOOLEAN /\ (masked' <=> critical + (nesting - 1) > 0)
      BY <1>0, <2>1, <2>3 DEF HeapInv, RestoredMask
    <2>5. nesting - 1 \in Nat /\ (nesting - 1 > 0 => (saved' <=> critical > 0))
      BY <1>0, <2>1, <2>3 DEF HeapInv
    <2>6. QED
      BY <1>0, <1>q, <2>2, <2>3, <2>4, <2>5
  <1>6. CASE \E i \in Increments : _sbrk_r(i)
    <2>1. PICK i \in Increments : _sbrk_r(i)
      BY <1>6
    <2>2. i \in Int /\ heapEnd \in 0..(HeapLimit - 1) /\ HeapLimit \in Nat \ {0}
      BY HeapAssumption DEF HeapInv, HeapTypeOK
    <2>3. heapEnd' \in 0..(HeapLimit - 1) /\ failed' \in BOOLEAN
      <3>1. CASE Room(heapEnd + i)
        BY <1>0, <2>1, <2>2, <3>1 DEF _sbrk_r, Room
      <3>2. CASE ~Room(heapEnd + i)
        BY <2>1, <2>2, <3>2 DEF _sbrk_r
      <3>3. QED
        BY <3>1, <3>2
    <2>4. UNCHANGED <<runs, calls, masked, critical, nesting, saved>>
      BY <2>1 DEF _sbrk_r
    <2>5. QED
      BY <2>3, <2>4 DEF HeapInv, HeapTypeOK
  <1>7. CASE Blink \/ UNCHANGED heapVars
    BY <1>7 DEF Blink, heapVars, HeapInv, HeapTypeOK
  <1>8. QED
    BY <1>1, <1>2, <1>3, <1>4, <1>5, <1>6, <1>7 DEF HeapNext

LEMMA HeapStart == HeapInit => HeapInv
  <1> SUFFICES ASSUME HeapInit PROVE HeapInv
    OBVIOUS
  <1>1. <<>> \in Seq(Kinds) /\ StackOf(<<>>, 0, 0)
    BY DEF StackOf
  <1>2. 0 \in 0..(HeapLimit - 1)
    BY HeapAssumption
  <1>3. runs \in HeapTasks /\ calls[runs] = <<>>
    BY DEF HeapInit
  <1>4. HeapTypeOK
    BY <1>1, <1>2, <1>3 DEF HeapInit, HeapTypeOK
  <1>5. QED
    BY <1>1, <1>3, <1>4 DEF HeapInit, HeapInv

LEMMA HeapInvSuffices == HeapInv => HeapIsExclusive /\ MaskIsBalanced
  <1> SUFFICES ASSUME HeapInv PROVE HeapIsExclusive /\ MaskIsBalanced
    OBVIOUS
  <1>1. \A t \in HeapTasks : t # runs => ~InHeap(t)
    BY DEF HeapInv, InHeap
  <1>2. heapEnd >= 0 /\ heapEnd < HeapLimit
    BY HeapAssumption DEF HeapInv, HeapTypeOK
  <1>3. HeapIsExclusive
    BY <1>1, <1>2 DEF HeapIsExclusive
  <1>4. masked <=> calls[runs] # <<>>
    <2>1. calls[runs] \in Seq(Kinds) /\ critical \in Nat /\ nesting \in Nat
      BY DEF HeapInv, HeapTypeOK
    <2>2. Len(calls[runs]) = critical + nesting
      BY DEF HeapInv, StackOf
    <2>3. QED
      BY <2>1, <2>2, EmptySeq DEF HeapInv
  <1>5. QED
    BY <1>3, <1>4 DEF MaskIsBalanced, HeapInv

(* The allocator is never entered by two tasks and the mask is raised exactly
   inside critical sections and heap calls, to any nesting depth. *)
THEOREM HeapIsSafe == HeapSpec => [](HeapIsExclusive /\ MaskIsBalanced)
  BY HeapStart, HeapStep, HeapInvSuffices, PTL DEF HeapSpec

-----------------------------------------------------------------------------
(* The guards of function-local statics. *)

GuardTypeOK ==
    /\ started \in BOOLEAN
    /\ inited \subseteq Statics
    /\ rholder \in GuardTasks \cup {"none"} /\ rcount \in Nat
    /\ building \in [GuardTasks -> Seq(Statics)]
    /\ gpc \in [GuardTasks -> {"run", "take", "retest", "give"}]
    /\ want \in [GuardTasks -> Statics \cup {0}]
    /\ built \in [Statics -> Nat]

(* How often t has taken the mutex, or would have once the scheduler runs. *)
Depth(t) == Len(building[t]) + (IF gpc[t] \in {"retest", "give"} THEN 1 ELSE 0)

BalancedFor(t) ==
    IF rholder = t THEN rcount = Depth(t) /\ Depth(t) > 0 ELSE Depth(t) = 0

MutexInv ==
    /\ started => \A t \in GuardTasks : BalancedFor(t)
    /\ rholder = "none" => rcount = 0
    /\ ~started => /\ rholder = "none"
                   /\ \A t \in GuardTasks \ {MainTask} :
                        gpc[t] = "run" /\ building[t] = <<>>

(* A task's constructors are of different statics, none of them complete, and
   the one it asks for is not among them; the byte of a static says how often
   its constructor has completed. *)
ContentOf(t) ==
    /\ \A i, j \in 1..Len(building[t]) : i # j => building[t][i] # building[t][j]
    /\ \A i \in 1..Len(building[t]) : building[t][i] \notin inited
    /\ gpc[t] \in {"take", "retest"} =>
         /\ want[t] \in Statics
         /\ \A i \in 1..Len(building[t]) : building[t][i] # want[t]

ContentInv ==
    /\ \A t \in GuardTasks : ContentOf(t)
    /\ \A s \in Statics : built[s] = IF s \in inited THEN 1 ELSE 0

GuardInv == GuardTypeOK /\ MutexInv /\ ContentInv

LEMMA DepthType ==
    ASSUME GuardTypeOK, NEW t \in GuardTasks
    PROVE  /\ building[t] \in Seq(Statics) /\ Len(building[t]) \in Nat
           /\ Depth(t) \in Nat
           /\ Depth(t) = 0 <=> building[t] = <<>> /\ gpc[t] \notin {"retest", "give"}
  <1>1. building[t] \in Seq(Statics)
    BY DEF GuardTypeOK
  <1>2. Len(building[t]) \in Nat /\ (Len(building[t]) = 0 <=> building[t] = <<>>)
    BY <1>1, EmptySeq, LenProperties
  <1>3. CASE gpc[t] \in {"retest", "give"}
    <2>1. Depth(t) = Len(building[t]) + 1
      BY <1>3 DEF Depth
    <2>2. QED
      BY <1>1, <1>2, <1>3, <2>1
  <1>4. CASE gpc[t] \notin {"retest", "give"}
    <2>1. Depth(t) = Len(building[t])
      BY <1>2, <1>4 DEF Depth
    <2>2. QED
      BY <1>1, <1>2, <1>4, <2>1
  <1>5. QED
    BY <1>3, <1>4

(* At most one task is inside, or at the door of, a constructor. *)
LEMMA OneInside ==
    ASSUME GuardInv, NEW t \in GuardTasks, NEW u \in GuardTasks, t # u,
           Depth(t) # 0
    PROVE  Depth(u) = 0
  <1>1. CASE started
    BY <1>1 DEF GuardInv, MutexInv, BalancedFor
  <1>2. CASE ~started
    <2>1. \A v \in GuardTasks \ {MainTask} :
            gpc[v] = "run" /\ building[v] = <<>>
      BY <1>2 DEF GuardInv, MutexInv
    <2>2. \A v \in GuardTasks \ {MainTask} : Depth(v) = 0
      BY <2>1, DepthType DEF GuardInv
    <2>3. QED
      BY <2>2
  <1>3. QED
    BY <1>1, <1>2 DEF GuardInv, GuardTypeOK

(* The other tasks of a step by t. *)
LEMMA OthersKeep ==
    ASSUME NEW t \in GuardTasks, NEW u \in GuardTasks, u # t, GuardTypeOK,
           \/ building' = building
           \/ \E q : building' = [building EXCEPT ![t] = q],
           \E p : gpc' = [gpc EXCEPT ![t] = p]
    PROVE  /\ building'[u] = building[u] /\ gpc'[u] = gpc[u]
           /\ Depth(u)' = Depth(u)
  BY DEF GuardTypeOK, Depth

(* Taking and giving the mutex, seen from the task that does it: the others
   are not inside, so only its own depth has to follow. *)
LEMMA TakeKeeps ==
    ASSUME GuardInv, NEW t \in GuardTasks, AcquireTake(t)
    PROVE  GuardInv'
  <1>0. GuardTypeOK /\ gpc[t] = "take" /\ building' = building
        /\ gpc' = [gpc EXCEPT ![t] = "retest"]
        /\ UNCHANGED <<started, inited, want, built>>
    BY DEF AcquireTake, GuardInv
  <1>1. /\ gpc'[t] = "retest"
        /\ gpc' \in [GuardTasks -> {"run", "take", "retest", "give"}]
    BY <1>0 DEF GuardTypeOK
  <1>2. Depth(t) = Len(building[t]) /\ Depth(t)' = Depth(t) + 1 /\ Depth(t) \in Nat
    BY <1>0, <1>1, DepthType DEF Depth
  <1>3. \A u \in GuardTasks \ {t} : gpc'[u] = gpc[u] /\ Depth(u)' = Depth(u)
    BY <1>0, OthersKeep
  <1>4. ContentInv'
    <2>1. \A u \in GuardTasks : ContentOf(u)'
      BY <1>0, <1>1, <1>3 DEF GuardInv, ContentInv, ContentOf
    <2>2. QED
      BY <1>0, <2>1 DEF GuardInv, ContentInv
  <1>5. CASE started
    <2>1. rholder \in {"none", t} /\ rholder' = t /\ rcount' = rcount + 1
      BY <1>5 DEF AcquireTake, xQueueTakeMutexRecursive
    <2>2. \A u \in GuardTasks : BalancedFor(u)
      BY <1>5 DEF GuardInv, MutexInv
    <2>3. \A u \in GuardTasks \ {t} : Depth(u) = 0
      BY <2>1, <2>2, GuardAssumption DEF BalancedFor
    <2>4. rcount = Depth(t)
      BY <2>1, <2>2, GuardAssumption DEF BalancedFor, GuardInv, MutexInv
    <2>5. BalancedFor(t)'
      BY <1>2, <2>1, <2>4 DEF BalancedFor
    <2>6. \A u \in GuardTasks \ {t} : BalancedFor(u)'
      BY <1>3, <2>1, <2>3 DEF BalancedFor
    <2>7. MutexInv'
      BY <1>0, <1>5, <2>1, <2>5, <2>6, GuardAssumption DEF MutexInv
    <2>8. GuardTypeOK'
      BY <1>0, <1>1, <2>1 DEF GuardTypeOK
    <2>9. QED
      BY <1>4, <2>7, <2>8 DEF GuardInv
  <1>6. CASE ~started
    <2>1. UNCHANGED <<rholder, rcount>>
      BY <1>6 DEF AcquireTake
    <2>2. t = MainTask
      BY <1>0, <1>6 DEF GuardInv, MutexInv
    <2>3. MutexInv'
      BY <1>0, <1>3, <1>6, <2>1, <2>2 DEF GuardInv, MutexInv
    <2>4. GuardTypeOK'
      BY <1>0, <1>1, <2>1 DEF GuardTypeOK
    <2>5. QED
      BY <1>4, <2>3, <2>4 DEF GuardInv
  <1>7. QED
    BY <1>5, <1>6

(* A step of t that gives the mutex once, or leaves it and its depth alone,
   keeps the mutex balanced. *)
LEMMA GiveKeepsMutex ==
    ASSUME GuardInv, NEW t \in GuardTasks, Depth(t) > 0, UNCHANGED started,
           GiveGuard(t), Depth(t)' = Depth(t) - 1,
           \A u \in GuardTasks \ {t} : /\ Depth(u)' = Depth(u)
                                       /\ gpc'[u] = gpc[u]
                                       /\ building'[u] = building[u]
    PROVE  MutexInv' /\ rholder' \in GuardTasks \cup {"none"} /\ rcount' \in Nat
  <1>0. Depth(t) \in Nat /\ rcount \in Nat /\ rholder \in GuardTasks \cup {"none"}
    BY DepthType DEF GuardInv, GuardTypeOK
  <1>1. CASE started
    <2>1. rholder = t /\ rcount = Depth(t)
      BY <1>1 DEF GuardInv, MutexInv, BalancedFor
    <2>2. /\ rcount' = rcount - 1
          /\ rholder' = IF rcount = 1 THEN "none" ELSE t
      BY <1>1, <2>1 DEF GiveGuard, xQueueGiveMutexRecursive
    <2>3. \A u \in GuardTasks \ {t} : Depth(u) = 0
      BY <1>1, <2>1 DEF GuardInv, MutexInv, BalancedFor
    <2>4. BalancedFor(t)'
      BY <1>0, <2>1, <2>2, GuardAssumption DEF BalancedFor
    <2>5. \A u \in GuardTasks \ {t} : BalancedFor(u)'
      BY <2>2, <2>3, GuardAssumption DEF BalancedFor
    <2>6. rcount' \in Nat /\ (rholder' = "none" => rcount' = 0)
      BY <1>0, <2>1, <2>2, GuardAssumption
    <2>7. QED
      BY <1>1, <2>2, <2>4, <2>5, <2>6 DEF MutexInv
  <1>2. CASE ~started
    <2>1. UNCHANGED <<rholder, rcount>>
      BY <1>2 DEF GiveGuard
    <2>2. t = MainTask
      <3>1. \A u \in GuardTasks \ {MainTask} : Depth(u) = 0
        BY <1>2, DepthType DEF GuardInv, MutexInv
      <3>2. QED
        BY <1>0, <3>1
    <2>3. QED
      BY <1>0, <1>2, <2>1, <2>2 DEF GuardInv, MutexInv
  <1>3. QED
    BY <1>1, <1>2

LEMMA SameDepthKeepsMutex ==
    ASSUME GuardInv, NEW t \in GuardTasks, UNCHANGED <<started, rholder, rcount>>,
           Depth(t)' = Depth(t), started \/ t = MainTask,
           \A u \in GuardTasks \ {t} : /\ Depth(u)' = Depth(u)
                                       /\ gpc'[u] = gpc[u]
                                       /\ building'[u] = building[u]
    PROVE  MutexInv'
  <1>1. started => \A u \in GuardTasks : BalancedFor(u)'
    BY DEF GuardInv, MutexInv, BalancedFor
  <1>2. QED
    BY <1>1 DEF GuardInv, MutexInv

(* The second test, under the mutex. *)
LEMMA RetestKeeps ==
    ASSUME GuardInv, NEW t \in GuardTasks, AcquireRetest(t)
    PROVE  GuardInv'
  <1>0. GuardTypeOK /\ gpc[t] = "retest"
        /\ gpc' = [gpc EXCEPT ![t] = "run"]
        /\ UNCHANGED <<started, inited, want, built>>
    BY DEF AcquireRetest, GuardInv
  <1>1. /\ gpc'[t] = "run"
        /\ gpc' \in [GuardTasks -> {"run", "take", "retest", "give"}]
    BY <1>0 DEF GuardTypeOK
  <1>2. /\ Depth(t) = Len(building[t]) + 1 /\ Len(building[t]) \in Nat
        /\ building[t] \in Seq(Statics)
    BY <1>0, DepthType DEF Depth
  <1>s. started \/ t = MainTask
    BY <1>0 DEF GuardInv, MutexInv
  <1>3. CASE want[t] \in inited
    <2>1. GiveGuard(t) /\ building' = building
      BY <1>3 DEF AcquireRetest, AlreadyDone
    <2>2. \A u \in GuardTasks \ {t} :
            gpc'[u] = gpc[u] /\ building'[u] = building[u] /\ Depth(u)' = Depth(u)
      BY <1>0, <2>1, OthersKeep
    <2>3. Depth(t)' = Depth(t) - 1 /\ Depth(t) > 0
      <3>1. Depth(t)' = Len(building[t])
        BY <1>1, <1>2, <2>1 DEF Depth
      <3>2. QED
        BY <1>2, <3>1
    <2>4. MutexInv' /\ rholder' \in GuardTasks \cup {"none"} /\ rcount' \in Nat
      BY <1>0, <2>1, <2>2, <2>3, GiveKeepsMutex
    <2>5. \A u \in GuardTasks : ContentOf(u)'
      BY <1>0, <1>1, <2>1, <2>2 DEF GuardInv, ContentInv, ContentOf
    <2>6. GuardTypeOK' /\ ContentInv'
      BY <1>0, <1>1, <2>1, <2>4, <2>5 DEF GuardInv, GuardTypeOK, ContentInv
    <2>7. QED
      BY <2>4, <2>6 DEF GuardInv
  <1>4. CASE want[t] \notin inited
    <2> DEFINE q == Append(building[t], want[t])
    <2>0. building' = [building EXCEPT ![t] = q] /\ UNCHANGED <<rholder, rcount>>
      BY <1>4 DEF AcquireRetest, AlreadyDone
    <2>w. /\ want[t] \in Statics
          /\ \A i \in 1..Len(building[t]) : building[t][i] # want[t]
      BY <1>0 DEF GuardInv, ContentInv, ContentOf
    <2>1. /\ q \in Seq(Statics) /\ Len(q) = Len(building[t]) + 1
          /\ \A i \in 1..Len(building[t]) : q[i] = building[t][i]
          /\ q[Len(building[t]) + 1] = want[t]
      BY <1>2, <2>w, AppendProperties
    <2> HIDE DEF q
    <2>2. \A u \in GuardTasks \ {t} :
            gpc'[u] = gpc[u] /\ building'[u] = building[u] /\ Depth(u)' = Depth(u)
      BY <1>0, <2>0, OthersKeep
    <2>3. building'[t] = q /\ Depth(t)' = Depth(t)
          /\ building' \in [GuardTasks -> Seq(Statics)]
      BY <1>0, <1>1, <1>2, <2>0, <2>1 DEF Depth, GuardTypeOK
    <2>4. MutexInv'
      BY <1>0, <1>s, <2>0, <2>2, <2>3, SameDepthKeepsMutex
    <2>5. ContentOf(t)'
      <3>1. \A i, j \in 1..Len(building[t]) :
              i # j => building[t][i] # building[t][j]
        BY DEF GuardInv, ContentInv, ContentOf
      <3>2. \A i \in 1..Len(building[t]) : building[t][i] \notin inited
        BY DEF GuardInv, ContentInv, ContentOf
      <3>3. \A i \in 1..Len(q) :
              \/ i \in 1..Len(building[t]) /\ q[i] = building[t][i]
              \/ i = Len(building[t]) + 1 /\ q[i] = want[t]
        BY <1>2, <2>1
      <3>4. \A i, j \in 1..Len(q) : i # j => q[i] # q[j]
        BY <2>w, <3>1, <3>3
      <3>5. \A i \in 1..Len(q) : q[i] \notin inited
        BY <1>4, <3>2, <3>3
      <3>6. QED
        BY <1>0, <1>1, <2>3, <3>4, <3>5 DEF ContentOf
    <2>6. \A u \in GuardTasks \ {t} : ContentOf(u)'
      BY <1>0, <2>2 DEF GuardInv, ContentInv, ContentOf
    <2>7. GuardTypeOK' /\ ContentInv'
      BY <1>0, <1>1, <2>0, <2>3, <2>5, <2>6 DEF GuardInv, GuardTypeOK, ContentInv
    <2>8. QED
      BY <2>4, <2>7 DEF GuardInv
  <1>5. QED
    BY <1>3, <1>4

(* A constructor returns or throws: its static leaves the task's stack. *)
LEMMA LeaveKeeps ==
    ASSUME GuardInv, NEW t \in GuardTasks, ReleaseStore(t) \/ Throw(t)
    PROVE  GuardInv'
  <1> DEFINE b == building[t]
             f == SubSeq(b, 1, Len(b) - 1)
             s == b[Len(b)]
  <1>0. /\ GuardTypeOK /\ gpc[t] = "run" /\ b # <<>>
        /\ building' = [building EXCEPT ![t] = f]
        /\ gpc' = [gpc EXCEPT ![t] = "give"]
        /\ UNCHANGED <<started, rholder, rcount, want>>
    BY DEF ReleaseStore, Throw, GuardInv
  <1>1. /\ gpc'[t] = "give"
        /\ gpc' \in [GuardTasks -> {"run", "take", "retest", "give"}]
    BY <1>0 DEF GuardTypeOK
  <1>2. /\ f \in Seq(Statics) /\ Len(f) = Len(b) - 1
        /\ Len(b) \in Nat \ {0} /\ s \in Statics
        /\ \A i \in 1..(Len(b) - 1) : f[i] = b[i]
    <2>1. b \in Seq(Statics)
      BY <1>0, DepthType
    <2>2. QED
      BY <1>0, <2>1, FrontFacts
  <1> HIDE DEF f
  <1>3. \A u \in GuardTasks \ {t} :
          gpc'[u] = gpc[u] /\ building'[u] = building[u] /\ Depth(u)' = Depth(u)
    BY <1>0, OthersKeep
  <1>4. building'[t] = f /\ building' \in [GuardTasks -> Seq(Statics)]
    BY <1>0, <1>2 DEF GuardTypeOK
  <1>5. Depth(t) = Len(b) /\ Depth(t)' = Depth(t) /\ Depth(t) # 0
    BY <1>0, <1>1, <1>2, <1>4 DEF Depth
  <1>6. started \/ t = MainTask
    BY <1>0 DEF GuardInv, MutexInv
  <1>7. MutexInv'
    BY <1>0, <1>3, <1>5, <1>6, SameDepthKeepsMutex
  <1>8. \A u \in GuardTasks \ {t} : building[u] = <<>> /\ Len(building[u]) = 0
                                    /\ gpc[u] \notin {"retest", "give"}
    BY <1>0, <1>5, OneInside, DepthType DEF GuardInv
  <1>9. \A i, j \in 1..Len(b) : i # j => b[i] # b[j]
    BY DEF GuardInv, ContentInv, ContentOf
  <1>10. \A i \in 1..Len(f) : f[i] = b[i] /\ i \in 1..Len(b) /\ i # Len(b)
    BY <1>2
  <1>11. \A i \in 1..Len(f) : f[i] \notin inited \cup {s}
    <2>1. \A i \in 1..Len(b) : b[i] \notin inited
      BY DEF GuardInv, ContentInv, ContentOf
    <2>2. Len(b) \in 1..Len(b)
      BY <1>2
    <2>3. QED
      BY <1>9, <1>10, <2>1, <2>2
  <1>12. inited' \subseteq inited \cup {s}
    BY DEF ReleaseStore, Throw
  <1>13. ContentOf(t)'
    BY <1>1, <1>4, <1>9, <1>10, <1>11, <1>12 DEF ContentOf
  <1>14. \A u \in GuardTasks \ {t} : ContentOf(u)'
    <2>1. \A u \in GuardTasks \ {t} : Len(building'[u]) = 0
      BY <1>3, <1>8
    <2>2. \A u \in GuardTasks \ {t} : \A i \in 1..Len(building'[u]) : FALSE
      BY <2>1
    <2>3. \A u \in GuardTasks \ {t} :
            gpc'[u] \in {"take", "retest"} => want'[u] \in Statics
      BY <1>0, <1>3 DEF GuardInv, ContentInv, ContentOf
    <2>4. QED
      BY <2>2, <2>3 DEF ContentOf
  <1>15. /\ inited' \subseteq Statics /\ built' \in [Statics -> Nat]
         /\ \A x \in Statics : built'[x] = IF x \in inited' THEN 1 ELSE 0
    <2>0. /\ inited \subseteq Statics /\ built \in [Statics -> Nat]
          /\ \A x \in Statics : built[x] = IF x \in inited THEN 1 ELSE 0
      BY <1>0 DEF GuardInv, ContentInv, GuardTypeOK
    <2>1. CASE ReleaseStore(t)
      <3>1. s \notin inited
        <4>1. Len(b) \in 1..Len(b)
          BY <1>2
        <4>2. QED
          BY <4>1 DEF GuardInv, ContentInv, ContentOf
      <3>2. inited' = inited \cup {s} /\ built' = [built EXCEPT ![s] = @ + 1]
        BY <2>1 DEF ReleaseStore
      <3> HIDE DEF s
      <3>3. built'[s] = 1 /\ \A x \in Statics \ {s} : built'[x] = built[x]
        BY <1>2, <2>0, <3>1, <3>2
      <3>4. QED
        BY <1>2, <2>0, <3>1, <3>2, <3>3
    <2>2. CASE Throw(t)
      BY <2>0, <2>2 DEF Throw
    <2>3. QED
      BY <2>1, <2>2
  <1>16. GuardTypeOK'
    BY <1>0, <1>1, <1>4, <1>15 DEF GuardTypeOK
  <1>17. QED
    BY <1>7, <1>13, <1>14, <1>15, <1>16 DEF GuardInv, ContentInv

(* The mutex is given back after a constructor. *)
LEMMA GiveKeeps ==
    ASSUME GuardInv, NEW t \in GuardTasks, __cxa_guard_abort(t)
    PROVE  GuardInv'
  <1>0. GuardTypeOK /\ gpc[t] = "give" /\ building' = building
        /\ gpc' = [gpc EXCEPT ![t] = "run"] /\ GiveGuard(t)
        /\ UNCHANGED <<started, inited, want, built>>
    BY DEF __cxa_guard_abort, GuardInv
  <1>1. /\ gpc'[t] = "run"
        /\ gpc' \in [GuardTasks -> {"run", "take", "retest", "give"}]
    BY <1>0 DEF GuardTypeOK
  <1>2. Len(building[t]) \in Nat
    BY <1>0, DepthType
  <1>3. \A u \in GuardTasks \ {t} :
          gpc'[u] = gpc[u] /\ building'[u] = building[u] /\ Depth(u)' = Depth(u)
    BY <1>0, OthersKeep
  <1>4. Depth(t)' = Depth(t) - 1 /\ Depth(t) > 0
    BY <1>0, <1>1, <1>2 DEF Depth
  <1>5. MutexInv' /\ rholder' \in GuardTasks \cup {"none"} /\ rcount' \in Nat
    BY <1>0, <1>3, <1>4, GiveKeepsMutex
  <1>6. \A u \in GuardTasks : ContentOf(u)'
    BY <1>0, <1>1, <1>3 DEF GuardInv, ContentInv, ContentOf
  <1>7. GuardTypeOK' /\ ContentInv'
    BY <1>0, <1>1, <1>5, <1>6 DEF GuardInv, GuardTypeOK, ContentInv
  <1>8. QED
    BY <1>5, <1>7 DEF GuardInv

(* The first test, outside the mutex. *)
LEMMA TestKeeps ==
    ASSUME GuardInv, NEW t \in GuardTasks, NEW s \in Statics, AcquireTest(t, s)
    PROVE  GuardInv'
  <1>0. GuardTypeOK /\ gpc[t] = "run" /\ building' = building
        /\ gpc' = [gpc EXCEPT ![t] = "take"] /\ want' = [want EXCEPT ![t] = s]
        /\ UNCHANGED <<started, inited, rholder, rcount, built>>
        /\ (started \/ t = MainTask)
    BY DEF AcquireTest, MayRun, GuardInv
  <1>1. /\ gpc'[t] = "take" /\ want'[t] = s
        /\ gpc' \in [GuardTasks -> {"run", "take", "retest", "give"}]
        /\ want' \in [GuardTasks -> Statics \cup {0}]
    BY <1>0 DEF GuardTypeOK
  <1>2. Len(building[t]) \in Nat /\ building[t] \in Seq(Statics)
        /\ DOMAIN building[t] = 1..Len(building[t])
    BY <1>0, DepthType, LenProperties
  <1>3. \A u \in GuardTasks \ {t} :
          /\ gpc'[u] = gpc[u] /\ building'[u] = building[u] /\ Depth(u)' = Depth(u)
          /\ want'[u] = want[u]
    <2>1. \A u \in GuardTasks \ {t} :
            gpc'[u] = gpc[u] /\ building'[u] = building[u] /\ Depth(u)' = Depth(u)
      BY <1>0, OthersKeep
    <2>2. \A u \in GuardTasks \ {t} : want'[u] = want[u]
      BY <1>0 DEF GuardTypeOK
    <2>3. QED
      BY <2>1, <2>2
  <1>4. Depth(t)' = Depth(t)
    BY <1>0, <1>1 DEF Depth
  <1>5. MutexInv'
    BY <1>0, <1>3, <1>4, SameDepthKeepsMutex
  <1>6. \A i \in 1..Len(building[t]) : building[t][i] # s
    <2>1. \A i \in 1..Len(building[t]) : building[t][i] < s
      BY <1>2 DEF AcquireTest
    <2>2. s \in Int /\ \A i \in 1..Len(building[t]) : building[t][i] \in Int
      BY <1>2, GuardAssumption, ElementOfSeq
    <2>3. QED
      BY <2>1, <2>2
  <1>7. ContentOf(t)'
    BY <1>0, <1>1, <1>6 DEF GuardInv, ContentInv, ContentOf
  <1>8. \A u \in GuardTasks \ {t} : ContentOf(u)'
    BY <1>0, <1>3 DEF GuardInv, ContentInv, ContentOf
  <1>9. GuardTypeOK' /\ ContentInv'
    BY <1>0, <1>1, <1>7, <1>8 DEF GuardInv, GuardTypeOK, ContentInv
  <1>10. QED
    BY <1>5, <1>9 DEF GuardInv

(* The scheduler starts when the main program is in no constructor: nobody is. *)
LEMMA StartKeeps ==
    ASSUME GuardInv, StartScheduler
    PROVE  GuardInv'
  <1>1. /\ ~started /\ started' = TRUE
        /\ UNCHANGED <<inited, rholder, rcount, building, gpc, want, built>>
        /\ gpc[MainTask] = "run" /\ building[MainTask] = <<>>
    BY DEF StartScheduler
  <1>2. \A t \in GuardTasks : gpc[t] = "run" /\ building[t] = <<>>
    BY <1>1 DEF GuardInv, MutexInv
  <1>3. \A t \in GuardTasks : Depth(t) = 0
    BY <1>2, DepthType DEF GuardInv
  <1>4. \A t \in GuardTasks : Depth(t)' = Depth(t)
    BY <1>1 DEF Depth
  <1>5. rholder = "none"
    BY <1>1 DEF GuardInv, MutexInv
  <1>6. \A t \in GuardTasks : BalancedFor(t)'
    BY <1>1, <1>3, <1>4, <1>5, GuardAssumption DEF BalancedFor
  <1>7. MutexInv'
    BY <1>1, <1>6 DEF GuardInv, MutexInv
  <1>8. GuardTypeOK' /\ ContentInv'
    BY <1>1 DEF GuardInv, GuardTypeOK, ContentInv, ContentOf
  <1>9. QED
    BY <1>7, <1>8 DEF GuardInv

LEMMA GuardStutter == GuardInv /\ UNCHANGED guardVars => GuardInv'
  BY DEF guardVars, GuardInv, GuardTypeOK, MutexInv, ContentInv, ContentOf,
         BalancedFor, Depth

LEMMA GuardKeeps == GuardInv /\ [GuardNext]_guardVars => GuardInv'
  BY GuardStutter, StartKeeps, TakeKeeps, RetestKeeps, LeaveKeeps, GiveKeeps,
     TestKeeps DEF GuardNext, GuardStep

LEMMA GuardStart == GuardInit => GuardInv
  <1> SUFFICES ASSUME GuardInit PROVE GuardInv
    OBVIOUS
  <1>1. <<>> \in Seq(Statics) /\ Len(<<>>) = 0
    OBVIOUS
  <1>2. GuardTypeOK
    BY <1>1 DEF GuardInit, GuardTypeOK
  <1>3. MutexInv
    BY DEF GuardInit, MutexInv
  <1>4. \A t \in GuardTasks : building[t] = <<>> /\ gpc[t] = "run"
    BY DEF GuardInit
  <1>5. \A t \in GuardTasks : ContentOf(t)
    <2>1. \A i \in 1..0 : FALSE
      OBVIOUS
    <2>2. \A t \in GuardTasks : Len(building[t]) = 0
      BY <1>1, <1>4
    <2>3. QED
      BY <1>4, <2>1, <2>2 DEF ContentOf
  <1>6. ContentInv
    BY <1>5 DEF GuardInit, ContentInv
  <1>7. QED
    BY <1>2, <1>3, <1>6 DEF GuardInv

LEMMA GuardInvSuffices == GuardInv => OneConstructor /\ GuardIsBalanced
  <1> SUFFICES ASSUME GuardInv PROVE OneConstructor /\ GuardIsBalanced
    OBVIOUS
  <1>1. GuardIsBalanced
    BY DEF GuardInv, MutexInv, BalancedFor, Depth, GuardIsBalanced
  <1>2. \A s \in Statics : built[s] <= 1
    BY DEF GuardInv, ContentInv
  <1>3. ASSUME NEW s \in Statics, NEW t \in GuardTasks, NEW u \in GuardTasks,
               NEW i \in DOMAIN building[t], NEW j \in DOMAIN building[u],
               building[t][i] = s, building[u][j] = s
        PROVE  t = u /\ s \notin inited
    <2>1. /\ building[t] \in Seq(Statics) /\ building[u] \in Seq(Statics)
          /\ i \in 1..Len(building[t]) /\ j \in 1..Len(building[u])
          /\ Len(building[t]) \in Nat /\ Len(building[u]) \in Nat
      BY <1>3, DepthType, LenProperties DEF GuardInv
    <2>2. building[t] # <<>> /\ building[u] # <<>>
      BY <2>1
    <2>3. Depth(t) # 0 /\ Depth(u) # 0
      BY <2>2, DepthType DEF GuardInv
    <2>4. t = u
      BY <2>3, OneInside
    <2>5. s \notin inited
      BY <1>3, <2>1 DEF GuardInv, ContentInv, ContentOf
    <2>6. QED
      BY <2>4, <2>5
  <1>4. OneConstructor
    BY <1>2, <1>3 DEF OneConstructor
  <1>5. QED
    BY <1>1, <1>4

(* A static has one constructor and the recursive mutex follows the nesting of
   constructors, whichever tasks meet at the guards, before and after the
   scheduler starts, and whichever constructors throw. *)
THEOREM GuardIsSafe == GuardSpec => [](OneConstructor /\ GuardIsBalanced)
  BY GuardStart, GuardKeeps, GuardInvSuffices, PTL DEF GuardSpec

(* The port gives the run-time library what it asks for. *)
THEOREM PortIsSound ==
    GuardSpec /\ HeapSpec /\ ClockSpec => []LibraryPortIsSound
  <1>1. OneConstructor /\ GuardIsBalanced /\ HeapIsExclusive /\ MaskIsBalanced
        /\ ClockErrorIsBounded => LibraryPortIsSound
    BY DEF LibraryPortIsSound
  <1>2. QED
    BY <1>1, GuardIsSafe, HeapIsSafe, ClockErrs, PTL

-----------------------------------------------------------------------------
(* Waiting for a condition variable. *)

(* A set of naturals has a least element; induction over a range follows.   *)
LEMMA LeastNatural == ASSUME NEW S \in SUBSET Nat, S # {} PROVE \E m \in S : \A n \in S : m <= n
<1> DEFINE R == OpToRel(<, Nat)
<1>1. IsWellFoundedOn(R, Nat)
    BY NatLessThanWellFounded
<1>2. \A a, b \in Nat : <<a, b>> \in R <=> a < b
    BY DEF OpToRel
<1> HIDE DEF R
<1>3. PICK x \in S : \A y \in S : ~ (<<y, x>> \in R)
    BY <1>1, WFMin, Zenon
<1>4. \A y \in S : ~(y < x)
    BY <1>2, <1>3, Zenon
<1>5. \A y \in S : x <= y
    BY <1>4
<1> QED BY <1>5

(* Induction over a range. *)
LEMMA UpRange ==
    ASSUME NEW M \in Nat, NEW S, 0 \in S, \A k \in Nat : k < M /\ k \in S => k + 1 \in S
    PROVE  \A k \in 0 .. M : k \in S
<1> SUFFICES ASSUME NEW k \in 0 .. M, k \notin S PROVE FALSE
    OBVIOUS
<1> DEFINE T == {n \in 0 .. M : n \notin S}
<1>1. T \in SUBSET Nat /\ T # {}
    OBVIOUS
<1>2. PICK m \in T : \A n \in T : m <= n
    BY <1>1, LeastNatural
<1>3. m # 0 /\ m - 1 \in Nat /\ m - 1 < M /\ m - 1 \notin T
    BY <1>2
<1>4. m - 1 \in S
    BY <1>2, <1>3
<1> QED BY <1>2, <1>3, <1>4

(* The recursion of list::remove has a solution, so that it can be unfolded. *)
LEMMA RemoveUnfolds ==
    ASSUME NEW ts, Len(ts) \in Nat, NEW t
    PROVE  \A i \in 0 .. Len(ts) : removeUpTo(ts, t)[i] = RemoveStep(ts, t, removeUpTo(ts, t), i)
<1> DEFINE M == Len(ts)
           Solved(k) == \E g : \A i \in 0 .. M : i < k => g[i] = RemoveStep(ts, t, g, i)
           S == {k \in Nat : Solved(k)}
<1> HIDE DEF M
<1>0. M \in Nat
    BY DEF M
<1>1. 0 \in S
    BY <1>0
<1>2. ASSUME NEW k \in Nat, k < M + 1, k \in S PROVE k + 1 \in S
    <2>1. PICK g : \A i \in 0 .. M : i < k => g[i] = RemoveStep(ts, t, g, i)
        BY <1>2
    <2> DEFINE h == [i \in 0 .. M |-> IF i = k THEN RemoveStep(ts, t, g, i) ELSE g[i]]
    <2>2. ASSUME NEW i \in 0 .. M, i < k + 1 PROVE h[i] = RemoveStep(ts, t, h, i)
        <3>1. i # 0 => i - 1 \in 0 .. M /\ i - 1 # k /\ h[i - 1] = g[i - 1]
            BY <1>0, <1>2, <2>2
        <3>2. h[i] = IF i = k THEN RemoveStep(ts, t, g, i) ELSE g[i]
            OBVIOUS
        <3> HIDE DEF h
        <3>3. RemoveStep(ts, t, h, i) = RemoveStep(ts, t, g, i)
            BY <3>1 DEF RemoveStep
        <3>4. i # k => i < k
            BY <2>2
        <3> QED BY <2>1, <3>2, <3>3, <3>4
    <2> HIDE DEF h
    <2> QED BY <2>2
<1>3. M + 1 \in S
    <2> HIDE DEF S
    <2>1. M + 1 \in Nat /\ \A k \in 0 .. M + 1 : k \in S
        BY <1>0, <1>1, <1>2, UpRange
    <2> QED BY <1>0, <2>1
<1>4. PICK g : \A i \in 0 .. M : g[i] = RemoveStep(ts, t, g, i)
    BY <1>0, <1>3
<1> DEFINE Solves(x) == x = [i \in 0 .. M |-> RemoveStep(ts, t, x, i)]
           h == [i \in 0 .. M |-> g[i]]
<1>5. Solves(h)
    <2>1. ASSUME NEW i \in 0 .. M PROVE h[i] = RemoveStep(ts, t, h, i)
        <3>1. i # 0 => h[i - 1] = g[i - 1]
            BY <1>0
        <3>2. h[i] = g[i]
            OBVIOUS
        <3> HIDE DEF h
        <3>3. RemoveStep(ts, t, h, i) = RemoveStep(ts, t, g, i)
            BY <3>1 DEF RemoveStep
        <3> QED BY <1>4, <3>2, <3>3
    <2> QED BY <2>1
<1>6. removeUpTo(ts, t) = CHOOSE x : Solves(x)
    BY DEF removeUpTo, M
<1> HIDE DEF h
<1>7. Solves(removeUpTo(ts, t))
    <2> HIDE DEF Solves
    <2> QED BY <1>5, <1>6, Zenon
<1>8. \A i \in 0 .. M : removeUpTo(ts, t)[i] = RemoveStep(ts, t, removeUpTo(ts, t), i)
    BY <1>7
<1> QED BY <1>8 DEF M

Listed(ts, x) == \E i \in DOMAIN ts : ts[i] = x

(* list::remove takes out one thread and leaves every other. *)
LEMMA RemoveKeepsOthers ==
    ASSUME NEW T, NEW ts \in Seq(T), NEW t
    PROVE  remove(ts, t) \in Seq(T) /\ \A x : x # t /\ Listed(ts, x) => Listed(remove(ts, t), x)
<1> DEFINE M == Len(ts)
           f == removeUpTo(ts, t)
           Good(k) == f[k] \in Seq(T) /\ \A i \in 1 .. k : ts[i] # t => Listed(f[k], ts[i])
           S == {k \in Nat : Good(k)}
<1>0. M \in Nat /\ DOMAIN ts = 1 .. M /\ \A i \in 1 .. M : ts[i] \in T
    OBVIOUS
<1>1. \A k \in 0 .. M : f[k] = RemoveStep(ts, t, f, k)
    BY <1>0, RemoveUnfolds
<1> HIDE DEF M, f
<1>2. 0 \in S
    <2>1. f[0] = <<>>
        BY <1>0, <1>1 DEF RemoveStep
    <2>2. <<>> \in Seq(T)
        OBVIOUS
    <2>3. \A i \in 1 .. 0 : FALSE
        OBVIOUS
    <2> QED BY <2>1, <2>2, <2>3
<1>3. ASSUME NEW k \in Nat, k < M, k \in S PROVE k + 1 \in S
    <2>1. k + 1 \in 1 .. M /\ k + 1 \in 0 .. M /\ k + 1 - 1 = k /\ k + 1 # 0 /\ k + 1 \in Nat
        BY <1>0, <1>3
    <2>2. f[k + 1] = IF ts[k + 1] = t THEN f[k] ELSE Append(f[k], ts[k + 1])
        <3>1. f[k + 1] = RemoveStep(ts, t, f, k + 1)
            BY <1>1, <2>1
        <3> QED BY <2>1, <3>1 DEF RemoveStep
    <2>3. f[k] \in Seq(T) /\ \A i \in 1 .. k : ts[i] # t => Listed(f[k], ts[i])
        BY <1>3
    <2>4. \A i \in 1 .. k + 1 : i \in 1 .. k \/ i = k + 1
        BY <1>3
    <2>5. CASE ts[k + 1] = t
        BY <2>1, <2>2, <2>3, <2>4, <2>5
    <2>6. CASE ts[k + 1] # t
        <3> DEFINE y == ts[k + 1]
                   s == f[k]
        <3>0. y \in T /\ s \in Seq(T)
            BY <1>0, <2>1, <2>3
        <3> HIDE DEF y, s
        <3>1. /\ Append(s, y) \in Seq(T) /\ Len(s) \in Nat /\ DOMAIN s = 1 .. Len(s)
              /\ DOMAIN Append(s, y) = 1 .. Len(s) + 1
              /\ \A i \in 1 .. Len(s) : Append(s, y)[i] = s[i]
              /\ Append(s, y)[Len(s) + 1] = y
            BY <3>0, AppendProperties
        <3>2. Listed(Append(s, y), y)
            BY <3>1 DEF Listed
        <3>3. \A x : Listed(s, x) => Listed(Append(s, y), x)
            BY <3>1 DEF Listed
        <3>4. f[k + 1] = Append(s, y)
            BY <2>2, <2>6 DEF s, y
        <3>5. \A i \in 1 .. k + 1 : ts[i] # t => Listed(f[k + 1], ts[i])
            BY <2>3, <2>4, <3>2, <3>3, <3>4 DEF s, y
        <3> QED BY <2>1, <3>1, <3>4, <3>5
    <2> QED BY <2>5, <2>6
<1>4. M \in S
    <2> HIDE DEF S
    <2>1. \A k \in 0 .. M : k \in S
        BY <1>0, <1>2, <1>3, UpRange
    <2> QED BY <1>0, <2>1
<1>5. f[M] \in Seq(T) /\ \A i \in 1 .. M : ts[i] # t => Listed(f[M], ts[i])
    BY <1>4
<1>6. remove(ts, t) = f[M]
    BY DEF remove, f, M
<1> QED BY <1>0, <1>5, <1>6 DEF Listed

CondInv ==
    /\ waiting \in Seq(Threads)
    /\ notified \in [Threads -> Nat]
    /\ DOMAIN at = Threads
    /\ WaitersAreListed

LEMMA CondStart == CondInit => CondInv
<1> SUFFICES ASSUME CondInit PROVE CondInv
    OBVIOUS
<1>1. waiting \in Seq(Threads)
    BY DEF CondInit
<1>2. at = [t \in Threads |-> "idle"] /\ \A t \in Consumers : at[t] = "idle"
    BY DEF CondInit, Threads
<1> QED BY <1>1, <1>2 DEF CondInit, CondInv, WaitersAreListed

(* A step after which every other waiter is listed or notified as before. *)
LEMMA OtherWaiters ==
    ASSUME CondInv, NEW t \in Threads, NEW where, Goto(t, where),
           waiting' \in Seq(Threads), notified' \in [Threads -> Nat],
           \A x \in Threads : x # t /\ notified'[x] = 0 /\ Listed(waiting, x) => Listed(waiting', x),
           \A x \in Threads : x # t /\ notified'[x] = 0 => notified[x] = 0,
           where \in {"queued", "blocked"} /\ notified'[t] = 0 => Listed(waiting', t)
    PROVE  CondInv'
<1>1. DOMAIN at' = Threads /\ at'[t] = where /\ \A x \in Threads : x # t => at'[x] = at[x]
    BY DEF Goto, CondInv
<1>2. ASSUME NEW x \in Consumers, at'[x] \in {"queued", "blocked"}, notified'[x] = 0 PROVE Listed(waiting', x)
    <2>1. x \in Threads
        BY DEF Threads
    <2>2. CASE x = t
        BY <1>1, <1>2, <2>2
    <2>3. CASE x # t
        <3>1. Listed(waiting, x)
            BY <1>1, <1>2, <2>1, <2>3 DEF CondInv, WaitersAreListed, Listed
        <3> QED BY <1>2, <2>1, <2>3, <3>1
    <2> QED BY <2>2, <2>3
<1>3. WaitersAreListed'
    BY <1>2 DEF WaitersAreListed, Listed
<1> QED BY <1>1, <1>3 DEF CondInv

(* Only the signal and the broadcast take others out of the list. *)
LEMMA CondStep == CondInv /\ [CondNext]_condVars => CondInv'
<1> SUFFICES ASSUME CondInv, [CondNext]_condVars PROVE CondInv'
    OBVIOUS
<1>0. waiting \in Seq(Threads) /\ notified \in [Threads -> Nat] /\ DOMAIN at = Threads
    BY DEF CondInv
<1>00. Consumers \subseteq Threads /\ Producers \subseteq Threads
    BY DEF Threads
<1>1. ASSUME NEW t \in Threads, NEW where, Goto(t, where), UNCHANGED <<waiting, notified>>,
             where \notin {"queued", "blocked"}
      PROVE  CondInv'
    BY <1>0, <1>1, OtherWaiters
<1>2. ASSUME NEW t \in Consumers, CondPush(t) PROVE CondInv'
    <2>1. waiting' = Append(waiting, t) /\ notified' = notified /\ Goto(t, "queued") /\ t \in Threads
        BY <1>00, <1>2 DEF CondPush
    <2>2. /\ Append(waiting, t) \in Seq(Threads) /\ Len(waiting) \in Nat /\ DOMAIN waiting = 1 .. Len(waiting)
          /\ DOMAIN Append(waiting, t) = 1 .. Len(waiting) + 1
          /\ \A i \in 1 .. Len(waiting) : Append(waiting, t)[i] = waiting[i]
          /\ Append(waiting, t)[Len(waiting) + 1] = t
        BY <1>0, <2>1, AppendProperties
    <2>3. Listed(waiting', t) /\ \A x : Listed(waiting, x) => Listed(waiting', x)
        BY <2>1, <2>2 DEF Listed
    <2> QED BY <1>0, <2>1, <2>2, <2>3, OtherWaiters
<1>3. ASSUME NEW t \in Consumers, ReleaseForWait(t) PROVE CondInv'
    <2>1. waiting' = waiting /\ notified' = notified /\ Goto(t, "blocked") /\ t \in Threads /\ at[t] = "queued"
        BY <1>00, <1>3 DEF ReleaseForWait
    <2>2. notified[t] = 0 => Listed(waiting, t)
        BY <2>1 DEF CondInv, WaitersAreListed, Listed
    <2> QED BY <1>0, <2>1, <2>2, OtherWaiters
<1>4. ASSUME NEW t \in Consumers, Woken(t) PROVE CondInv'
    <2>1. waiting' = waiting /\ notified' = [notified EXCEPT ![t] = 0] /\ Goto(t, "woken") /\ t \in Threads
        BY <1>00, <1>4 DEF Woken
    <2>2. notified' \in [Threads -> Nat] /\ \A x \in Threads : x # t => notified'[x] = notified[x]
        BY <1>0, <2>1
    <2> QED BY <1>0, <2>1, <2>2, OtherWaiters
<1>5. ASSUME NEW t \in Consumers, CondRemove(t) PROVE CondInv'
    <2>1. waiting' = remove(waiting, t) /\ notified' = notified /\ Goto(t, "idle") /\ t \in Threads
        BY <1>00, <1>5 DEF CondRemove
    <2>2. remove(waiting, t) \in Seq(Threads) /\ \A x : x # t /\ Listed(waiting, x) => Listed(remove(waiting, t), x)
        BY <1>0, RemoveKeepsOthers
    <2> QED BY <1>0, <2>1, <2>2, OtherWaiters
<1>6. ASSUME NEW t \in Producers, __gthread_cond_signal(t) PROVE CondInv'
    <2>1. /\ waiting' = IF waiting = <<>> THEN waiting ELSE Tail(waiting)
          /\ notified' = [x \in Threads |-> IF x \in Signalled(waiting) THEN notified[x] + 1 ELSE notified[x]]
          /\ Goto(t, "idle") /\ t \in Threads
        BY <1>00, <1>6 DEF __gthread_cond_signal
    <2>2. \A x \in Threads : notified[x] \in Nat /\ notified[x] + 1 \in Nat /\ notified[x] + 1 # 0
        BY <1>0
    <2>3. notified' \in [Threads -> Nat]
        BY <1>0, <2>1, <2>2
    <2>4. \A x \in Threads : notified'[x] = 0 => notified[x] = 0 /\ x \notin Signalled(waiting)
        BY <2>1, <2>2
    <2>5. CASE waiting = <<>>
        BY <1>0, <2>1, <2>3, <2>4, <2>5, OtherWaiters
    <2>6. CASE waiting # <<>>
        <3>1. /\ Tail(waiting) \in Seq(Threads) /\ Len(waiting) \in Nat \ {0} /\ Len(Tail(waiting)) = Len(waiting) - 1
              /\ \A i \in 1 .. Len(Tail(waiting)) : Tail(waiting)[i] = waiting[i + 1]
              /\ Head(waiting) = waiting[1]
            BY <1>0, <2>6, HeadTailProperties, EmptySeq
        <3>2. DOMAIN waiting = 1 .. Len(waiting) /\ DOMAIN Tail(waiting) = 1 .. Len(waiting) - 1
            BY <1>0, <3>1
        <3>3. ASSUME NEW x \in Threads, notified'[x] = 0, Listed(waiting, x) PROVE Listed(waiting', x)
            <4>1. PICK i \in 1 .. Len(waiting) : waiting[i] = x
                BY <3>2, <3>3 DEF Listed
            <4>2. i # 1
                BY <2>4, <2>6, <3>1, <3>3, <4>1 DEF Signalled
            <4>3. i - 1 \in 1 .. Len(waiting) - 1 /\ (i - 1) + 1 = i
                BY <3>1, <4>2
            <4>4. Tail(waiting)[i - 1] = x
                BY <3>1, <4>1, <4>3
            <4> QED BY <2>1, <2>6, <3>2, <4>3, <4>4 DEF Listed
        <3> QED BY <1>0, <2>1, <2>3, <2>4, <2>6, <3>1, <3>3, OtherWaiters
    <2> QED BY <2>5, <2>6
<1>7. ASSUME NEW t \in Producers, __gthread_cond_broadcast(t) PROVE CondInv'
    <2> DEFINE places(x) == {i \in DOMAIN waiting : waiting[i] = x}
    <2>1. /\ waiting' = <<>> /\ notified' = [x \in Threads |-> notified[x] + Cardinality(places(x))]
          /\ Goto(t, "idle") /\ t \in Threads
        BY <1>00, <1>7 DEF __gthread_cond_broadcast
    <2>2. ASSUME NEW x \in Threads
          PROVE  /\ Cardinality(places(x)) \in Nat
                 /\ Listed(waiting, x) => Cardinality(places(x)) # 0
        <3>1. DOMAIN waiting = 1 .. Len(waiting) /\ Len(waiting) \in Nat
            BY <1>0
        <3>2. IsFiniteSet(1 .. Len(waiting))
            BY <3>1, FS_Interval
        <3>3. IsFiniteSet(places(x))
            BY <3>1, <3>2, FS_Subset
        <3>4. Cardinality(places(x)) \in Nat /\ (Cardinality(places(x)) = 0 <=> places(x) = {})
            BY <3>3, FS_CardinalityType, FS_EmptySet
        <3> QED BY <3>4 DEF Listed
    <2> HIDE DEF places
    <2>3. \A x \in Threads : notified[x] \in Nat
        BY <1>0
    <2>4. notified' \in [Threads -> Nat]
        BY <2>1, <2>2, <2>3
    <2>5. \A x \in Threads : notified'[x] = 0 => notified[x] = 0 /\ ~Listed(waiting, x)
        BY <2>1, <2>2, <2>3
    <2>6. <<>> \in Seq(Threads)
        OBVIOUS
    <2> QED BY <1>0, <2>1, <2>4, <2>5, <2>6, OtherWaiters
<1>8. CASE UNCHANGED condVars
    BY <1>8 DEF condVars, CondInv, WaitersAreListed
<1>9. ASSUME NEW t \in Threads, NEW from, NEW to, to \notin {"queued", "blocked"}, __gthread_mutex_lock(t, from, to)
      PROVE  CondInv'
    BY <1>1, <1>9 DEF __gthread_mutex_lock
<1>10. CASE \E t \in Threads : StartLock(t)
    BY <1>1, <1>10 DEF StartLock
<1>11. ASSUME NEW t \in Consumers, ConsumerStep(t) PROVE CondInv'
    <2>1. CASE TakeItem(t)
        BY <1>00, <1>1, <2>1 DEF TakeItem
    <2>2. CASE WaitTimeout(t)
        BY <1>00, <1>1, <2>2 DEF WaitTimeout
    <2> QED BY <1>00, <1>11, <1>2, <1>3, <1>4, <1>5, <1>9, <2>1, <2>2
            DEF ConsumerStep, __gthread_cond_wait, __gthread_cond_timedwait
<1>12. ASSUME NEW t \in Producers, ProducerStep(t) \/ __gthread_mutex_timedlock(t) PROVE CondInv'
    <2>1. CASE AddItem(t)
        BY <1>00, <1>1, <2>1 DEF AddItem
    <2>2. CASE __gthread_mutex_timedlock(t)
        BY <1>00, <1>1, <2>2 DEF __gthread_mutex_timedlock
    <2> QED BY <1>00, <1>12, <1>6, <1>7, <1>9, <2>1, <2>2 DEF ProducerStep
<1> QED BY <1>8, <1>10, <1>11, <1>12 DEF CondNext

(* A thread that waits for a condition variable and was not notified is in its
   list, whoever times out, signals or broadcasts in between. *)
THEOREM WaitersReachable == CondSpec => []WaitersAreListed
<1>1. CondInv => WaitersAreListed
    BY DEF CondInv
<1> QED BY <1>1, CondStart, CondStep, PTL DEF CondSpec

-----------------------------------------------------------------------------
(* The life of a thread. *)

TaskStates == {"none", "fresh", "copied", "running", "returned", "cleaned", "joined", "deleted", "freed"}
Ended == {"joined", "deleted", "freed"}
UserOps == {"idle", "move", "join", "detach", "assign"}

ThreadTypeOK ==
    /\ handle \in [Slots -> [task : Gens \cup {0}, ev : Gens \cup {0}, owner : BOOLEAN]]
    /\ task \in [Gens -> TaskStates]
    /\ source \in [Gens -> Slots \cup {"none"}]
    /\ local \in [Gens -> Gens \cup {0}]
    /\ tls \in SUBSET Gens /\ groups \in SUBSET Gens /\ value \in SUBSET Gens
    /\ bits \in [Gens -> SUBSET {"started", "join"}]
    /\ user \in [op : UserOps, from : Slots \cup {"none"}, to : Slots \cup {"none"}]

(* A handle that is not empty names one thread that was created, and no other
   handle names it. *)
HandlesInv ==
    /\ \A s \in Slots : handle[s] # NoHandle =>
         /\ handle[s].task \in Gens /\ handle[s].ev = handle[s].task
         /\ task[handle[s].task] # "none"
    /\ \A s, r \in Slots : handle[s] # NoHandle /\ handle[r].task = handle[s].task => r = s

(* A group has a handle; a handle that was detached has no group and is about
   to be assigned over. *)
GroupsInv ==
    /\ \A g \in groups : \E s \in Slots : handle[s] # NoHandle /\ handle[s].ev = g
    /\ \A s \in Slots : handle[s] # NoHandle /\ ~handle[s].owner =>
         handle[s].ev \notin groups /\ user.op = "assign" /\ user.from = s

(* What the user has begun is still possible. *)
UserInv ==
    user = NoOp \/
    /\ user.op # "idle" /\ user.from \in Slots /\ user.to \in Slots
    /\ handle[user.from] # NoHandle
    /\ user.op = "move" => handle[user.to] = NoHandle
    /\ user.op = "assign" => Started(handle[user.from].ev)
    /\ user.op = "assign" /\ handle[user.from].owner => task[handle[user.from].task] \in Ended

(* What the bits, the copies and the values say of a task's progress. *)
ProgressInv ==
    \A g \in Gens :
        /\ task[g] = "fresh" => source[g] \in Slots /\ handle[source[g]].task = g
        /\ task[g] \notin {"none", "fresh"} => local[g] = g
        /\ "started" \in bits[g] => task[g] \notin {"none", "fresh", "copied"}
        /\ "join" \in bits[g] => task[g] \in Ended
        /\ g \in value => task[g] \in {"running", "returned"}
        /\ g \in tls /\ task[g] \notin Ended => g \in groups

ThreadInv == ThreadTypeOK /\ HandlesInv /\ GroupsInv /\ UserInv /\ ProgressInv

LEMMA GensFacts == Gens \subseteq Nat /\ 0 \notin Gens
BY ThreadAssumption DEF Gens

LEMMA ThreadStart == ThreadInit => ThreadInv
<1> SUFFICES ASSUME ThreadInit PROVE ThreadInv
    OBVIOUS
<1>1. ThreadTypeOK
    <2>1. NoHandle \in [task : Gens \cup {0}, ev : Gens \cup {0}, owner : BOOLEAN]
        BY DEF NoHandle
    <2>2. NoOp \in [op : UserOps, from : Slots \cup {"none"}, to : Slots \cup {"none"}]
        BY DEF NoOp, UserOps
    <2> QED BY <2>1, <2>2 DEF ThreadInit, ThreadTypeOK, TaskStates
<1>2. HandlesInv /\ GroupsInv /\ UserInv /\ ProgressInv
    BY DEF ThreadInit, HandlesInv, GroupsInv, UserInv, ProgressInv
<1> QED BY <1>1, <1>2 DEF ThreadInv

(* A step of a task changes nothing that the handles and the user rely on. *)
LEMMA TaskKeeps ==
    ASSUME ThreadInv, NEW g \in Gens, TaskStep(g) \/ freertos_gthread_setspecific(g)
    PROVE  ThreadInv'
<1> USE DEF ThreadInv
<1>1. /\ UNCHANGED <<handle, source, tls, groups, user>>
      /\ task' \in [Gens -> TaskStates]
      /\ \A h \in Gens : h # g => task'[h] = task[h]
      /\ task[g] # "none" /\ task'[g] # "none" /\ task'[g] # "fresh"
      /\ task[g] \in Ended => task'[g] \in Ended
      /\ task[g] \notin {"none", "fresh", "copied"} => task'[g] \notin {"none", "fresh", "copied"}
    BY DEF TaskStep, CopyHandle, notify_started, freertos_gthread_setspecific, Return, CallDestructor,
           notify_joined, DeleteSelf, IdleFrees, SetTask, ThreadTypeOK, TaskStates, Ended
<1>2. /\ local' \in [Gens -> Gens \cup {0}] /\ local'[g] = g
      /\ \A h \in Gens : h # g => local'[h] = local[h]
    <2>1. CASE CopyHandle(g)
        <3>1. source[g] \in Slots /\ handle[source[g]].task = g
            BY <2>1 DEF CopyHandle, SetTask, ProgressInv
        <3> QED BY <2>1, <3>1 DEF CopyHandle, ThreadTypeOK
    <2>2. CASE ~CopyHandle(g)
        <3>1. local' = local /\ task[g] # "fresh"
            BY <2>2 DEF TaskStep, notify_started, freertos_gthread_setspecific, Return, CallDestructor,
                   notify_joined, DeleteSelf, IdleFrees, SetTask
        <3> QED BY <1>1, <3>1 DEF ProgressInv, ThreadTypeOK
    <2> QED BY <2>1, <2>2
<1>3. /\ bits' \in [Gens -> SUBSET {"started", "join"}]
      /\ \A h \in Gens : h # g => bits'[h] = bits[h]
      /\ bits[g] \subseteq bits'[g]
      /\ "started" \in bits'[g] => "started" \in bits[g] \/ task'[g] = "running"
      /\ "join" \in bits'[g] => "join" \in bits[g] \/ task'[g] = "joined"
    <2>1. CASE notify_started(g)
        <3>1. local[g] = g /\ g # 0 /\ task'[g] = "running"
            BY <2>1, GensFacts DEF notify_started, SetTask, ProgressInv, ThreadTypeOK
        <3>2. bits' = [bits EXCEPT ![g] = bits[g] \cup {"started"}]
            BY <2>1, <3>1 DEF notify_started
        <3> QED BY <3>1, <3>2 DEF ThreadTypeOK
    <2>2. CASE notify_joined(g)
        <3>1. task'[g] = "joined" /\ (bits' = [bits EXCEPT ![g] = bits[g] \cup {"join"}] \/ bits' = bits)
            BY <2>2 DEF notify_joined, SetTask, ThreadTypeOK
        <3> QED BY <3>1 DEF ThreadTypeOK
    <2>3. CASE ~notify_started(g) /\ ~notify_joined(g)
        <3>1. bits' = bits
            BY <2>3 DEF TaskStep, CopyHandle, freertos_gthread_setspecific, Return, CallDestructor,
                   DeleteSelf, IdleFrees
        <3> QED BY <3>1 DEF ThreadTypeOK
    <2> QED BY <2>1, <2>2, <2>3
<1>4. /\ value' \in SUBSET Gens
      /\ \A h \in Gens : h # g /\ h \in value' => h \in value
      /\ g \in value' => task'[g] \in {"running", "returned"}
    BY DEF TaskStep, CopyHandle, notify_started, freertos_gthread_setspecific, Return, CallDestructor, ValuesLeft,
           notify_joined, DeleteSelf, IdleFrees, SetTask, ThreadTypeOK, ProgressInv
<1>5. ThreadTypeOK'
    BY <1>1, <1>2, <1>3, <1>4 DEF ThreadTypeOK
<1>6. HandlesInv'
    BY <1>1 DEF HandlesInv
<1>7. GroupsInv'
    BY <1>1 DEF GroupsInv
<1>8. UserInv'
    <2>1. CASE user = NoOp
        BY <1>1, <2>1 DEF UserInv
    <2>2. CASE user # NoOp
        <3>1. handle[user.from].task \in Gens /\ handle[user.from].ev \in Gens
            BY <2>2 DEF UserInv, HandlesInv
        <3>2. Started(handle[user.from].ev) => Started(handle[user.from].ev)'
            BY <1>1, <1>3, <3>1 DEF Started
        <3>3. task[handle[user.from].task] \in Ended => task'[handle[user.from].task] \in Ended
            BY <1>1, <3>1
        <3> QED BY <1>1, <2>2, <3>2, <3>3 DEF UserInv
    <2> QED BY <2>1, <2>2
<1>9. ProgressInv'
    <2> SUFFICES ASSUME NEW h \in Gens
                 PROVE  /\ task'[h] = "fresh" => source'[h] \in Slots /\ handle'[source'[h]].task = h
                        /\ task'[h] \notin {"none", "fresh"} => local'[h] = h
                        /\ "started" \in bits'[h] => task'[h] \notin {"none", "fresh", "copied"}
                        /\ "join" \in bits'[h] => task'[h] \in Ended
                        /\ h \in value' => task'[h] \in {"running", "returned"}
                        /\ h \in tls' /\ task'[h] \notin Ended => h \in groups'
        BY DEF ProgressInv
    <2>1. CASE h # g
        BY <1>1, <1>2, <1>3, <1>4, <2>1 DEF ProgressInv
    <2>2. CASE h = g
        BY <1>1, <1>2, <1>3, <1>4, <2>2 DEF ProgressInv, Ended
    <2> QED BY <2>1, <2>2
<1> QED BY <1>5, <1>6, <1>7, <1>8, <1>9

(* The conjuncts of ProgressInv for one thread. *)
ThreadProgress(g) ==
    /\ task[g] = "fresh" => source[g] \in Slots /\ handle[source[g]].task = g
    /\ task[g] \notin {"none", "fresh"} => local[g] = g
    /\ "started" \in bits[g] => task[g] \notin {"none", "fresh", "copied"}
    /\ "join" \in bits[g] => task[g] \in Ended
    /\ g \in value => task[g] \in {"running", "returned"}
    /\ g \in tls /\ task[g] \notin Ended => g \in groups

(* A new thread has a new number, which no handle, value or bit mentions. *)
LEMMA CreateKeeps == ASSUME ThreadInv, NEW s \in Slots, create_thread(s) PROVE ThreadInv'
<1> USE DEF ThreadInv
<1>1. PICK g \in Gens :
         /\ task[g] = "none"
         /\ handle' = [handle EXCEPT ![s] = [task |-> g, ev |-> g, owner |-> TRUE]]
         /\ task' = [task EXCEPT ![g] = "fresh"]
         /\ source' = [source EXCEPT ![g] = s]
         /\ tls' = tls \cup {g}
         /\ groups' = groups \cup {g}
    BY DEF create_thread
<1>2. handle[s] = NoHandle /\ user = NoOp /\ UNCHANGED <<local, bits, value, user>>
    BY DEF create_thread
<1> DEFINE h == [task |-> g, ev |-> g, owner |-> TRUE]
<1>3. /\ h \in [task : Gens \cup {0}, ev : Gens \cup {0}, owner : BOOLEAN]
      /\ h.task = g /\ h.ev = g /\ h.owner /\ h # NoHandle
    BY GensFacts DEF NoHandle
<1>4. handle'[s] = h /\ \A r \in Slots : r # s => handle'[r] = handle[r]
    BY <1>1 DEF ThreadTypeOK
<1> HIDE DEF h
<1>5. task'[g] = "fresh" /\ source'[g] = s /\ \A k \in Gens : k # g => task'[k] = task[k] /\ source'[k] = source[k]
    BY <1>1 DEF ThreadTypeOK
<1>6. ThreadTypeOK'
    <2>1. handle' \in [Slots -> [task : Gens \cup {0}, ev : Gens \cup {0}, owner : BOOLEAN]]
        BY <1>1, <1>3 DEF ThreadTypeOK, h
    <2> QED BY <1>1, <1>2, <2>1 DEF ThreadTypeOK, TaskStates
<1>7. \A r \in Slots : r # s /\ handle[r].task = g => FALSE
    BY <1>1, GensFacts DEF HandlesInv, NoHandle
<1>8. HandlesInv'
    <2>1. \A r \in Slots : handle'[r] # NoHandle =>
             handle'[r].task \in Gens /\ handle'[r].ev = handle'[r].task /\ task'[handle'[r].task] # "none"
        BY <1>3, <1>4, <1>5, <1>7 DEF HandlesInv
    <2>2. \A r, q \in Slots : handle'[r] # NoHandle /\ handle'[q].task = handle'[r].task => q = r
        <3> SUFFICES ASSUME NEW r \in Slots, NEW q \in Slots, handle'[r] # NoHandle,
                            handle'[q].task = handle'[r].task, q # r
                     PROVE  FALSE
            OBVIOUS
        <3>1. CASE r = s
            BY <1>3, <1>4, <1>7, <3>1
        <3>2. CASE q = s
            BY <1>3, <1>4, <1>7, <3>2
        <3>3. CASE r # s /\ q # s
            BY <1>4, <3>3 DEF HandlesInv
        <3> QED BY <3>1, <3>2, <3>3
    <2> QED BY <2>1, <2>2 DEF HandlesInv
<1>9. GroupsInv'
    <2>1. ASSUME NEW k \in groups' PROVE \E r \in Slots : handle'[r] # NoHandle /\ handle'[r].ev = k
        <3>1. CASE k = g
            BY <1>3, <1>4, <3>1
        <3>2. CASE k # g
            <4>1. PICK r \in Slots : handle[r] # NoHandle /\ handle[r].ev = k
                BY <1>1, <3>2 DEF GroupsInv
            <4> QED BY <1>2, <1>4, <4>1
        <3> QED BY <3>1, <3>2
    <2>2. \A r \in Slots : handle'[r] # NoHandle => handle'[r].owner
        BY <1>2, <1>3, <1>4 DEF GroupsInv, NoOp
    <2> QED BY <2>1, <2>2 DEF GroupsInv
<1>10. UserInv'
    BY <1>2 DEF UserInv
<1>11. ASSUME NEW k \in Gens PROVE ThreadProgress(k)'
    <2>1. CASE k = g
        <3>1. k \notin value /\ bits[k] = {}
            BY <1>1, <2>1 DEF ProgressInv, ThreadTypeOK, Ended
        <3> QED BY <1>1, <1>2, <1>3, <1>4, <1>5, <2>1, <3>1 DEF ThreadProgress
    <2>2. CASE k # g
        <3>1. task[k] = "fresh" => handle'[source[k]].task = k
            BY <1>2, <1>4, GensFacts DEF ProgressInv, NoHandle
        <3> QED BY <1>1, <1>2, <1>5, <2>2, <3>1 DEF ThreadProgress, ProgressInv
    <2> QED BY <2>1, <2>2
<1>12. ProgressInv'
    BY <1>11 DEF ProgressInv, ThreadProgress
<1> QED BY <1>6, <1>8, <1>9, <1>10, <1>12

LEMMA BeginKeeps ==
    ASSUME ThreadInv, NEW s \in Slots, NEW d \in Slots, NEW op \in {"move", "join", "detach"},
           Begin(op, s, d), op = "move" => handle[d] = NoHandle
    PROVE  ThreadInv'
<1> USE DEF ThreadInv
<1>1. /\ user = NoOp /\ handle[s] # NoHandle /\ user' = [op |-> op, from |-> s, to |-> d]
      /\ UNCHANGED <<handle, task, source, local, tls, groups, bits, value>>
    BY DEF Begin
<1>2. ThreadTypeOK'
    <2>1. user' \in [op : UserOps, from : Slots \cup {"none"}, to : Slots \cup {"none"}]
        BY <1>1 DEF UserOps
    <2> QED BY <1>1, <2>1 DEF ThreadTypeOK
<1>3. HandlesInv' /\ ProgressInv'
    BY <1>1 DEF HandlesInv, ProgressInv
<1>4. GroupsInv'
    <2>1. user.op # "assign"
        BY <1>1 DEF NoOp
    <2> QED BY <1>1, <2>1 DEF GroupsInv
<1>5. UserInv'
    BY <1>1 DEF UserInv
<1> QED BY <1>2, <1>3, <1>4, <1>5

(* Only the owner of a thread is moved, and only once its task has copied the
   handle from where it was. *)
LEMMA MoveKeeps == ASSUME ThreadInv, Move PROVE ThreadInv'
<1> USE DEF ThreadInv
<1> DEFINE s == user.from
           d == user.to
           h == handle[s]
<1>1. /\ s \in Slots /\ d \in Slots /\ h # NoHandle /\ handle[d] = NoHandle /\ s # d /\ user.op = "move"
    BY DEF Move, UserInv, NoOp
<1>2. /\ h \in [task : Gens \cup {0}, ev : Gens \cup {0}, owner : BOOLEAN]
      /\ NoHandle \in [task : Gens \cup {0}, ev : Gens \cup {0}, owner : BOOLEAN]
      /\ h.task \in Gens /\ h.ev = h.task /\ h.owner /\ NoHandle.task = 0 /\ NoHandle.ev = 0
    <2>1. h.owner
        BY <1>1 DEF GroupsInv
    <2> QED BY <1>1, <2>1 DEF ThreadTypeOK, HandlesInv, NoHandle
<1>3. task[h.task] \notin {"none", "fresh", "copied"}
    BY <1>2 DEF Move, Started, ProgressInv
<1>4. /\ handle' = [handle EXCEPT ![d] = h, ![s] = NoHandle] /\ user' = NoOp
      /\ UNCHANGED <<task, source, local, tls, groups, bits, value>>
    BY DEF Move
<1>5. /\ handle'[d] = h /\ handle'[s] = NoHandle /\ \A r \in Slots : r # s /\ r # d => handle'[r] = handle[r]
      /\ handle' \in [Slots -> [task : Gens \cup {0}, ev : Gens \cup {0}, owner : BOOLEAN]]
    BY <1>1, <1>2, <1>4 DEF ThreadTypeOK
<1> HIDE DEF s, d, h
<1>6. ThreadTypeOK'
    <2>1. NoOp \in [op : UserOps, from : Slots \cup {"none"}, to : Slots \cup {"none"}]
        BY DEF NoOp, UserOps
    <2> QED BY <1>4, <1>5, <2>1 DEF ThreadTypeOK
<1>7. \A r \in Slots : handle[r].task = h.task => r = s
    BY <1>1 DEF HandlesInv, h
<1>8. HandlesInv'
    <2>1. \A r \in Slots : handle'[r] # NoHandle =>
             handle'[r].task \in Gens /\ handle'[r].ev = handle'[r].task /\ task'[handle'[r].task] # "none"
        BY <1>1, <1>2, <1>3, <1>4, <1>5 DEF HandlesInv
    <2>2. ASSUME NEW r \in Slots, NEW q \in Slots, handle'[r] # NoHandle, handle'[q].task = handle'[r].task, q # r
          PROVE  FALSE
        <3>1. r # s
            BY <1>5, <2>2
        <3>2. q # s
            BY <1>2, <1>5, <2>1, <2>2, GensFacts
        <3>3. CASE r = d
            BY <1>1, <1>5, <1>7, <2>2, <3>2, <3>3
        <3>4. CASE q = d
            BY <1>1, <1>5, <1>7, <2>2, <3>1, <3>4
        <3>5. CASE r # d /\ q # d
            BY <1>5, <2>2, <3>1, <3>2, <3>5 DEF HandlesInv
        <3> QED BY <3>3, <3>4, <3>5
    <2> QED BY <2>1, <2>2 DEF HandlesInv
<1>9. GroupsInv'
    <2>1. ASSUME NEW g \in groups PROVE \E r \in Slots : handle'[r] # NoHandle /\ handle'[r].ev = g
        <3>1. PICK r \in Slots : handle[r] # NoHandle /\ handle[r].ev = g
            BY DEF GroupsInv
        <3>2. CASE r = s
            BY <1>1, <1>5, <3>1, <3>2 DEF h
        <3>3. CASE r # s
            BY <1>1, <1>5, <3>1, <3>3
        <3> QED BY <3>2, <3>3
    <2>2. \A r \in Slots : handle'[r] # NoHandle => handle'[r].owner
        BY <1>1, <1>2, <1>5 DEF GroupsInv
    <2> QED BY <1>4, <2>1, <2>2 DEF GroupsInv
<1>10. UserInv'
    BY <1>4 DEF UserInv
<1>11. ProgressInv'
    <2>1. ASSUME NEW k \in Gens, task[k] = "fresh" PROVE handle'[source[k]].task = k
        <3>1. source[k] \in Slots /\ handle[source[k]].task = k /\ k # 0
            BY <2>1, GensFacts DEF ProgressInv
        <3>2. source[k] # s /\ source[k] # d
            BY <1>1, <1>2, <1>3, <2>1, <3>1 DEF h
        <3> QED BY <1>5, <3>1, <3>2
    <2> QED BY <1>4, <2>1 DEF ProgressInv
<1> QED BY <1>6, <1>8, <1>9, <1>10, <1>11

(* The bits of the group say that the task has ended. *)
LEMMA JoinKeeps == ASSUME ThreadInv, join PROVE ThreadInv'
<1> USE DEF ThreadInv
<1>1. /\ user.op = "join" /\ user.from \in Slots /\ user.to \in Slots /\ handle[user.from] # NoHandle
      /\ UNCHANGED <<handle, task, source, local, tls, groups, bits, value>>
    BY DEF join, UserInv, NoOp
<1>2. /\ user'.op = "assign" /\ user'.from = user.from /\ user'.to = user.to
      /\ user' \in [op : UserOps, from : Slots \cup {"none"}, to : Slots \cup {"none"}]
    BY DEF join, ThreadTypeOK, UserOps
<1>3. Started(handle[user.from].ev) /\ task[handle[user.from].task] \in Ended
    BY <1>1 DEF join, Joined, Started, HandlesInv, ProgressInv
<1>4. ThreadTypeOK' /\ HandlesInv' /\ ProgressInv'
    BY <1>1, <1>2 DEF ThreadTypeOK, HandlesInv, ProgressInv
<1>5. GroupsInv'
    BY <1>1 DEF GroupsInv
<1>6. UserInv'
    <2>1. Started(handle[user.from].ev)'
        BY <1>1, <1>2, <1>3 DEF Started
    <2> QED BY <1>1, <1>2, <1>3, <2>1 DEF UserInv
<1> QED BY <1>4, <1>5, <1>6

(* Either the task has ended, or group and storage are cleared together. *)
LEMMA DetachKeeps == ASSUME ThreadInv, detach PROVE ThreadInv'
<1> USE DEF ThreadInv
<1> DEFINE s == user.from
           h == handle[s]
<1>1. /\ user.op = "detach" /\ s \in Slots /\ user.to \in Slots /\ h # NoHandle
      /\ UNCHANGED <<task, source, local, bits, value>> /\ Started(h.ev)
    BY DEF detach, UserInv, NoOp
<1>2. /\ user'.op = "assign" /\ user'.from = s /\ user'.to = user.to
      /\ user' \in [op : UserOps, from : Slots \cup {"none"}, to : Slots \cup {"none"}]
    BY DEF detach, ThreadTypeOK, UserOps
<1>3. h.task \in Gens /\ h.ev = h.task
    BY <1>1 DEF HandlesInv
<1>4. CASE MayReadDeleted(h.task) /\ UNCHANGED <<handle, tls, groups>>
    <2>1. ThreadTypeOK' /\ HandlesInv' /\ ProgressInv'
        BY <1>1, <1>2, <1>4 DEF ThreadTypeOK, HandlesInv, ProgressInv
    <2>2. GroupsInv'
        BY <1>1, <1>4 DEF GroupsInv
    <2>3. UserInv'
        <3>1. Started(handle[user.from].ev)'
            BY <1>1, <1>2, <1>4 DEF Started
        <3> QED BY <1>1, <1>2, <1>4, <3>1 DEF UserInv, MayReadDeleted, Ended
    <2> QED BY <2>1, <2>2, <2>3
<1>5. CASE /\ tls' = StorageCleared(h.task) /\ groups' = groups \ {h.ev}
           /\ handle' = [handle EXCEPT ![s].owner = FALSE]
    <2> DEFINE Typed == [task : Gens \cup {0}, ev : Gens \cup {0}, owner : BOOLEAN]
               x == [h EXCEPT !.owner = FALSE]
    <2>a. h \in Typed /\ handle \in [Slots -> Typed] /\ handle' = [handle EXCEPT ![s] = x]
        BY <1>1, <1>5 DEF ThreadTypeOK
    <2>b. x \in Typed /\ x.task = h.task /\ x.ev = h.ev /\ ~x.owner
        BY <2>a
    <2> HIDE DEF x, Typed
    <2>c. handle'[s] = x /\ handle' \in [Slots -> Typed] /\ \A r \in Slots : r # s => handle'[r] = handle[r]
        BY <1>1, <2>a, <2>b
    <2>1. /\ handle'[s].task = h.task /\ handle'[s].ev = h.ev /\ ~handle'[s].owner
          /\ \A r \in Slots : r # s => handle'[r] = handle[r]
          /\ handle' \in [Slots -> [task : Gens \cup {0}, ev : Gens \cup {0}, owner : BOOLEAN]]
        BY <2>b, <2>c DEF Typed
    <2>2. handle'[s] # NoHandle
        BY <1>3, <2>1, GensFacts DEF NoHandle
    <2>3. tls' = tls \ {h.task} /\ groups' = groups \ {h.task}
        BY <1>3, <1>5 DEF StorageCleared
    <2> HIDE DEF s, h
    <2>4. ThreadTypeOK'
        BY <1>1, <1>2, <2>1, <2>3 DEF ThreadTypeOK
    <2>5. \A r \in Slots : handle'[r].task = handle[r].task /\ handle'[r].ev = handle[r].ev
                           /\ (handle'[r] # NoHandle => handle[r] # NoHandle)
        BY <1>1, <2>1 DEF h
    <2>6. HandlesInv'
        BY <1>1, <2>5 DEF HandlesInv
    <2>7. GroupsInv'
        <3>1. ASSUME NEW g \in groups' PROVE \E r \in Slots : handle'[r] # NoHandle /\ handle'[r].ev = g
            <4>1. PICK r \in Slots : handle[r] # NoHandle /\ handle[r].ev = g
                BY <2>3 DEF GroupsInv
            <4>2. r # s
                BY <1>3, <2>3, <4>1 DEF h
            <4> QED BY <2>1, <4>1, <4>2
        <3>2. \A r \in Slots : r # s /\ handle'[r] # NoHandle => handle'[r].owner
            BY <1>1, <2>1 DEF GroupsInv
        <3>3. handle'[s].ev \notin groups'
            BY <1>3, <2>1, <2>3
        <3> QED BY <1>2, <3>1, <3>2, <3>3 DEF GroupsInv
    <2>8. UserInv'
        <3>1. Started(handle[user.from].ev)'
            BY <1>1, <1>2, <2>1 DEF Started, h
        <3> QED BY <1>1, <1>2, <2>1, <2>2, <3>1 DEF UserInv
    <2>9. ProgressInv'
        BY <1>1, <2>3, <2>5 DEF ProgressInv
    <2> QED BY <2>4, <2>6, <2>7, <2>8, <2>9
<1> QED BY <1>4, <1>5 DEF detach

(* What is assigned over has ended, or was detached and has no group. *)
LEMMA AssignKeeps == ASSUME ThreadInv, Assign PROVE ThreadInv'
<1> USE DEF ThreadInv
<1> DEFINE s == user.from
           h == handle[s]
<1>1. /\ user.op = "assign" /\ s \in Slots /\ h # NoHandle /\ Started(h.ev)
      /\ h.owner => task[h.task] \in Ended
      /\ UNCHANGED <<source, local, tls, bits, value>>
      /\ handle' = [handle EXCEPT ![s] = NoHandle] /\ user' = NoOp
    BY DEF Assign, UserInv, NoOp
<1>2. h.task \in Gens /\ h.ev = h.task /\ task[h.task] # "fresh"
    BY <1>1 DEF HandlesInv, Started, ProgressInv
<1>3. /\ groups' = groups \ {h.task} /\ task' \in [Gens -> TaskStates]
      /\ \A g \in Gens : g # h.task => task'[g] = task[g]
      /\ h.owner => task'[h.task] \in {"deleted", "freed"}
      /\ ~h.owner => task'[h.task] = task[h.task]
    <2>1. CASE h.owner
        BY <1>1, <1>2, <2>1 DEF Assign, GroupsAfterAssign, MayReadDeleted, MayReadAlive, ThreadTypeOK, TaskStates
    <2>2. CASE ~h.owner
        BY <1>1, <1>2, <2>2 DEF Assign, GroupsInv, ThreadTypeOK
    <2> QED BY <2>1, <2>2
<1>4. /\ handle'[s] = NoHandle /\ \A r \in Slots : r # s => handle'[r] = handle[r]
      /\ handle' \in [Slots -> [task : Gens \cup {0}, ev : Gens \cup {0}, owner : BOOLEAN]]
    <2>1. NoHandle \in [task : Gens \cup {0}, ev : Gens \cup {0}, owner : BOOLEAN]
        BY DEF NoHandle
    <2> QED BY <1>1, <2>1 DEF ThreadTypeOK
<1>5. \A r \in Slots : handle[r].task = h.task => r = s
    BY <1>1 DEF HandlesInv
<1> HIDE DEF s, h
<1>6. ThreadTypeOK'
    <2>1. NoOp \in [op : UserOps, from : Slots \cup {"none"}, to : Slots \cup {"none"}]
        BY DEF NoOp, UserOps
    <2> QED BY <1>1, <1>3, <1>4, <2>1 DEF ThreadTypeOK
<1>7. HandlesInv'
    <2>1. \A r \in Slots : handle'[r] # NoHandle => r # s
        BY <1>4
    <2>2. \A r \in Slots : handle'[r] # NoHandle =>
             handle'[r].task \in Gens /\ handle'[r].ev = handle'[r].task /\ task'[handle'[r].task] # "none"
        BY <1>3, <1>4, <1>5, <2>1 DEF HandlesInv
    <2>3. ASSUME NEW r \in Slots, NEW q \in Slots, handle'[r] # NoHandle, handle'[q].task = handle'[r].task PROVE q = r
        <3>1. q # s
            BY <1>4, <2>2, <2>3, GensFacts DEF NoHandle
        <3> QED BY <1>4, <2>1, <2>3, <3>1 DEF HandlesInv
    <2> QED BY <2>2, <2>3 DEF HandlesInv
<1>8. GroupsInv'
    <2>1. ASSUME NEW g \in groups' PROVE \E r \in Slots : handle'[r] # NoHandle /\ handle'[r].ev = g
        <3>1. PICK r \in Slots : handle[r] # NoHandle /\ handle[r].ev = g
            BY <1>3 DEF GroupsInv
        <3>2. r # s
            BY <1>2, <1>3, <3>1 DEF h
        <3> QED BY <1>4, <3>1, <3>2
    <2>2. \A r \in Slots : handle'[r] # NoHandle => handle'[r].owner
        BY <1>1, <1>4 DEF GroupsInv, s
    <2> QED BY <2>1, <2>2 DEF GroupsInv
<1>9. UserInv'
    BY <1>1 DEF UserInv
<1>10. ASSUME NEW k \in Gens PROVE ThreadProgress(k)'
    <2>1. CASE k = h.task
        <3>1. ~h.owner => task'[k] = task[k]
            BY <1>3, <2>1
        <3>2. task'[k] # "fresh" /\ task[k] # "fresh"
            BY <1>2, <1>3, <2>1
        <3>3. h.owner => k \notin value
            BY <1>1, <2>1 DEF ProgressInv, Ended
        <3>4. k \in tls /\ task'[k] \notin Ended => FALSE
            <4>1. CASE h.owner
                BY <1>3, <2>1, <4>1 DEF Ended
            <4>2. CASE ~h.owner
                <5>1. k \notin groups
                    BY <1>1, <1>2, <2>1, <4>2 DEF GroupsInv, h
                <5> QED BY <2>1, <3>1, <4>2, <5>1 DEF ProgressInv
            <4> QED BY <4>1, <4>2
        <3>5. task[k] # "none"
            BY <1>1, <2>1 DEF HandlesInv, h
        <3>6. CASE h.owner
            BY <1>1, <1>3, <2>1, <3>2, <3>3, <3>4, <3>5, <3>6 DEF ThreadProgress, ProgressInv, Ended
        <3>7. CASE ~h.owner
            BY <1>1, <3>1, <3>2, <3>4, <3>7 DEF ThreadProgress, ProgressInv
        <3> QED BY <3>6, <3>7
    <2>2. CASE k # h.task
        <3>1. task[k] = "fresh" => handle'[source[k]].task = k
            <4>1. task[k] = "fresh" => source[k] \in Slots /\ handle[source[k]].task = k /\ source[k] # s
                BY <2>2 DEF ProgressInv, h
            <4> QED BY <1>4, <4>1
        <3> QED BY <1>1, <1>3, <2>2, <3>1 DEF ThreadProgress, ProgressInv
    <2> QED BY <2>1, <2>2
<1>11. ProgressInv'
    BY <1>10 DEF ProgressInv, ThreadProgress
<1> QED BY <1>6, <1>7, <1>8, <1>9, <1>11

LEMMA ThreadStep == ThreadInv /\ [ThreadNext]_threadVars => ThreadInv'
<1> SUFFICES ASSUME ThreadInv, [ThreadNext]_threadVars PROVE ThreadInv'
    OBVIOUS
<1>1. CASE \E s \in Slots : create_thread(s)
    BY <1>1, CreateKeeps
<1>2. CASE \E s, d \in Slots : handle[d] = NoHandle /\ Begin("move", s, d)
    BY <1>2, BeginKeeps
<1>3. CASE \E s \in Slots, op \in {"join", "detach"} : Begin(op, s, s)
    BY <1>3, BeginKeeps
<1>4. CASE UserStep
    BY <1>4, MoveKeeps, JoinKeeps, DetachKeeps, AssignKeeps DEF UserStep
<1>5. CASE \E g \in Gens : TaskStep(g) \/ freertos_gthread_setspecific(g)
    BY <1>5, TaskKeeps
<1>6. CASE UNCHANGED threadVars
    BY <1>6 DEF threadVars, ThreadInv, ThreadTypeOK, HandlesInv, GroupsInv, UserInv, ProgressInv, Started
<1> QED BY <1>1, <1>2, <1>3, <1>4, <1>5, <1>6 DEF ThreadNext

ThreadSafety == CopiedHandleIsOwn /\ StorageNamesLiveGroup /\ GroupsAreReclaimed /\ JoinedThreadIsDone

LEMMA ThreadInvSuffices == ThreadInv => ThreadSafety
<1> SUFFICES ASSUME ThreadInv PROVE ThreadSafety
    OBVIOUS
<1>1. CopiedHandleIsOwn
    BY DEF ThreadInv, ProgressInv, CopiedHandleIsOwn
<1>2. StorageNamesLiveGroup
    BY DEF ThreadInv, ThreadTypeOK, ProgressInv, StorageNamesLiveGroup, Ended
<1>3. GroupsAreReclaimed
    BY DEF ThreadInv, GroupsInv, GroupsAreReclaimed
<1>4. JoinedThreadIsDone
    <2> SUFFICES ASSUME NEW s \in Slots, user.op = "assign", user.from = s, handle[s].owner
                 PROVE  task[handle[s].task] \in Ended /\ handle[s].task \notin value
        BY DEF JoinedThreadIsDone, Ended
    <2>1. task[handle[s].task] \in Ended /\ handle[s].task \in Gens
        BY DEF ThreadInv, UserInv, NoOp, HandlesInv
    <2> QED BY <2>1 DEF ThreadInv, ProgressInv, Ended
<1> QED BY <1>1, <1>2, <1>3, <1>4 DEF ThreadSafety

(* The copy a task makes of its handle is its own, the group named by its storage
   exists while it may be set, no group is left behind, and a joined thread is
   done, for any number of threads and handles. *)
THEOREM HandlesBelong == ThreadSpec => []ThreadSafety
BY ThreadStart, ThreadStep, ThreadInvSuffices, PTL DEF ThreadSpec

(* Handles, storage and groups of threads belong together and every waiter can
   be reached by a signal, for any number of threads, slots and items and every
   order of create, move, join, detach, wait, timeout and signal. *)
THEOREM ThreadsHold == CondSpec /\ ThreadSpec => ThreadsAreSound
BY WaitersReachable, HandlesBelong, PTL DEF ThreadsAreSound, ThreadSafety

-----------------------------------------------------------------------------
(* The simulation node. *)

(* The mailbox holds the conversion of a well-formed message; a command leaves
   no more periods than its age has left of the longest validity; an elapsed
   time is a number of periods. *)
SilInv ==
    /\ contactAge = -1 \/ (contactAge \in Nat /\ WellFormed(saying) /\ contact = convertFootContacts(saying))
    /\ motionAge \in Nat
    /\ motionLeft = -1 \/ (motionLeft \in Nat /\ motionAge + motionLeft <= MaxValidity)
    /\ gap \in Nat
    /\ StallsAreNotIntegrated

LEMMA SilStart == SilInit => SilInv
BY SilAssumption DEF SilInit, SilInv, StallsAreNotIntegrated

LEMMA SilStep == SilInv /\ [SilNext]_silVars => SilInv'
<1> SUFFICES ASSUME SilInv, [SilNext]_silVars PROVE SilInv'
    OBVIOUS
<1> DEFINE ContactPart == contactAge = -1 \/ (contactAge \in Nat /\ WellFormed(saying) /\ contact = convertFootContacts(saying))
           MotionPart == motionAge \in Nat /\ (motionLeft = -1 \/ (motionLeft \in Nat /\ motionAge + motionLeft <= MaxValidity))
           GapPart == gap \in Nat /\ StallsAreNotIntegrated
<1>0. ContactPart /\ MotionPart /\ GapPart
    BY DEF SilInv
<1>1. UNCHANGED <<contactAge, saying, contact>> => ContactPart'
    BY <1>0
<1>2. UNCHANGED <<motionAge, motionLeft>> => MotionPart'
    BY <1>0
<1>3. UNCHANGED <<gap, given>> => GapPart'
    BY <1>0 DEF StallsAreNotIntegrated
<1>4. ContactPart' /\ MotionPart' /\ GapPart' => SilInv'
    BY DEF SilInv
<1> HIDE DEF ContactPart, MotionPart, GapPart
<1>5. CASE \E names \in JointMessages : acceptJointState(names)
    BY <1>1, <1>2, <1>3, <1>4, <1>5 DEF acceptJointState, cycleVars
<1>6. CASE \E v \in Validities : acceptMotionCommand(v)
    <2>1. PICK v \in Validities : acceptMotionCommand(v)
        BY <1>6
    <2>2. MotionPart'
        BY <2>1, SilAssumption DEF MotionPart, acceptMotionCommand, BoundedValidity
    <2> QED BY <1>1, <1>3, <1>4, <2>1, <2>2 DEF acceptMotionCommand, cycleVars
<1>7. CASE \E arm, stop \in BOOLEAN : acceptSafetyInput(arm, stop)
    BY <1>1, <1>2, <1>3, <1>4, <1>7 DEF acceptSafetyInput, cycleVars
<1>8. CASE \E m \in ContactMessages : acceptFootContacts(m)
    <2>1. PICK m \in ContactMessages : acceptFootContacts(m)
        BY <1>8
    <2>2. CASE WellFormed(m)
        <3>1. contact' = convertFootContacts(m) /\ saying' = m /\ contactAge' = 0
            BY <2>1, <2>2 DEF acceptFootContacts
        <3>2. ContactPart'
            BY <2>2, <3>1 DEF ContactPart
        <3> QED BY <1>2, <1>3, <1>4, <2>1, <3>2 DEF acceptFootContacts, cycleVars
    <2>3. CASE ~WellFormed(m)
        BY <1>1, <1>2, <1>3, <1>4, <2>1, <2>3 DEF acceptFootContacts, cycleVars
    <2> QED BY <2>2, <2>3
<1>9. CASE (\E ok \in BOOLEAN : on_configure(ok)) \/ on_activate \/ on_deactivate \/ on_cleanup
    BY <1>1, <1>2, <1>3, <1>4, <1>9 DEF on_configure, on_activate, on_deactivate, on_cleanup, mailboxVars, cycleVars
<1>10. CASE SampleFails
    BY <1>1, <1>2, <1>3, <1>4, <1>10 DEF SampleFails, mailboxVars
<1>11. CASE \E gate \in BOOLEAN, goals \in {<<>>} \cup JointMessages : SampleAndStep(gate, goals)
    <2>1. /\ gap' = 0 /\ given' = [contact |-> ContactInput, heartbeat |-> Heartbeat, dt |-> SampleStep]
          /\ ~SilStalled /\ UNCHANGED mailboxVars
        BY <1>11 DEF SampleAndStep
    <2>2. SampleStep <= GapLimit
        BY <1>0, <2>1, SilAssumption DEF SampleStep, SilStalled, GapPart
    <2>3. GapPart'
        BY <2>1, <2>2 DEF GapPart, StallsAreNotIntegrated
    <2> QED BY <1>1, <1>2, <1>4, <2>1, <2>3 DEF mailboxVars
<1>12. CASE Period
    <2>1. MotionPart'
        BY <1>0, <1>12, SilAssumption DEF MotionPart, Period
    <2>2. GapPart'
        BY <1>0, <1>12 DEF GapPart, Period, StallsAreNotIntegrated
    <2>3. contactAge' = -1 \/ (contactAge \in Nat /\ contactAge' \in Nat)
        BY <1>0, <1>12, SilAssumption DEF ContactPart, Period, Older
    <2>4. UNCHANGED <<saying, contact>>
        BY <1>12 DEF Period
    <2>5. ContactPart'
        BY <1>0, <2>3, <2>4 DEF ContactPart
    <2> QED BY <1>4, <2>1, <2>2, <2>5
<1>13. CASE UNCHANGED silVars
    BY <1>1, <1>2, <1>3, <1>4, <1>13 DEF silVars
<1> QED BY <1>5, <1>6, <1>7, <1>8, <1>9, <1>10, <1>11, <1>12, <1>13 DEF SilNext, Cycle

(* A foot that the conversion of a message shows as touching was said to touch
   by that message. *)
LEMMA TouchWasSaid ==
    ASSUME NEW m, WellFormed(m), NEW f \in SilFeet, Claims(f, convertFootContacts(m))
    PROVE  /\ m.validity = "fresh" /\ f \in m.mask
           /\ \E i \in DOMAIN m.feet : m.feet[i].leg = f /\ m.feet[i].state = "touch"
<1>1. \A v : ~Claims(f, NoContact(v))
    BY DEF Claims, NoContact, Unavailable
<1>2. m.validity = "fresh"
    BY <1>1 DEF convertFootContacts
<1>3. convertFootContacts(m).feet[f] = IF f \in m.mask THEN m.feet[StateOf(m, f)].state ELSE "stale"
    BY <1>2 DEF convertFootContacts
<1>4. f \in m.mask /\ m.feet[StateOf(m, f)].state = "touch"
    BY <1>3 DEF Claims
<1>5. \E i \in DOMAIN m.feet : m.feet[i].leg = f
    BY DEF WellFormed, Complete
<1>6. StateOf(m, f) \in DOMAIN m.feet /\ m.feet[StateOf(m, f)].leg = f
    BY <1>5 DEF StateOf
<1> QED BY <1>2, <1>4, <1>6

LEMMA SilFailsClosedStep ==
    ASSUME SilInv, [SilNext]_silVars, given' # given
    PROVE  /\ \A f \in SilFeet : Claims(f, given'.contact) =>
                /\ contactAge \in 0..ContactTimeout
                /\ saying.validity = "fresh" /\ f \in saying.mask
                /\ \E i \in DOMAIN saying.feet : saying.feet[i].leg = f /\ saying.feet[i].state = "touch"
           /\ given'.heartbeat => motionAge <= MaxValidity
<1>1. given' = [contact |-> ContactInput, heartbeat |-> Heartbeat, dt |-> SampleStep]
    BY DEF SilNext, acceptJointState, acceptMotionCommand, acceptSafetyInput, acceptFootContacts, on_configure,
           on_activate, on_deactivate, on_cleanup, Cycle, SampleFails, SampleAndStep, Period, silVars, cycleVars
<1>2. given'.contact = ContactInput /\ given'.heartbeat = Heartbeat
    BY <1>1
<1>3. Heartbeat => motionAge <= MaxValidity
    BY SilAssumption DEF Heartbeat, SilInv
<1>4. ASSUME NEW f \in SilFeet, Claims(f, ContactInput)
      PROVE  /\ contactAge \in 0..ContactTimeout
             /\ saying.validity = "fresh" /\ f \in saying.mask
             /\ \E i \in DOMAIN saying.feet : saying.feet[i].leg = f /\ saying.feet[i].state = "touch"
    <2>1. \A v : ~Claims(f, NoContact(v))
        BY DEF Claims, NoContact, Unavailable
    <2>2. contactAge # -1 /\ ~(contactAge > ContactTimeout) /\ ContactInput = contact
        BY <1>4, <2>1 DEF ContactInput
    <2>3. contactAge \in Nat /\ WellFormed(saying) /\ contact = convertFootContacts(saying)
        BY <2>2 DEF SilInv
    <2>4. contactAge \in 0..ContactTimeout
        BY <2>2, <2>3, SilAssumption
    <2> QED BY <1>4, <2>2, <2>3, <2>4, TouchWasSaid
<1> QED BY <1>2, <1>3, <1>4

(* The simulation adapter gives the core a contact, a heartbeat and a time only
   on evidence within their limits, for every set of feet, joints and messages,
   every timeout and every order of messages, cycles and lifecycle steps. *)
THEOREM AdapterFailsClosed == SilSpec => SilFailsClosed
<1>1. SilInv /\ [SilNext]_silVars => [given' # given =>
          \A f \in SilFeet : Claims(f, given'.contact) =>
              /\ contactAge \in 0..ContactTimeout
              /\ saying.validity = "fresh" /\ f \in saying.mask
              /\ \E i \in DOMAIN saying.feet : saying.feet[i].leg = f /\ saying.feet[i].state = "touch"]_silVars
    BY SilFailsClosedStep
<1>2. SilInv /\ [SilNext]_silVars => [given' # given /\ given'.heartbeat => motionAge <= MaxValidity]_silVars
    BY SilFailsClosedStep
<1>3. SilInv => StallsAreNotIntegrated
    BY DEF SilInv
<1> QED BY <1>1, <1>2, <1>3, SilStart, SilStep, PTL DEF SilSpec, SilFailsClosed, ContactFailsClosed, CommandsExpire

-----------------------------------------------------------------------------
(* Kernel objects: creation, deletion and reclamation. *)

(* The sum of the sizes of one block, and of two. *)
SumStep(g, s) == IF s = {} THEN 0 ELSE (CHOOSE x \in s : TRUE)[3] + g[s \ {CHOOSE x \in s : TRUE}]

LEMMA SumUnfolds ==
    ASSUME NEW S, NEW h, h = [s \in SUBSET S |-> SumStep(h, s)]
    PROVE  \E g : g = [s \in SUBSET S |-> SumStep(g, s)] /\ MapThenSumSet(LAMBDA b : b[3], S) = g[S]
<1> DEFINE Solves(x) == x = [s \in SUBSET S |-> SumStep(x, s)]
<1>1. MapThenSumSet(LAMBDA b : b[3], S) = (CHOOSE x : Solves(x))[S]
    BY DEF MapThenSumSet, MapThenFoldSet, SumStep
<1>2. Solves(h)
    OBVIOUS
<1>3. Solves(CHOOSE x : Solves(x))
    <2> HIDE DEF Solves
    <2> QED BY <1>2
<1> QED BY <1>1, <1>3

LEMMA OwnedOne ==
    ASSUME NEW h, NEW a, a[3] \in Nat, BlocksOf(h) = {a}
    PROVE  Owned(h) = a[3]
<1> DEFINE S == {a}
           f == [s \in SUBSET S |-> IF s = {} THEN 0 ELSE a[3]]
<1>1. ASSUME NEW s \in SUBSET S PROVE f[s] = SumStep(f, s)
    <2>1. CASE s = {}
        BY <2>1 DEF SumStep
    <2>2. CASE s # {}
        <3>1. s = {a} /\ (CHOOSE x \in s : TRUE) = a /\ s \ {a} = {}
            BY <2>2
        <3>2. f[{}] = 0 /\ f[s] = a[3]
            BY <2>2
        <3> QED BY <2>2, <3>1, <3>2 DEF SumStep
    <2> QED BY <2>1, <2>2
<1>2. f = [s \in SUBSET S |-> SumStep(f, s)]
    BY <1>1
<1> HIDE DEF f
<1>3. PICK g : g = [s \in SUBSET S |-> SumStep(g, s)] /\ MapThenSumSet(LAMBDA b : b[3], S) = g[S]
    BY <1>2, SumUnfolds
<1>4. g[{}] = 0 /\ g[S] = SumStep(g, S)
    BY <1>3 DEF SumStep
<1>5. (CHOOSE x \in S : TRUE) = a /\ S \ {a} = {} /\ S # {}
    OBVIOUS
<1>6. g[S] = a[3]
    BY <1>4, <1>5 DEF SumStep
<1> QED BY <1>3, <1>6, Zenon DEF Owned

LEMMA OwnedTwo ==
    ASSUME NEW h, NEW a, NEW b, a # b, a[3] \in Nat, b[3] \in Nat, BlocksOf(h) = {a, b}
    PROVE  Owned(h) = a[3] + b[3]
<1> DEFINE Q(E, A, B, S) ==
        /\ E \in SUBSET S /\ A \in SUBSET S /\ B \in SUBSET S /\ S \in SUBSET S
        /\ (\A s \in SUBSET S : s \in {E, A, B, S}) /\ A # E /\ B # E /\ S # E /\ A # B /\ S # A /\ S # B
        /\ \A g : /\ SumStep(g, E) = 0 /\ SumStep(g, A) = a[3] + g[E] /\ SumStep(g, B) = b[3] + g[E]
                  /\ SumStep(g, S) = a[3] + g[B] \/ SumStep(g, S) = b[3] + g[A]
<1>1. Q({}, {a}, {b}, {a, b})
    <2>1. /\ \A s \in SUBSET {a, b} : s \in {{}, {a}, {b}, {a, b}}
          /\ {a} # {} /\ {b} # {} /\ {a, b} # {} /\ {a} # {b} /\ {a, b} # {a} /\ {a, b} # {b}
        OBVIOUS
    <2>2. ASSUME NEW g
          PROVE  /\ SumStep(g, {}) = 0 /\ SumStep(g, {a}) = a[3] + g[{}] /\ SumStep(g, {b}) = b[3] + g[{}]
                 /\ SumStep(g, {a, b}) = a[3] + g[{b}] \/ SumStep(g, {a, b}) = b[3] + g[{a}]
        <3>1. SumStep(g, {}) = 0
            BY DEF SumStep
        <3>2. SumStep(g, {a}) = a[3] + g[{}] /\ SumStep(g, {b}) = b[3] + g[{}]
            <4>1. \A x : (CHOOSE y \in {x} : TRUE) = x /\ {x} # {} /\ {x} \ {x} = {}
                OBVIOUS
            <4> QED BY <4>1 DEF SumStep
        <3>3. SumStep(g, {a, b}) = a[3] + g[{b}] \/ SumStep(g, {a, b}) = b[3] + g[{a}]
            <4> DEFINE x == CHOOSE y \in {a, b} : TRUE
            <4>1. SumStep(g, {a, b}) = x[3] + g[{a, b} \ {x}] /\ x \in {a, b}
                BY DEF SumStep
            <4>2. {a, b} \ {a} = {b} /\ {a, b} \ {b} = {a}
                OBVIOUS
            <4> HIDE DEF x
            <4> QED BY <4>1, <4>2
        <3> QED BY <3>1, <3>2, <3>3
    <2> QED BY <2>1, <2>2
<1>2. PICK E, A, B, S : Q(E, A, B, S) /\ S = BlocksOf(h)
    <2> HIDE DEF Q
    <2>1. Q({}, {a}, {b}, {a, b}) /\ {a, b} = BlocksOf(h)
        BY <1>1
    <2> QED BY <2>1, Zenon
<1>a. /\ E \in SUBSET S /\ A \in SUBSET S /\ B \in SUBSET S /\ S \in SUBSET S
      /\ A # E /\ B # E /\ S # E /\ A # B /\ S # A /\ S # B
    BY <1>2, Zenon
<1>b. \A s \in SUBSET S : s = E \/ s = A \/ s = B \/ s = S
    BY <1>2, Zenon
<1>c. ASSUME NEW g
      PROVE  /\ SumStep(g, E) = 0 /\ SumStep(g, A) = a[3] + g[E] /\ SumStep(g, B) = b[3] + g[E]
             /\ SumStep(g, S) = a[3] + g[B] \/ SumStep(g, S) = b[3] + g[A]
    BY <1>2, Zenon
<1> HIDE DEF Q
<1> DEFINE f == [s \in SUBSET S |-> IF s = E THEN 0 ELSE IF s = A THEN a[3] ELSE IF s = B THEN b[3] ELSE a[3] + b[3]]
<1>3. f[E] = 0 /\ f[A] = a[3] /\ f[B] = b[3] /\ f[S] = a[3] + b[3]
    BY <1>a
<1> HIDE DEF f
<1>d. /\ SumStep(f, E) = 0 /\ SumStep(f, A) = a[3] + f[E] /\ SumStep(f, B) = b[3] + f[E]
      /\ SumStep(f, S) = a[3] + f[B] \/ SumStep(f, S) = b[3] + f[A]
    BY <1>c
<1>4. f = [s \in SUBSET S |-> SumStep(f, s)]
    <2>1. SumStep(f, E) = f[E] /\ SumStep(f, A) = f[A] /\ SumStep(f, B) = f[B] /\ SumStep(f, S) = f[S]
        BY <1>3, <1>d
    <2>2. \A s \in SUBSET S : f[s] = SumStep(f, s)
        BY <1>b, <2>1
    <2> QED BY <2>2 DEF f
<1>5. PICK g : g = [s \in SUBSET S |-> SumStep(g, s)] /\ MapThenSumSet(LAMBDA x : x[3], S) = g[S]
    BY <1>4, SumUnfolds
<1>6. g[E] = SumStep(g, E) /\ g[A] = SumStep(g, A) /\ g[B] = SumStep(g, B) /\ g[S] = SumStep(g, S)
    BY <1>a, <1>5
<1>7. /\ SumStep(g, E) = 0 /\ SumStep(g, A) = a[3] + g[E] /\ SumStep(g, B) = b[3] + g[E]
      /\ SumStep(g, S) = a[3] + g[B] \/ SumStep(g, S) = b[3] + g[A]
    BY <1>c
<1>8. g[S] = a[3] + b[3]
    BY <1>6, <1>7
<1> QED BY <1>2, <1>5, <1>8, Zenon DEF Owned

-----------------------------------------------------------------------------
(* Size_t arithmetic: what a creation asks for is what the object needs. *)
LEMMA NoWrap == ASSUME NEW n \in Nat, n <= SizeMax PROVE Wrap(n) = n
BY ObjectsAssumption DEF Wrap

LEMMA QueueSize ==
    ASSUME NEW len \in Lengths, NEW size \in ItemSizes, QueueFits(len, size)
    PROVE  /\ QueueHead + len * size \in Nat
           /\ Wrap(QueueHead + Wrap(len * size)) = QueueHead + len * size
<1>0. len \in Nat /\ size \in Nat /\ SizeMax \in Nat /\ QueueHead \in Nat /\ QueueHead <= SizeMax /\ len > 0
    BY ObjectsAssumption DEF QueueFits
<1> DEFINE q == SizeMax \div len
<1>1. q \in Nat /\ len * q <= SizeMax /\ size <= q
    BY <1>0 DEF QueueFits
<1>2. len * size \in Nat /\ len * q \in Nat
    BY <1>0, <1>1
<1>3. len * size <= len * q
    BY <1>0, <1>1
<1> HIDE DEF q
<1>4. Wrap(len * size) = len * size
    BY <1>0, <1>1, <1>2, <1>3, NoWrap
<1>5. QueueHead + len * size <= SizeMax
    BY <1>0, <1>2, <1>4 DEF QueueFits
<1> QED BY <1>0, <1>2, <1>4, <1>5, NoWrap

LEMMA BufferSize ==
    ASSUME NEW size \in 0..SizeMax, size < Wrap(size + 1 + BufferHead)
    PROVE  Wrap(Cells(size) + BufferHead) = BufferHead + Cells(size)
<1>0. SizeMax \in Nat /\ BufferHead \in Nat /\ BufferHead <= SizeMax /\ size \in Nat /\ size <= SizeMax
    BY ObjectsAssumption
<1>1. size + 1 + BufferHead \in Nat /\ size + 1 + BufferHead = BufferHead + Cells(size)
      /\ Cells(size) + BufferHead = size + 1 + BufferHead
    BY <1>0 DEF Cells
<1>2. CASE size + 1 + BufferHead <= SizeMax
    BY <1>1, <1>2, NoWrap
<1>3. CASE size + 1 + BufferHead > SizeMax
    <2> DEFINE m == SizeMax + 1
               x == (size + 1 + BufferHead) - m
    <2>1. x \in Nat /\ x < m /\ x <= size /\ m \in Nat /\ m > 0 /\ size + 1 + BufferHead = x + m
        BY <1>0, <1>3
    <2> HIDE DEF m, x
    <2>2. (x + m) % m = x
        BY <2>1
    <2>3. Wrap(size + 1 + BufferHead) = x
        BY <2>1, <2>2 DEF Wrap, m
    <2> QED BY <1>0, <2>1, <2>3
<1> QED BY <1>0, <1>2, <1>3

-----------------------------------------------------------------------------
ObjectKinds == {"queue", "stream", "group", "timer", "task"}
Groups == [kind : {"group"}, static : BOOLEAN, needs : Nat, deletedBy : Actors \cup {NoGroup}]
Places == Handles \cup KernelOwn

(* An object and the blocks B it has in the heap. *)
Owns(h, o, B) ==
    \/ /\ GivesStatic(o) /\ B = {}
    \/ /\ ~GivesStatic(o) /\ o.kind = "task" /\ o.needs = TcbSize + StackSize
       /\ B = {<<h, "stack", StackSize>>, <<h, "tcb", TcbSize>>}
    \/ /\ ~GivesStatic(o) /\ o.kind # "task"
       /\ \E n \in Nat : n >= o.needs /\ B = {<<h, "object", n>>}

SoundAt(h, o, B) ==
    \/ o = Nothing /\ B = {}
    \/ /\ o.kind \in ObjectKinds /\ Owns(h, o, B)
       /\ o.kind = "group" => o \in Groups
       /\ (o.kind = "stream" /\ "static" \notin o.flags) => o.trigger <= o.length - 1

(* Memory: only handles have blocks, and each place is sound, but for the    *)
(* timer whose creation stopped the board.                                   *)
MemoryInv ==
    /\ DOMAIN obj = Places /\ asserted \in BOOLEAN
    /\ \A b \in heap : b[1] \in Handles
    /\ \A h \in Places : SoundAt(h, obj[h], BlocksOf(h)) \/ (asserted /\ obj[h] = Nothing)

(* Life: what runs, waits to be reclaimed or to be deleted, or is waited for *)
(* exists; nobody waits for a group whose deletion has begun.                *)
LifeInv ==
    /\ waitsFor \in [Actors -> Handles \cup {NoGroup}] /\ runningTask \in Actors \cup {IdleTcb}
    /\ scheduler \in {"no", "yes"} /\ (scheduler = "no" => runningTask = Main)
    /\ runningTask \in Handles => obj[runningTask].kind = "task"
    /\ ending \in Seq(Handles)
    /\ \A i \in 1 .. Len(ending) : obj[ending[i]].kind = "task"
    /\ \A i, j \in 1 .. Len(ending) : ending[i] = ending[j] => i = j
    /\ commands \subseteq Handles /\ \A h \in commands : obj[h].kind = "timer"
    /\ \A t \in Actors : waitsFor[t] # NoGroup => /\ obj[waitsFor[t]].kind = "group"
                                                  /\ obj[waitsFor[t]].deletedBy = NoGroup

LEMMA PlaceFacts ==
    /\ IdleTcb \notin Actors /\ NoGroup \notin Actors /\ NoGroup \notin Handles /\ Main \notin Handles
    /\ Handles \subseteq Actors /\ Handles \subseteq Places /\ Handles \cap KernelOwn = {}
    /\ IdleTcb # DaemonTcb /\ IdleTcb # TimerQ /\ DaemonTcb # TimerQ
    /\ {IdleTcb, DaemonTcb, TimerQ} \subseteq Places
    /\ Nothing.kind = "none"
BY ObjectsAssumption DEF IdleTcb, DaemonTcb, TimerQ, Main, NoGroup, KernelOwn, Actors, Places, Nothing

(* An object put at a handle, with the blocks it owns. *)
LEMMA MemoryPut ==
    ASSUME MemoryInv, ~asserted, asserted' = FALSE, NEW h \in Handles, NEW o, NEW B, SoundAt(h, o, B), \A b \in B : b[1] = h,
           DOMAIN obj' = Places, obj'[h] = o, heap' = (heap \ BlocksOf(h)) \cup B,
           \A x \in Places : x # h => obj'[x] = obj[x] \/ (x \in KernelOwn /\ SoundAt(x, obj'[x], {}))
    PROVE  MemoryInv'
<1>1. \A b \in heap' : b[1] \in Handles
    BY DEF MemoryInv
<1>2. BlocksOf(h)' = B
    BY DEF BlocksOf
<1>3. ASSUME NEW x \in Places, x # h PROVE BlocksOf(x)' = BlocksOf(x)
    BY <1>3 DEF BlocksOf
<1>4. ASSUME NEW x \in KernelOwn PROVE BlocksOf(x) = {}
    BY PlaceFacts DEF MemoryInv, BlocksOf
<1>5. ASSUME NEW x \in Places PROVE SoundAt(x, obj'[x], BlocksOf(x)')
    <2>1. CASE x = h
        BY <1>2, <2>1
    <2>2. CASE x # h /\ obj'[x] = obj[x]
        BY <1>3, <2>2 DEF MemoryInv
    <2>3. CASE x # h /\ x \in KernelOwn /\ SoundAt(x, obj'[x], {})
        BY <1>3, <1>4, <2>3
    <2> QED BY <2>1, <2>2, <2>3
<1>6. \A x \in Places : SoundAt(x, obj[x], BlocksOf(x))'
    BY <1>5 DEF SoundAt, Owns, GivesStatic, xQueueGenericGetStaticBuffers, xStreamBufferGetStaticBuffers, xEventGroupGetStaticBuffer, xTimerGetStaticBuffer, xTaskGetStaticBuffers
<1> QED BY <1>1, <1>6 DEF MemoryInv

(* What is neither a task nor a timer nor a group may come and go. *)
LEMMA LifeOther ==
    ASSUME LifeInv, NEW h \in Handles, obj[h].kind \notin {"task", "timer", "group"},
           \A x \in Handles : x # h => obj'[x] = obj[x], Keep
    PROVE  LifeInv'
<1>1. UNCHANGED <<runningTask, ending, waitsFor, commands, scheduler>>
    BY DEF Keep
<1>2. h # runningTask \/ runningTask \notin Handles
    BY DEF LifeInv
<1>3. \A i \in 1 .. Len(ending) : ending[i] # h /\ ending[i] \in Handles
    BY DEF LifeInv
<1>4. h \notin commands /\ \A t \in Actors : waitsFor[t] # h /\ waitsFor[t] \in Handles \cup {NoGroup}
    BY PlaceFacts DEF LifeInv
<1> QED BY <1>1, <1>2, <1>3, <1>4 DEF LifeInv

LEMMA Starts == ASSUME ObjectsInit PROVE MemoryInv /\ LifeInv
<1>1. DOMAIN obj = Places /\ \A h \in Places : obj[h] = Nothing
    BY DEF ObjectsInit, Places
<1>2. heap = {} /\ asserted = FALSE /\ runningTask = Main /\ scheduler = "no" /\ ending = <<>> /\ commands = {}
      /\ waitsFor = [t \in Actors |-> NoGroup]
    BY DEF ObjectsInit
<1>3. MemoryInv
    BY <1>1, <1>2 DEF MemoryInv, BlocksOf, SoundAt
<1>4. LifeInv
    BY <1>2, PlaceFacts DEF LifeInv, Actors
<1> QED BY <1>3, <1>4

ObjectInv == MemoryInv /\ LifeInv

LEMMA MemoryStill ==
    ASSUME MemoryInv, UNCHANGED <<obj, heap>>, asserted' = asserted \/ asserted' = TRUE
    PROVE  MemoryInv'
<1>1. \A h : BlocksOf(h)' = BlocksOf(h)
    BY DEF BlocksOf
<1>2. ASSUME NEW h \in Places, SoundAt(h, obj[h], BlocksOf(h)) PROVE SoundAt(h, obj[h], BlocksOf(h))'
    <2>1. SoundAt(h, obj'[h], BlocksOf(h)')
        BY <1>1, <1>2
    <2> QED BY <2>1 DEF SoundAt, Owns, GivesStatic, xQueueGenericGetStaticBuffers, xStreamBufferGetStaticBuffers,
            xEventGroupGetStaticBuffer, xTimerGetStaticBuffer, xTaskGetStaticBuffers
<1> QED BY <1>2 DEF MemoryInv

(* A call that fails changes nothing, or stops the board. *)
LEMMA StillKeepsObjects ==
    ASSUME ObjectInv, UNCHANGED <<obj, heap>>, asserted' = asserted \/ asserted' = TRUE, Keep
    PROVE  ObjectInv'
<1>1. MemoryInv'
    BY MemoryStill DEF ObjectInv
<1>2. LifeInv'
    BY DEF ObjectInv, LifeInv, Keep
<1> QED BY <1>1, <1>2 DEF ObjectInv

LEMMA ObjectCreateKeeps ==
    ASSUME ObjectInv, ~asserted, UNCHANGED asserted, NEW h \in Handles, obj[h] = Nothing, NEW o, NEW B, SoundAt(h, o, B),
           \A b \in B : b[1] = h, obj' = [obj EXCEPT ![h] = o], heap' = heap \cup B, Keep
    PROVE  ObjectInv'
<1>1. BlocksOf(h) = {}
    BY PlaceFacts DEF ObjectInv, MemoryInv, SoundAt, ObjectKinds
<1>2. heap' = (heap \ BlocksOf(h)) \cup B
    BY <1>1
<1>3. DOMAIN obj' = Places /\ obj'[h] = o /\ \A x \in Places : x # h => obj'[x] = obj[x]
    BY PlaceFacts DEF ObjectInv, MemoryInv
<1>4. MemoryInv'
    <2>1. asserted' = FALSE
        BY DEF ObjectInv, MemoryInv
    <2> QED BY <1>2, <1>3, <2>1, MemoryPut DEF ObjectInv
<1>5. LifeInv'
    BY <1>3, LifeOther, PlaceFacts DEF ObjectInv
<1> QED BY <1>4, <1>5 DEF ObjectInv

LEMMA OnHeapKeeps ==
    ASSUME ObjectInv, ~asserted, NEW h \in Handles, obj[h] = Nothing, NEW o, NEW n \in Nat, OnHeap(h, o, n), Keep,
           o.kind \in ObjectKinds \ {"task"}, ~GivesStatic(o), n >= o.needs, o.kind = "group" => o \in Groups,
           (o.kind = "stream" /\ "static" \notin o.flags) => o.trigger <= o.length - 1
    PROVE  ObjectInv'
<1>1. CASE pvPortMalloc(heap, n)
    <2> DEFINE B == {<<h, "object", n>>}
    <2>1. SoundAt(h, o, B) /\ \A b \in B : b[1] = h
        BY DEF SoundAt, Owns
    <2>2. heap' = heap \cup B /\ obj' = [obj EXCEPT ![h] = o] /\ UNCHANGED asserted
        BY <1>1 DEF OnHeap
    <2> HIDE DEF B
    <2> QED BY <2>1, <2>2, ObjectCreateKeeps
<1>2. CASE ~pvPortMalloc(heap, n)
    BY <1>2, StillKeepsObjects DEF OnHeap
<1> QED BY <1>1, <1>2

LEMMA InBufferKeeps ==
    ASSUME ObjectInv, ~asserted, NEW h \in Handles, obj[h] = Nothing, NEW o, InBuffer(h, o), Keep,
           o.kind \in ObjectKinds, GivesStatic(o), o.kind = "group" => o \in Groups,
           (o.kind = "stream" /\ "static" \notin o.flags) => o.trigger <= o.length - 1
    PROVE  ObjectInv'
<1> DEFINE B == {}
<1>1. SoundAt(h, o, B) /\ \A b \in B : b[1] = h
    BY DEF SoundAt, Owns
<1>2. heap' = heap \cup B /\ obj' = [obj EXCEPT ![h] = o] /\ UNCHANGED asserted
    BY DEF InBuffer
<1> HIDE DEF B
<1> QED BY <1>1, <1>2, ObjectCreateKeeps

(* The kinds of new objects. *)
LEMMA NewQueue ==
    ASSUME NEW len \in Nat, NEW size \in Nat, NEW static \in BOOLEAN, NEW o, NEW n,
           o = prvInitialiseNewQueue(len, size, static) \/ o = [prvInitialiseNewQueue(len, size, static) EXCEPT !.waiting = n]
    PROVE  o.kind = "queue" /\ (GivesStatic(o) <=> static) /\ o.needs = QueueHead + len * size
<1>1. PICK k : o = [kind |-> "queue", static |-> static, length |-> len, needs |-> QueueHead + len * size, waiting |-> k]
    BY DEF prvInitialiseNewQueue
<1>2. o.kind = "queue" /\ o.static = static /\ o.needs = QueueHead + len * size
    BY <1>1
<1> QED BY <1>2 DEF GivesStatic, xQueueGenericGetStaticBuffers

LEMMA CreateQueueKeeps == ASSUME ObjectInv, NEW h \in Handles, CreateQueue(h) PROVE ObjectInv'
<1>0. ~asserted /\ obj[h] = Nothing /\ Keep /\ QueueHead \in Nat
    BY ObjectsAssumption DEF CreateQueue, Calls, Unused
<1>1. ASSUME Assert PROVE ObjectInv'
    BY <1>0, <1>1, StillKeepsObjects DEF Assert
<1>2. ASSUME NEW len \in Lengths, NEW size \in ItemSizes, xQueueGenericCreate(h, len, size) PROVE ObjectInv'
    <2>1. CASE QueueFits(len, size)
        <3> DEFINE o == prvInitialiseNewQueue(len, size, FALSE)
                   n == Wrap(QueueHead + Wrap(len * size))
        <3>1. OnHeap(h, o, n)
            BY <1>2, <2>1 DEF xQueueGenericCreate
        <3>2. len \in Nat /\ size \in Nat
            BY ObjectsAssumption
        <3>3. n \in Nat /\ n = QueueHead + len * size
            BY <2>1, QueueSize
        <3>4. o.kind = "queue" /\ ~GivesStatic(o) /\ o.needs = QueueHead + len * size
            BY <3>2, NewQueue
        <3> HIDE DEF o, n
        <3>5. o.kind \in ObjectKinds \ {"task"} /\ n >= o.needs /\ o.kind # "group" /\ o.kind # "stream"
            BY <3>3, <3>4 DEF ObjectKinds
        <3> QED BY <1>0, <3>1, <3>3, <3>4, <3>5, OnHeapKeeps
    <2>2. CASE ~QueueFits(len, size)
        BY <1>1, <1>2, <2>2 DEF xQueueGenericCreate
    <2> QED BY <2>1, <2>2
<1>3. ASSUME NEW len \in Lengths, NEW size \in ItemSizes, NEW storage \in BOOLEAN,
             xQueueGenericCreateStatic(h, len, size, storage)
      PROVE  ObjectInv'
    <2>1. CASE len > 0 /\ (storage <=> size # 0)
        <3> DEFINE o == prvInitialiseNewQueue(len, size, TRUE)
        <3>1. InBuffer(h, o)
            BY <1>3, <2>1 DEF xQueueGenericCreateStatic
        <3>2. len \in Nat /\ size \in Nat
            BY ObjectsAssumption
        <3>3. o.kind = "queue" /\ GivesStatic(o)
            BY <3>2, NewQueue
        <3> HIDE DEF o
        <3>4. o.kind \in ObjectKinds /\ o.kind # "group" /\ o.kind # "stream"
            BY <3>3 DEF ObjectKinds
        <3> QED BY <1>0, <3>1, <3>3, <3>4, InBufferKeeps
    <2>2. CASE ~(len > 0 /\ (storage <=> size # 0))
        BY <1>1, <1>3, <2>2 DEF xQueueGenericCreateStatic
    <2> QED BY <2>1, <2>2
<1>4. ASSUME NEW max \in Nat, NEW n, OnHeap(h, [prvInitialiseNewQueue(max, 0, FALSE) EXCEPT !.waiting = n], QueueHead)
      PROVE  ObjectInv'
    <2> DEFINE o == [prvInitialiseNewQueue(max, 0, FALSE) EXCEPT !.waiting = n]
    <2>2. OnHeap(h, o, QueueHead)
        BY <1>4
    <2>a. o = [prvInitialiseNewQueue(max, 0, FALSE) EXCEPT !.waiting = n]
        OBVIOUS
    <2> HIDE DEF o
    <2>1. o.kind = "queue" /\ ~GivesStatic(o) /\ o.needs = QueueHead + max * 0
        BY <2>a, NewQueue
    <2>3. o.kind \in ObjectKinds \ {"task"} /\ QueueHead >= o.needs /\ o.kind # "group" /\ o.kind # "stream"
        BY <1>0, <2>1 DEF ObjectKinds
    <2> QED BY <1>0, <2>1, <2>2, <2>3, OnHeapKeeps
<1>5. ASSUME NEW max \in Nat, NEW n, InBuffer(h, [prvInitialiseNewQueue(max, 0, TRUE) EXCEPT !.waiting = n])
      PROVE  ObjectInv'
    <2> DEFINE o == [prvInitialiseNewQueue(max, 0, TRUE) EXCEPT !.waiting = n]
    <2>2. InBuffer(h, o)
        BY <1>5
    <2>a. o = [prvInitialiseNewQueue(max, 0, TRUE) EXCEPT !.waiting = n]
        OBVIOUS
    <2> HIDE DEF o
    <2>1. o.kind = "queue" /\ GivesStatic(o)
        BY <2>a, NewQueue
    <2>3. o.kind \in ObjectKinds /\ o.kind # "group" /\ o.kind # "stream"
        BY <2>1 DEF ObjectKinds
    <2> QED BY <1>0, <2>1, <2>2, <2>3, InBufferKeeps
<1>6. CASE xQueueCreateMutex(h) \/ xQueueCreateMutexStatic(h)
    BY <1>4, <1>5, <1>6 DEF xQueueCreateMutex, xQueueCreateMutexStatic, prvInitialiseMutex
<1>7. ASSUME NEW max \in {0, 2}, NEW initial \in {0, 2, 3},
             xQueueCreateCountingSemaphore(h, max, initial) \/ xQueueCreateCountingSemaphoreStatic(h, max, initial)
      PROVE  ObjectInv'
    <2>1. CASE max # 0 /\ initial <= max
        BY <1>4, <1>5, <1>7, <2>1 DEF xQueueCreateCountingSemaphore, xQueueCreateCountingSemaphoreStatic
    <2>2. CASE ~(max # 0 /\ initial <= max)
        BY <1>1, <1>7, <2>2 DEF xQueueCreateCountingSemaphore, xQueueCreateCountingSemaphoreStatic
    <2> QED BY <2>1, <2>2
<1> QED BY <1>2, <1>3, <1>6, <1>7 DEF CreateQueue

LEMMA CreateStreamBufferKeeps == ASSUME ObjectInv, NEW h \in Handles, CreateStreamBuffer(h) PROVE ObjectInv'
<1>0. ~asserted /\ obj[h] = Nothing /\ Keep /\ BufferHead \in Nat
    BY ObjectsAssumption DEF CreateStreamBuffer, Calls, Unused
<1>1. ASSUME Assert PROVE ObjectInv'
    BY <1>0, <1>1, StillKeepsObjects DEF Assert
<1>2. PICK b \in Buffers : xStreamBufferGenericCreate(h, b[1], b[2]) \/ xStreamBufferGenericCreateStatic(h, b[1], b[2])
    BY DEF CreateStreamBuffer
<1> DEFINE size == b[1]
           trigger == b[2]
<1>3. size \in 0 .. SizeMax /\ size \in Nat /\ trigger \in Nat
    BY ObjectsAssumption
<1>4. xStreamBufferGenericCreate(h, size, trigger) \/ xStreamBufferGenericCreateStatic(h, size, trigger)
    BY <1>2
<1> HIDE DEF size, trigger
<1>5. CASE xStreamBufferGenericCreate(h, size, trigger)
    <2>1. CASE size = 0 \/ trigger > size
        BY <1>1, <1>5, <2>1 DEF xStreamBufferGenericCreate
    <2>2. CASE ~(size = 0 \/ trigger > size) /\ size < Wrap(size + 1 + BufferHead)
        <3> DEFINE o == prvInitialiseNewStreamBuffer(Cells(size), AtLeastOne(trigger), {})
                   n == Wrap(Cells(size) + BufferHead)
        <3>1. OnHeap(h, o, n)
            BY <1>5, <2>2 DEF xStreamBufferGenericCreate
        <3>2. n = BufferHead + Cells(size) /\ n \in Nat
            BY <1>0, <1>3, <2>2, BufferSize DEF Cells
        <3>3. o.kind = "stream" /\ o.needs = BufferHead + Cells(size) /\ o.flags = {}
              /\ o.trigger = AtLeastOne(trigger) /\ o.length = Cells(size)
            BY DEF prvInitialiseNewStreamBuffer
        <3> HIDE DEF o, n
        <3>4. o.trigger <= o.length - 1
            BY <1>3, <2>2, <3>3 DEF AtLeastOne, Cells
        <3>5. ~GivesStatic(o)
            BY <3>3 DEF GivesStatic, xStreamBufferGetStaticBuffers
        <3>6. o.kind \in ObjectKinds \ {"task"} /\ n >= o.needs /\ o.kind # "group"
            BY <3>2, <3>3 DEF ObjectKinds
        <3> QED BY <1>0, <3>1, <3>2, <3>4, <3>5, <3>6, OnHeapKeeps
    <2>3. CASE ~(size = 0 \/ trigger > size) /\ ~(size < Wrap(size + 1 + BufferHead))
        BY <1>0, <1>5, <2>3, StillKeepsObjects DEF xStreamBufferGenericCreate
    <2> QED BY <2>1, <2>2, <2>3
<1>6. CASE xStreamBufferGenericCreateStatic(h, size, trigger)
    <2>1. CASE trigger > size
        BY <1>1, <1>6, <2>1 DEF xStreamBufferGenericCreateStatic
    <2>2. CASE ~(trigger > size)
        <3> DEFINE o == prvInitialiseNewStreamBuffer(size, AtLeastOne(trigger), {"static"})
        <3>1. InBuffer(h, o)
            BY <1>6, <2>2 DEF xStreamBufferGenericCreateStatic
        <3>2. o.kind = "stream" /\ o.flags = {"static"}
            BY DEF prvInitialiseNewStreamBuffer
        <3> HIDE DEF o
        <3>3. GivesStatic(o) /\ o.kind \in ObjectKinds /\ o.kind # "group" /\ "static" \in o.flags
            BY <3>2 DEF GivesStatic, xStreamBufferGetStaticBuffers, ObjectKinds
        <3> QED BY <1>0, <3>1, <3>3, InBufferKeeps
    <2> QED BY <2>1, <2>2
<1> QED BY <1>4, <1>5, <1>6

LEMMA CreateGroupKeeps == ASSUME ObjectInv, NEW h \in Handles, CreateEventGroup(h) PROVE ObjectInv'
<1>0. ~asserted /\ obj[h] = Nothing /\ Keep /\ GroupSize \in Nat
    BY ObjectsAssumption DEF CreateEventGroup, Calls, Unused
<1>1. ASSUME NEW static \in BOOLEAN
      PROVE  /\ NewGroup(static) \in Groups /\ NewGroup(static).kind = "group" /\ NewGroup(static).needs = GroupSize
             /\ GivesStatic(NewGroup(static)) <=> static
    BY <1>0 DEF NewGroup, Groups, GivesStatic, xEventGroupGetStaticBuffer
<1>2. CASE xEventGroupCreate(h)
    <2>1. OnHeap(h, NewGroup(FALSE), GroupSize)
        BY <1>2 DEF xEventGroupCreate
    <2>2. NewGroup(FALSE).kind \in ObjectKinds \ {"task"} /\ GroupSize >= NewGroup(FALSE).needs /\ NewGroup(FALSE).kind # "stream"
        <3>1. NewGroup(FALSE).kind = "group" /\ NewGroup(FALSE).needs = GroupSize
            BY DEF NewGroup
        <3>2. GroupSize \in Nat
            BY <1>0
        <3>3. GroupSize >= GroupSize
            BY <3>2
        <3> QED BY <3>1, <3>3 DEF ObjectKinds
    <2> QED BY <1>0, <1>1, <2>1, <2>2, OnHeapKeeps
<1>3. CASE xEventGroupCreateStatic(h)
    <2>1. InBuffer(h, NewGroup(TRUE))
        BY <1>3 DEF xEventGroupCreateStatic
    <2>2. NewGroup(TRUE).kind \in ObjectKinds /\ NewGroup(TRUE).kind # "stream"
        BY <1>1 DEF ObjectKinds
    <2> QED BY <1>0, <1>1, <2>1, <2>2, InBufferKeeps
<1> QED BY <1>2, <1>3 DEF CreateEventGroup

(* Before the scheduler starts, a timer brings its command queue along. *)
LEMMA QueueAlong ==
    ASSUME MemoryInv
    PROVE  /\ DOMAIN prvCheckForValidListAndQueue(obj) = Places
           /\ prvCheckForValidListAndQueue(obj)[TimerQ] # Nothing
           /\ \A x \in Places : \/ prvCheckForValidListAndQueue(obj)[x] = obj[x]
                                \/ x = TimerQ /\ SoundAt(x, prvCheckForValidListAndQueue(obj)[x], {})
<1> DEFINE o == prvInitialiseNewQueue(1, 1, TRUE)
<1>1. o.kind = "queue" /\ GivesStatic(o)
    <2>1. o.kind = "queue" /\ o.static = TRUE
        BY DEF prvInitialiseNewQueue
    <2> HIDE DEF o
    <2> QED BY <2>1 DEF GivesStatic, xQueueGenericGetStaticBuffers
<1> HIDE DEF o
<1>2. SoundAt(TimerQ, o, {}) /\ o # Nothing
    BY <1>1, PlaceFacts DEF SoundAt, Owns, ObjectKinds
<1>3. prvCheckForValidListAndQueue(obj) = IF obj[TimerQ] = Nothing THEN [obj EXCEPT ![TimerQ] = o] ELSE obj
    BY DEF prvCheckForValidListAndQueue, o
<1> QED BY <1>2, <1>3, PlaceFacts DEF MemoryInv

LEMMA CreateTimerKeeps == ASSUME ObjectInv, NEW h \in Handles, CreateTimer(h) PROVE ObjectInv'
<1>0. ~asserted /\ obj[h] = Nothing /\ Keep /\ TimerSize \in Nat
    BY ObjectsAssumption DEF CreateTimer, Calls, Unused
<1>1. ASSUME NEW status \in SUBSET {"static"}
      PROVE  LET o == prvInitialiseNewTimer(status)
             IN  o.kind = "timer" /\ o.needs = TimerSize /\ (GivesStatic(o) <=> "static" \in status)
    BY DEF prvInitialiseNewTimer, GivesStatic, xTimerGetStaticBuffer
<1>2. BlocksOf(h) = {}
    BY <1>0, PlaceFacts DEF ObjectInv, MemoryInv, SoundAt, ObjectKinds
<1>3. ASSUME NEW o, NEW B, SoundAt(h, o, B), \A b \in B : b[1] = h, heap' = heap \cup B, asserted' = FALSE,
             obj' = [prvCheckForValidListAndQueue(obj) EXCEPT ![h] = o]
      PROVE  ObjectInv'
    <2>1. /\ DOMAIN obj' = Places /\ obj'[h] = o
          /\ \A x \in Places : x # h => obj'[x] = obj[x] \/ (x \in KernelOwn /\ SoundAt(x, obj'[x], {}))
        BY <1>3, QueueAlong, PlaceFacts DEF ObjectInv, KernelOwn
    <2>2. \A x \in Handles : x # h => obj'[x] = obj[x]
        BY <1>3, QueueAlong, PlaceFacts DEF ObjectInv, KernelOwn
    <2>3. heap' = (heap \ BlocksOf(h)) \cup B
        BY <1>2, <1>3
    <2>4. MemoryInv'
        BY <1>0, <1>3, <2>1, <2>3, MemoryPut DEF ObjectInv
    <2>5. LifeInv'
        BY <1>0, <2>2, LifeOther, PlaceFacts DEF ObjectInv
    <2> QED BY <2>4, <2>5 DEF ObjectInv
<1>4. PICK period \in {0, 1} : xTimerCreate(h, period) \/ xTimerCreateStatic(h, period)
    BY DEF CreateTimer
<1>5. CASE xTimerCreate(h, period) /\ pvPortMalloc(heap, TimerSize) /\ period # 0
    <2> DEFINE o == prvInitialiseNewTimer({})
               B == {<<h, "object", TimerSize>>}
    <2>1. o.kind = "timer" /\ o.needs = TimerSize /\ ~GivesStatic(o)
        BY <1>1
    <2>2. heap' = heap \cup B /\ asserted' = FALSE /\ obj' = [prvCheckForValidListAndQueue(obj) EXCEPT ![h] = o]
        BY <1>5 DEF xTimerCreate
    <2> HIDE DEF o
    <2>3. SoundAt(h, o, B) /\ \A b \in B : b[1] = h
        BY <1>0, <2>1 DEF SoundAt, Owns, ObjectKinds
    <2> HIDE DEF B
    <2> QED BY <1>3, <2>2, <2>3
<1>6. CASE xTimerCreate(h, period) /\ pvPortMalloc(heap, TimerSize) /\ period = 0
    <2>1. heap' = heap \cup {<<h, "object", TimerSize>>} /\ asserted' = TRUE /\ obj' = obj
        BY <1>6 DEF xTimerCreate
    <2>2. \A x \in Places : x # h => BlocksOf(x)' = BlocksOf(x)
        BY <2>1 DEF BlocksOf
    <2>3. ASSUME NEW x \in Places, x # h PROVE SoundAt(x, obj[x], BlocksOf(x))'
        <3>1. SoundAt(x, obj'[x], BlocksOf(x)')
            BY <1>0, <2>1, <2>2, <2>3 DEF ObjectInv, MemoryInv
        <3> QED BY <3>1 DEF SoundAt, Owns, GivesStatic, xQueueGenericGetStaticBuffers, xStreamBufferGetStaticBuffers,
                xEventGroupGetStaticBuffer, xTimerGetStaticBuffer, xTaskGetStaticBuffers
    <2>4. \A b \in heap' : b[1] \in Handles
        BY <2>1 DEF ObjectInv, MemoryInv
    <2>5. MemoryInv'
        BY <1>0, <2>1, <2>3, <2>4 DEF ObjectInv, MemoryInv
    <2>6. LifeInv'
        BY <1>0, <2>1 DEF ObjectInv, LifeInv, Keep
    <2> QED BY <2>5, <2>6 DEF ObjectInv
<1>7. CASE xTimerCreate(h, period) /\ ~pvPortMalloc(heap, TimerSize)
    BY <1>0, <1>7, StillKeepsObjects DEF xTimerCreate
<1>8. CASE xTimerCreateStatic(h, period)
    <2>1. CASE period = 0
        BY <1>0, <1>8, <2>1, StillKeepsObjects DEF xTimerCreateStatic, Assert
    <2>2. CASE period # 0
        <3> DEFINE o == prvInitialiseNewTimer({"static"})
                   B == {}
        <3>1. o.kind = "timer" /\ GivesStatic(o)
            BY <1>1
        <3>2. heap' = heap \cup B /\ asserted' = FALSE /\ obj' = [prvCheckForValidListAndQueue(obj) EXCEPT ![h] = o]
            BY <1>0, <1>8, <2>2 DEF xTimerCreateStatic, ObjectInv, MemoryInv
        <3> HIDE DEF o
        <3>3. SoundAt(h, o, B) /\ \A b \in B : b[1] = h
            BY <3>1 DEF SoundAt, Owns, ObjectKinds
        <3> HIDE DEF B
        <3> QED BY <1>3, <3>2, <3>3
    <2> QED BY <2>1, <2>2
<1> QED BY <1>4, <1>5, <1>6, <1>7, <1>8

LEMMA CreateTaskKeeps == ASSUME ObjectInv, NEW h \in Handles, CreateTask(h) PROVE ObjectInv'
<1>0. ~asserted /\ obj[h] = Nothing /\ Keep
    BY DEF CreateTask, Calls, Unused
<1>1. ASSUME NEW alloc \in {"dynamic", "static"}
      PROVE  LET o == prvInitialiseNewTask(alloc)
             IN  o.kind = "task" /\ o.needs = TcbSize + StackSize /\ (GivesStatic(o) <=> alloc = "static")
    BY DEF prvInitialiseNewTask, GivesStatic, xTaskGetStaticBuffers
<1>2. CASE xTaskCreate(h)
    <2> DEFINE stacked == heap \cup {<<h, "stack", StackSize>>}
               both == pvPortMalloc(heap, StackSize) /\ pvPortMalloc(stacked, TcbSize)
    <2>1. CASE both
        <3> DEFINE o == prvInitialiseNewTask("dynamic")
                   B == {<<h, "stack", StackSize>>, <<h, "tcb", TcbSize>>}
        <3>1. heap' = stacked \cup {<<h, "tcb", TcbSize>>} /\ obj' = [obj EXCEPT ![h] = o] /\ UNCHANGED asserted
            BY <1>2, <2>1 DEF xTaskCreate
        <3>2. heap' = heap \cup B
            BY <3>1
        <3>3. o.kind = "task" /\ o.needs = TcbSize + StackSize /\ ~GivesStatic(o)
            BY <1>1
        <3> HIDE DEF o
        <3>4. SoundAt(h, o, B) /\ \A b \in B : b[1] = h
            BY <3>3 DEF SoundAt, Owns, ObjectKinds
        <3> HIDE DEF B
        <3> QED BY <1>0, <3>1, <3>2, <3>4, ObjectCreateKeeps
    <2>2. CASE ~both
        BY <1>0, <1>2, <2>2, StillKeepsObjects DEF xTaskCreate, StackReturned
    <2> QED BY <2>1, <2>2
<1>3. CASE xTaskCreateStatic(h)
    <2> DEFINE o == prvInitialiseNewTask("static")
    <2>1. InBuffer(h, o)
        BY <1>3 DEF xTaskCreateStatic
    <2>2. o.kind = "task" /\ GivesStatic(o)
        BY <1>1
    <2> HIDE DEF o
    <2>3. o.kind \in ObjectKinds /\ o.kind # "group" /\ o.kind # "stream"
        BY <2>2 DEF ObjectKinds
    <2> QED BY <1>0, <2>1, <2>2, <2>3, InBufferKeeps
<1> QED BY <1>2, <1>3 DEF CreateTask

LEMMA MemoryGone ==
    ASSUME MemoryInv, ~asserted, UNCHANGED asserted, NEW h \in Handles, obj' = [obj EXCEPT ![h] = Nothing],
           heap' = heap \ BlocksOf(h)
    PROVE  MemoryInv' /\ obj'[h] = Nothing /\ \A x \in Handles : x # h => obj'[x] = obj[x]
<1> DEFINE B == {}
<1>1. SoundAt(h, Nothing, B) /\ (\A b \in B : b[1] = h) /\ heap' = (heap \ BlocksOf(h)) \cup B
    BY DEF SoundAt
<1> HIDE DEF B
<1>2. DOMAIN obj' = Places /\ obj'[h] = Nothing /\ \A x \in Places : x # h => obj'[x] = obj[x]
    BY PlaceFacts DEF MemoryInv
<1>3. asserted' = FALSE
    BY DEF MemoryInv
<1> QED BY <1>1, <1>2, <1>3, MemoryPut, PlaceFacts

(* What a deletion frees is what the object has. *)
LEMMA FreedIsOwned ==
    ASSUME MemoryInv, ~asserted, NEW h \in Handles, obj[h].kind \in ObjectKinds
    PROVE  /\ obj[h].kind = "task" => prvDeleteTCB(h) = heap \ BlocksOf(h)
           /\ obj[h].kind # "task" => (IF GivesStatic(obj[h]) THEN heap ELSE vPortFree(h, "object")) = heap \ BlocksOf(h)
<1>1. Owns(h, obj[h], BlocksOf(h))
    BY PlaceFacts DEF MemoryInv, SoundAt, ObjectKinds
<1>2. CASE GivesStatic(obj[h]) /\ BlocksOf(h) = {}
    BY <1>2 DEF GivesStatic, prvDeleteTCB, xTaskGetStaticBuffers
<1>3. CASE obj[h].kind = "task" /\ ~GivesStatic(obj[h])
    BY <1>3 DEF GivesStatic, prvDeleteTCB, xTaskGetStaticBuffers
<1>4. CASE obj[h].kind # "task" /\ ~GivesStatic(obj[h]) /\ \E n \in Nat : BlocksOf(h) = {<<h, "object", n>>}
    <2>1. {b \in heap : b[1] = h /\ b[2] = "object"} = BlocksOf(h)
        BY <1>4 DEF BlocksOf
    <2> QED BY <1>4, <2>1 DEF vPortFree
<1> QED BY <1>1, <1>2, <1>3, <1>4 DEF Owns

LEMMA QueueDeleteKeeps ==
    ASSUME ObjectInv, NEW h \in Handles, vQueueDelete(h) \/ vStreamBufferDelete(h)
    PROVE  ObjectInv'
<1>1. /\ ~asserted /\ UNCHANGED asserted /\ Keep /\ obj' = [obj EXCEPT ![h] = Nothing]
      /\ obj[h].kind \in {"queue", "stream"}
      /\ heap' = IF GivesStatic(obj[h]) THEN heap ELSE vPortFree(h, "object")
    BY DEF vQueueDelete, vStreamBufferDelete, Calls, GivesStatic, xQueueGenericGetStaticBuffers, xStreamBufferGetStaticBuffers
<1>2. heap' = heap \ BlocksOf(h)
    BY <1>1, FreedIsOwned DEF ObjectInv, ObjectKinds
<1>3. MemoryInv' /\ \A x \in Handles : x # h => obj'[x] = obj[x]
    BY <1>1, <1>2, MemoryGone DEF ObjectInv
<1>4. LifeInv'
    BY <1>1, <1>3, LifeOther DEF ObjectInv
<1> QED BY <1>3, <1>4 DEF ObjectInv

LEMMA CallerIsActor == ASSUME ObjectInv, Calls PROVE runningTask \in Actors /\ ~asserted /\ waitsFor[runningTask] = NoGroup
BY DEF Calls

LEMMA WaitKeeps == ASSUME ObjectInv, NEW h \in Handles, WaitForGroup(h) PROVE ObjectInv'
<1>1. /\ runningTask \in Actors /\ obj[h].kind = "group" /\ obj[h].deletedBy = NoGroup
      /\ waitsFor' = [waitsFor EXCEPT ![runningTask] = h]
      /\ UNCHANGED <<obj, heap, runningTask, ending, commands, scheduler, asserted>>
    BY CallerIsActor DEF WaitForGroup
<1>2. MemoryInv'
    BY <1>1, MemoryStill DEF ObjectInv
<1>3. LifeInv'
    BY <1>1 DEF ObjectInv, LifeInv
<1> QED BY <1>2, <1>3 DEF ObjectInv

LEMMA GroupDeleteKeeps == ASSUME ObjectInv, NEW h \in Handles, vEventGroupDelete(h) PROVE ObjectInv'
<1>1. /\ runningTask \in Actors /\ ~asserted /\ obj[h].kind = "group" /\ waitsFor' = Released(h)
      /\ obj' = [obj EXCEPT ![h].deletedBy = runningTask]
      /\ UNCHANGED <<heap, runningTask, ending, commands, scheduler, asserted>>
    BY CallerIsActor DEF vEventGroupDelete
<1> DEFINE o == [obj[h] EXCEPT !.deletedBy = runningTask]
<1>2. SoundAt(h, obj[h], BlocksOf(h)) /\ obj[h] \in Groups /\ Owns(h, obj[h], BlocksOf(h))
    BY <1>1, PlaceFacts DEF ObjectInv, MemoryInv, SoundAt
<1>3. o \in Groups /\ o.kind = "group" /\ o.static = obj[h].static /\ o.needs = obj[h].needs
    BY <1>1, <1>2 DEF Groups
<1>4. DOMAIN obj' = Places /\ obj'[h] = o /\ \A x \in Places : x # h => obj'[x] = obj[x]
    BY <1>1, PlaceFacts DEF ObjectInv, MemoryInv
<1> HIDE DEF o
<1>5. SoundAt(h, o, BlocksOf(h))
    BY <1>1, <1>2, <1>3 DEF SoundAt, Owns, ObjectKinds, GivesStatic, xEventGroupGetStaticBuffer
<1>6. MemoryInv'
    <2>1. heap' = (heap \ BlocksOf(h)) \cup BlocksOf(h)
        BY <1>1 DEF BlocksOf
    <2>2. asserted' = FALSE /\ \A b \in BlocksOf(h) : b[1] = h
        BY <1>1 DEF ObjectInv, MemoryInv, BlocksOf
    <2> QED BY <1>1, <1>4, <1>5, <2>1, <2>2, MemoryPut DEF ObjectInv
<1>7. LifeInv'
    <2>1. \A x \in Handles : obj'[x].kind = obj[x].kind
        BY <1>1, <1>3, <1>4, PlaceFacts
    <2>2. \A t \in Actors : waitsFor'[t] = IF waitsFor[t] = h THEN NoGroup ELSE waitsFor[t]
        BY <1>1 DEF Released
    <2>3. waitsFor' \in [Actors -> Handles \cup {NoGroup}]
        BY <1>1 DEF Released, ObjectInv, LifeInv
    <2>4. ASSUME NEW t \in Actors, waitsFor'[t] # NoGroup
          PROVE  obj'[waitsFor'[t]].kind = "group" /\ obj'[waitsFor'[t]].deletedBy = NoGroup
        <3>1. waitsFor'[t] = waitsFor[t] /\ waitsFor[t] # h /\ waitsFor[t] \in Handles
            BY <2>2, <2>4 DEF ObjectInv, LifeInv
        <3> QED BY <1>4, <2>4, <3>1, PlaceFacts DEF ObjectInv, LifeInv
    <2>5. /\ runningTask \in Handles => obj'[runningTask].kind = "task"
          /\ \A i \in 1 .. Len(ending) : obj'[ending[i]].kind = "task"
          /\ \A x \in commands : obj'[x].kind = "timer"
        BY <2>1 DEF ObjectInv, LifeInv
    <2> QED BY <1>1, <2>3, <2>4, <2>5 DEF ObjectInv, LifeInv
<1> QED BY <1>6, <1>7 DEF ObjectInv

LEMMA GroupFreeKeeps == ASSUME ObjectInv, NEW h \in Handles, EventGroupFree(h) PROVE ObjectInv'
<1>1. /\ runningTask \in Actors /\ ~asserted /\ UNCHANGED asserted /\ Keep /\ obj' = [obj EXCEPT ![h] = Nothing]
      /\ obj[h].kind = "group" /\ obj[h].deletedBy # NoGroup
      /\ heap' = IF GivesStatic(obj[h]) THEN heap ELSE vPortFree(h, "object")
    BY CallerIsActor, PlaceFacts DEF EventGroupFree, GivesStatic, xEventGroupGetStaticBuffer
<1>2. heap' = heap \ BlocksOf(h)
    BY <1>1, FreedIsOwned DEF ObjectInv, ObjectKinds
<1>3. MemoryInv' /\ \A x \in Handles : x # h => obj'[x] = obj[x]
    BY <1>1, <1>2, MemoryGone DEF ObjectInv
<1>4. /\ UNCHANGED <<runningTask, ending, waitsFor, commands, scheduler>>
      /\ \A t \in Actors : waitsFor[t] # h
      /\ h # runningTask \/ runningTask \notin Handles
      /\ \A i \in 1 .. Len(ending) : ending[i] # h /\ ending[i] \in Handles
      /\ h \notin commands
    BY <1>1, PlaceFacts DEF Keep, ObjectInv, LifeInv
<1>5. LifeInv'
    BY <1>3, <1>4 DEF ObjectInv, LifeInv
<1> QED BY <1>3, <1>5 DEF ObjectInv

LEMMA TimerDeleteKeeps == ASSUME ObjectInv, NEW h \in Handles, xTimerDelete(h) PROVE ObjectInv'
<1>1. /\ obj[h].kind = "timer" /\ commands' = commands \cup {h}
      /\ UNCHANGED <<obj, heap, runningTask, ending, waitsFor, scheduler, asserted>>
    BY DEF xTimerDelete
<1>2. MemoryInv'
    BY <1>1, MemoryStill DEF ObjectInv
<1>3. LifeInv'
    BY <1>1 DEF ObjectInv, LifeInv
<1> QED BY <1>2, <1>3 DEF ObjectInv

LEMMA DaemonKeeps == ASSUME ObjectInv, NEW h \in Handles, DaemonDeletes(h) PROVE ObjectInv'
<1>1. /\ ~asserted /\ UNCHANGED asserted /\ obj' = [obj EXCEPT ![h] = Nothing] /\ h \in commands
      /\ commands' = commands \ {h} /\ UNCHANGED <<runningTask, ending, waitsFor, scheduler>>
      /\ heap' = TimerMemory(h)
    BY DEF DaemonDeletes
<1>2. obj[h].kind = "timer"
    BY <1>1 DEF ObjectInv, LifeInv
<1>3. heap' = heap \ BlocksOf(h)
    <2>1. heap' = IF GivesStatic(obj[h]) THEN heap ELSE vPortFree(h, "object")
        BY <1>1, <1>2 DEF TimerMemory, GivesStatic, xTimerGetStaticBuffer
    <2> QED BY <1>1, <1>2, <2>1, FreedIsOwned DEF ObjectInv, ObjectKinds
<1>4. MemoryInv' /\ \A x \in Handles : x # h => obj'[x] = obj[x]
    BY <1>1, <1>3, MemoryGone DEF ObjectInv
<1>5. /\ \A t \in Actors : waitsFor[t] # h
      /\ h # runningTask \/ runningTask \notin Handles
      /\ \A i \in 1 .. Len(ending) : ending[i] # h /\ ending[i] \in Handles
    BY <1>2, PlaceFacts DEF ObjectInv, LifeInv
<1>6. LifeInv'
    BY <1>1, <1>4, <1>5 DEF ObjectInv, LifeInv
<1> QED BY <1>4, <1>6 DEF ObjectInv

LEMMA TaskDeleteKeeps == ASSUME ObjectInv, NEW h \in Handles, vTaskDelete(h) PROVE ObjectInv'
<1>1. /\ ~asserted /\ h \notin Ending /\ obj[h].kind = "task" /\ waitsFor' = [waitsFor EXCEPT ![h] = NoGroup]
      /\ UNCHANGED <<runningTask, commands, scheduler, asserted>>
    BY DEF vTaskDelete, Calls
<1>2. h \in Actors /\ waitsFor' \in [Actors -> Handles \cup {NoGroup}]
      /\ \A t \in Actors : waitsFor'[t] # NoGroup => waitsFor'[t] = waitsFor[t] /\ waitsFor[t] # NoGroup
    BY <1>1, PlaceFacts DEF ObjectInv, LifeInv
<1>3. ending \in Seq(Handles) /\ \A i \in 1 .. Len(ending) : ending[i] \in Handles /\ ending[i] # h
    BY <1>1 DEF ObjectInv, LifeInv, Ending
<1>4. CASE DeletedInIdle(h)
    <2>1. ending' = Append(ending, h) /\ UNCHANGED <<obj, heap>>
        BY <1>4 DEF vTaskDelete
    <2>2. MemoryInv'
        BY <1>1, <2>1, MemoryStill DEF ObjectInv
    <2>3. /\ ending' \in Seq(Handles) /\ Len(ending') = Len(ending) + 1
          /\ \A i \in 1 .. Len(ending) : ending'[i] = ending[i]
          /\ ending'[Len(ending) + 1] = h
        BY <1>3, <2>1
    <2>4. \A i \in 1 .. Len(ending') : obj'[ending'[i]].kind = "task"
        BY <1>1, <1>3, <2>1, <2>3 DEF ObjectInv, LifeInv
    <2>5. \A i, j \in 1 .. Len(ending') : ending'[i] = ending'[j] => i = j
        BY <1>3, <2>3 DEF ObjectInv, LifeInv
    <2>6. LifeInv'
        BY <1>1, <1>2, <2>1, <2>3, <2>4, <2>5 DEF ObjectInv, LifeInv
    <2> QED BY <2>2, <2>6 DEF ObjectInv
<1>5. CASE ~DeletedInIdle(h)
    <2>1. heap' = prvDeleteTCB(h) /\ obj' = [obj EXCEPT ![h] = Nothing] /\ UNCHANGED ending
        BY <1>5 DEF vTaskDelete
    <2>2. heap' = heap \ BlocksOf(h)
        BY <1>1, <2>1, FreedIsOwned DEF ObjectInv, ObjectKinds
    <2>3. MemoryInv' /\ \A x \in Handles : x # h => obj'[x] = obj[x]
        BY <1>1, <2>1, <2>2, MemoryGone DEF ObjectInv
    <2>4. h # runningTask
        BY <1>5, PlaceFacts DEF DeletedInIdle, ObjectInv, LifeInv
    <2>5. h \notin commands /\ \A t \in Actors : waitsFor[t] # h
        BY <1>1, PlaceFacts DEF ObjectInv, LifeInv
    <2>6. LifeInv'
        BY <1>1, <1>2, <1>3, <2>1, <2>3, <2>4, <2>5 DEF ObjectInv, LifeInv
    <2> QED BY <2>3, <2>6 DEF ObjectInv
<1> QED BY <1>4, <1>5

LEMMA IdleKeeps == ASSUME ObjectInv, prvCheckTasksWaitingTermination PROVE ObjectInv'
<1> DEFINE h == Head(ending)
<1>1. /\ runningTask = IdleTcb /\ ~asserted /\ ending # <<>> /\ ending' = Tail(ending) /\ heap' = prvDeleteTCB(h)
      /\ obj' = [obj EXCEPT ![h] = Nothing] /\ UNCHANGED <<runningTask, waitsFor, commands, scheduler, asserted>>
    BY DEF prvCheckTasksWaitingTermination
<1>2. /\ ending \in Seq(Handles) /\ Len(ending) >= 1 /\ h = ending[1] /\ h \in Handles /\ obj[h].kind = "task"
    BY <1>1 DEF ObjectInv, LifeInv
<1>3. /\ ending' \in Seq(Handles) /\ Len(ending') = Len(ending) - 1
      /\ \A i \in 1 .. Len(ending') : ending'[i] = ending[i + 1] /\ i + 1 \in 1 .. Len(ending)
    BY <1>1, <1>2
<1> HIDE DEF h
<1>4. \A i \in 1 .. Len(ending') : ending'[i] # h
    <2>1. 1 \in 1 .. Len(ending)
        BY <1>2
    <2> QED BY <1>2, <1>3, <2>1 DEF ObjectInv, LifeInv
<1>5. heap' = heap \ BlocksOf(h)
    BY <1>1, <1>2, FreedIsOwned DEF ObjectInv, ObjectKinds
<1>6. MemoryInv' /\ \A x \in Handles : x # h => obj'[x] = obj[x]
    BY <1>1, <1>2, <1>5, MemoryGone DEF ObjectInv
<1>7. h \notin commands /\ (\A t \in Actors : waitsFor[t] # h) /\ runningTask \notin Handles
    BY <1>1, <1>2, PlaceFacts DEF ObjectInv, LifeInv
<1>8. \A i \in 1 .. Len(ending') : obj'[ending'[i]].kind = "task"
    <2> TAKE i \in 1 .. Len(ending')
    <2>1. ending'[i] = ending[i + 1] /\ i + 1 \in 1 .. Len(ending) /\ ending[i + 1] \in Handles
        BY <1>2, <1>3
    <2>2. obj[ending[i + 1]].kind = "task"
        BY <2>1 DEF ObjectInv, LifeInv
    <2> QED BY <1>4, <1>6, <2>1, <2>2
<1>9. \A i, j \in 1 .. Len(ending') : ending'[i] = ending'[j] => i = j
    <2> TAKE i, j \in 1 .. Len(ending')
    <2>1. ending'[i] = ending[i + 1] /\ i + 1 \in 1 .. Len(ending) /\ ending'[j] = ending[j + 1] /\ j + 1 \in 1 .. Len(ending)
        BY <1>3
    <2>2. ending[i + 1] = ending[j + 1] => i + 1 = j + 1
        BY <2>1 DEF ObjectInv, LifeInv
    <2> QED BY <1>3, <2>1, <2>2
<1>10. LifeInv'
    BY <1>1, <1>3, <1>6, <1>7, <1>8, <1>9 DEF ObjectInv, LifeInv
<1> QED BY <1>6, <1>10 DEF ObjectInv

LEMMA SwitchKeeps == ASSUME ObjectInv, NEW t \in Actors \cup {IdleTcb}, SwitchTo(t) PROVE ObjectInv'
<1>1. /\ scheduler = "yes" /\ (t \in Handles => obj[t].kind = "task") /\ runningTask' = t
      /\ UNCHANGED <<obj, heap, ending, waitsFor, commands, scheduler, asserted>>
    BY DEF SwitchTo, Runnable
<1>2. MemoryInv'
    BY <1>1, MemoryStill DEF ObjectInv
<1>3. LifeInv'
    BY <1>1 DEF ObjectInv, LifeInv
<1> QED BY <1>2, <1>3 DEF ObjectInv

(* The scheduler's own objects need no heap. *)
LEMMA SchedulerStartKeeps == ASSUME ObjectInv, vTaskStartScheduler PROVE ObjectInv'
<1> DEFINE o == prvInitialiseNewTask("static")
           one == [obj EXCEPT ![IdleTcb] = o]
           two == prvCheckForValidListAndQueue(one)
           all == [two EXCEPT ![DaemonTcb] = o]
           q == prvInitialiseNewQueue(1, 1, TRUE)
<1>1. o.kind = "task" /\ o.alloc = "static" /\ q.kind = "queue" /\ q.static = TRUE
    BY DEF prvInitialiseNewTask, prvInitialiseNewQueue
<1>2. prvCreateIdleTasks(obj) = one
    BY DEF prvCreateIdleTasks
<1>3. two = IF one[TimerQ] = Nothing THEN [one EXCEPT ![TimerQ] = q] ELSE one
    BY DEF prvCheckForValidListAndQueue
<1> HIDE DEF o, q, two
<1>4. o # Nothing /\ q # Nothing /\ GivesStatic(o) /\ GivesStatic(q)
    BY <1>1, PlaceFacts DEF GivesStatic, xTaskGetStaticBuffers, xQueueGenericGetStaticBuffers
<1>5. \A x : SoundAt(x, o, {}) /\ SoundAt(x, q, {})
    BY <1>1, <1>4 DEF SoundAt, Owns, ObjectKinds
<1>6. DOMAIN obj = Places /\ DOMAIN one = Places /\ one[IdleTcb] = o
      /\ \A x \in Places : x # IdleTcb => one[x] = obj[x]
    BY PlaceFacts DEF ObjectInv, MemoryInv
<1> HIDE DEF one
<1>7. DOMAIN two = Places /\ two[TimerQ] # Nothing /\ two[IdleTcb] = o
      /\ (two[TimerQ] = q \/ two[TimerQ] = obj[TimerQ])
      /\ \A x \in Places : x \notin {IdleTcb, TimerQ} => two[x] = obj[x]
    BY <1>3, <1>4, <1>6, PlaceFacts
<1>8. xTimerCreateTimerTask(one) = all
    BY <1>7 DEF xTimerCreateTimerTask, two, o
<1>9. DOMAIN all = Places /\ all[DaemonTcb] = o /\ all[IdleTcb] = o /\ (all[TimerQ] = q \/ all[TimerQ] = obj[TimerQ])
      /\ \A x \in Handles : all[x] = obj[x]
    BY <1>7, PlaceFacts DEF KernelOwn
<1> HIDE DEF all
<1>10. obj' = all
    BY <1>2, <1>4, <1>6, <1>8 DEF vTaskStartScheduler
<1>11. /\ scheduler = "no" /\ scheduler' = "yes" /\ UNCHANGED <<heap, runningTask, ending, waitsFor, commands, asserted>>
    BY <1>4, <1>9, <1>10 DEF vTaskStartScheduler
<1>12. \A x \in Places : obj'[x] = obj[x] \/ (x \in KernelOwn /\ SoundAt(x, obj'[x], {}))
    BY <1>5, <1>9, <1>10 DEF Places, KernelOwn
<1>13. MemoryInv'
    <2>1. \A x : BlocksOf(x)' = BlocksOf(x)
        BY <1>11 DEF BlocksOf
    <2>2. ~asserted
        BY DEF vTaskStartScheduler, Calls
    <2>3. ASSUME NEW x \in Places PROVE SoundAt(x, obj[x], BlocksOf(x))'
        <3>1. SoundAt(x, obj'[x], BlocksOf(x)')
            <4>1. CASE obj'[x] = obj[x]
                BY <2>1, <2>2, <4>1 DEF ObjectInv, MemoryInv
            <4>2. CASE x \in KernelOwn /\ SoundAt(x, obj'[x], {})
                <5>1. BlocksOf(x) = {}
                    BY <4>2, PlaceFacts DEF ObjectInv, MemoryInv, BlocksOf
                <5> QED BY <2>1, <4>2, <5>1
            <4> QED BY <1>12, <4>1, <4>2
        <3> QED BY <3>1 DEF SoundAt, Owns, GivesStatic, xQueueGenericGetStaticBuffers, xStreamBufferGetStaticBuffers,
                xEventGroupGetStaticBuffer, xTimerGetStaticBuffer, xTaskGetStaticBuffers
    <2> QED BY <1>9, <1>10, <1>11, <2>3 DEF ObjectInv, MemoryInv
<1>14. LifeInv'
    BY <1>9, <1>10, <1>11 DEF ObjectInv, LifeInv
<1> QED BY <1>13, <1>14 DEF ObjectInv

LEMMA ObjectsSafe ==
    ASSUME ObjectInv
    PROVE  HeapIsAccounted /\ StorageSuffices /\ RunningIsNotFreed /\ NoWaiterOnDeleted /\ TriggerIsReachable /\ StartNeedsNoHeap
<1>0. TcbSize \in Nat /\ StackSize \in Nat
    BY ObjectsAssumption
<1>1. HeapIsAccounted
    <2> SUFFICES ASSUME ~asserted, NEW h \in Places
                 PROVE  {b[2] : b \in BlocksOf(h)} =
                            IF obj[h] = Nothing THEN {} ELSE IF GivesStatic(obj[h]) THEN {} ELSE PartsOf(obj[h])
        BY DEF HeapIsAccounted, ObjectInv, MemoryInv
    <2>1. SoundAt(h, obj[h], BlocksOf(h))
        BY DEF ObjectInv, MemoryInv
    <2>2. CASE obj[h] = Nothing /\ BlocksOf(h) = {}
        BY <2>2
    <2>3. CASE obj[h].kind \in ObjectKinds /\ Owns(h, obj[h], BlocksOf(h))
        <3>1. obj[h] # Nothing
            BY <2>3, PlaceFacts DEF ObjectKinds
        <3>2. CASE GivesStatic(obj[h]) /\ BlocksOf(h) = {}
            BY <3>1, <3>2
        <3>3. CASE ~GivesStatic(obj[h]) /\ obj[h].kind = "task"
                   /\ BlocksOf(h) = {<<h, "stack", StackSize>>, <<h, "tcb", TcbSize>>}
            <4>1. {b[2] : b \in BlocksOf(h)} = {"stack", "tcb"}
                BY <3>3
            <4> QED BY <3>1, <3>3, <4>1 DEF PartsOf
        <3>4. CASE ~GivesStatic(obj[h]) /\ obj[h].kind # "task" /\ \E n \in Nat : BlocksOf(h) = {<<h, "object", n>>}
            <4>1. {b[2] : b \in BlocksOf(h)} = {"object"}
                BY <3>4
            <4> QED BY <3>1, <3>4, <4>1 DEF PartsOf
        <3> QED BY <2>3, <3>2, <3>3, <3>4 DEF Owns
    <2> QED BY <2>1, <2>2, <2>3 DEF SoundAt
<1>2. StorageSuffices
    <2> SUFFICES ASSUME NEW h \in Handles, obj[h] # Nothing, BlocksOf(h) # {} PROVE Owned(h) >= obj[h].needs
        BY DEF StorageSuffices
    <2>1. Owns(h, obj[h], BlocksOf(h))
        BY PlaceFacts DEF ObjectInv, MemoryInv, SoundAt
    <2>2. CASE obj[h].needs = TcbSize + StackSize /\ BlocksOf(h) = {<<h, "stack", StackSize>>, <<h, "tcb", TcbSize>>}
        <3> DEFINE a == <<h, "stack", StackSize>>
                   b == <<h, "tcb", TcbSize>>
        <3>1. a # b /\ a[3] = StackSize /\ b[3] = TcbSize /\ BlocksOf(h) = {a, b}
            BY <2>2
        <3> HIDE DEF a, b
        <3>2. Owned(h) = a[3] + b[3]
            BY <1>0, <3>1, OwnedTwo
        <3> QED BY <1>0, <2>2, <3>1, <3>2
    <2>3. CASE \E n \in Nat : n >= obj[h].needs /\ BlocksOf(h) = {<<h, "object", n>>}
        <3>1. PICK n \in Nat : n >= obj[h].needs /\ BlocksOf(h) = {<<h, "object", n>>}
            BY <2>3
        <3> DEFINE a == <<h, "object", n>>
        <3>2. a[3] = n /\ BlocksOf(h) = {a}
            BY <3>1
        <3> HIDE DEF a
        <3>3. Owned(h) = n
            BY <3>2, OwnedOne
        <3> QED BY <3>1, <3>3
    <2> QED BY <2>1, <2>2, <2>3 DEF Owns
<1>3. RunningIsNotFreed /\ NoWaiterOnDeleted /\ StartNeedsNoHeap
    BY DEF ObjectInv, LifeInv, RunningIsNotFreed, NoWaiterOnDeleted, StartNeedsNoHeap
<1>4. TriggerIsReachable
    BY PlaceFacts DEF ObjectInv, MemoryInv, SoundAt, TriggerIsReachable
<1> QED BY <1>1, <1>2, <1>3, <1>4

(***************************************************************************)
(* For any handles, heap, sizes and parameters: every block of the heap     *)
(* belongs to an object that exists, whatever allocation or creation failed,*)
(* an object has the memory its length and item size call for, nothing that *)
(* runs or is waited for is freed, and the scheduler starts without heap    *)
(* (queue.c, stream_buffer.c, event_groups.c, timers.c, tasks.c: the create *)
(* and delete functions, prvCheckTasksWaitingTermination and                *)
(* vTaskStartScheduler).                                                    *)
(***************************************************************************)
THEOREM ObjectsHold == ObjectsInit /\ [][ObjectsNext]_objectVars => ObjectsAreSound
<1>1. ObjectsInit => ObjectInv
    BY Starts DEF ObjectInv
<1>2. ObjectInv /\ [ObjectsNext]_objectVars => ObjectInv'
    <2> SUFFICES ASSUME ObjectInv, [ObjectsNext]_objectVars PROVE ObjectInv'
        OBVIOUS
    <2>1. ASSUME NEW h \in Handles, ObjectStep(h) PROVE ObjectInv'
        BY <2>1, CreateQueueKeeps, QueueDeleteKeeps, CreateStreamBufferKeeps, CreateGroupKeeps, WaitKeeps, GroupDeleteKeeps,
            GroupFreeKeeps, CreateTimerKeeps, TimerDeleteKeeps, DaemonKeeps, CreateTaskKeeps, TaskDeleteKeeps DEF ObjectStep
    <2>2. CASE UNCHANGED objectVars
        BY <2>2, StillKeepsObjects DEF objectVars, Keep
    <2> QED BY <2>1, <2>2, IdleKeeps, SwitchKeeps, SchedulerStartKeeps DEF ObjectsNext
<1>3. ObjectInv =>
        HeapIsAccounted /\ StorageSuffices /\ RunningIsNotFreed /\ NoWaiterOnDeleted /\ TriggerIsReachable /\ StartNeedsNoHeap
    BY ObjectsSafe
<1> QED BY <1>1, <1>2, <1>3, PTL DEF ObjectsAreSound

=============================================================================
