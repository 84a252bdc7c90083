----------------------------- MODULE MCPlatform -----------------------------
(***************************************************************************)
(* The run-time support under the firmware, the configuration schema and   *)
(* the simulation node for TLC: the parts share no variable, and a          *)
(* behaviour exercises one of them, chosen at the start.                    *)
(***************************************************************************)
EXTENDS Threads, RuntimeSupport, SilAdapter, ConfigSchema, KernelObjects

CONSTANT Parts   \* the parts a run is about

VARIABLE part

----------------------------------------------------------------------------
\* Constants a .cfg cannot write

MCIncrements == {1, -1}

Foot(leg, state) == [leg |-> leg, state |-> state]
Contacts(validity, mask, feet) == [validity |-> validity, mask |-> mask, feet |-> feet]
MCContactMessages ==
    { Contacts("fresh", {1}, <<Foot(2, "touch"), Foot(1, "touch")>>),
      Contacts("stale", {1, 2}, <<Foot(1, "touch"), Foot(2, "touch")>>),
      Contacts("fresh", {1, 2}, <<Foot(1, "touch"), Foot(1, "touch")>>) }
MCJointMessages == {<<2, 1>>, <<1, 1>>, <<1, 0>>}

MCAnalog == <<<<-100, 0, 100>>, <<0, 0, 100>>, <<0, 0, 10>>>>
MCServo == <<50, 150>>
MCBody == [i \in 1..14 |-> 10]
MCHeightRange == 20..80
MCProfile ==
    [links |-> <<20, 40, 60>>, geometry |-> <<70, -50, 9>>,
     legs |-> <<<<60, 40, 0, 30>>, <<-60, -40, 0, -30>>>>, gait |-> <<50, 40, 20, 10, 5, 0>>]

MCBuffers == {<<0, 0>>, <<1, 0>>, <<2, 2>>, <<1, 2>>, <<15, 1>>}

Sound == defaultRobotConfig
SetChannel(c, f, v) == [c EXCEPT !.channels = [@ EXCEPT ![1] = [@ EXCEPT ![f] = v]]]
SetServo(c, f, v) == [c EXCEPT !.servos = [@ EXCEPT ![2] = [@ EXCEPT ![f] = v]]]
SetGeometry(c, f, v) == [c EXCEPT !.geometry = [@ EXCEPT ![f] = v]]

\* the default, a calibrated robot, and single faults of each block
MCCandidates ==
    { Sound,
      [Sound EXCEPT !.legs = <<<<-128, 127, -1, 0>>, <<1, -2, 3, -4>>>>,
                    !.servos = [i \in 1..4 |-> <<9 - i, (i - 1) \div 2, (i - 1) % 2, -1, -i, 20 + i, 190>>],
                    !.feet = <<<<-30000, 5, 6, 7, 1>>, <<30000, 1, 1, 1, 0>>>>, !.features = 7],
      [Sound EXCEPT !.links = <<0, 40, 60>>], [Sound EXCEPT !.links = <<70, 20, 80>>],
      SetGeometry(Sound, 1, 255), SetGeometry(Sound, 2, -10),
      [Sound EXCEPT !.gait = <<19, 40, 20, 10, 5, 0>>], [Sound EXCEPT !.gait = <<50, 40, 20, 10, 5, 6>>],
      SetChannel(Sound, 1, 2), SetChannel(Sound, 2, 1), SetChannel(Sound, 4, -100), SetChannel(Sound, 9, 99),
      [Sound EXCEPT !.body = [@ EXCEPT ![11] = 0]],
      SetServo(Sound, 1, 1), SetServo(Sound, 3, 0), SetServo(Sound, 4, 0), SetServo(Sound, 6, 150),
      [Sound EXCEPT !.feet = <<<<0, 1, 3, 2, 1>>, <<0, 0, 0, 0, 0>>>>],
      [Sound EXCEPT !.features = 32] }

----------------------------------------------------------------------------
platformVars == <<part, condVars, threadVars, guardVars, heapVars, clockVars, silVars, schemaVars, objectVars>>

\* a part that is not exercised starts in one of its initial states only
PlatformInit ==
    /\ part \in Parts
    /\ CondInit /\ ThreadInit /\ GuardInit /\ HeapInit /\ ClockInit /\ SilInit /\ ObjectsInit
    /\ part # "cond" => ~timed
    /\ part # "heap" => runs = CHOOSE t \in HeapTasks : TRUE
    /\ IF part = "schema" THEN SchemaInit
       ELSE written = Sound /\ version = CurrentVersion /\ payload = <<>> /\ loaded = <<>>

PlatformNext ==
    \/ /\ part = "cond" /\ CondNext
       /\ UNCHANGED <<part, threadVars, guardVars, heapVars, clockVars, silVars, schemaVars, objectVars>>
    \/ /\ part = "thread" /\ ThreadNext
       /\ UNCHANGED <<part, condVars, guardVars, heapVars, clockVars, silVars, schemaVars, objectVars>>
    \/ /\ part = "guard" /\ GuardNext
       /\ UNCHANGED <<part, condVars, threadVars, heapVars, clockVars, silVars, schemaVars, objectVars>>
    \/ /\ part = "heap" /\ HeapNext
       /\ UNCHANGED <<part, condVars, threadVars, guardVars, clockVars, silVars, schemaVars, objectVars>>
    \/ /\ part = "clock" /\ ClockNext
       /\ UNCHANGED <<part, condVars, threadVars, guardVars, heapVars, silVars, schemaVars, objectVars>>
    \/ /\ part = "sil" /\ SilNext
       /\ UNCHANGED <<part, condVars, threadVars, guardVars, heapVars, clockVars, schemaVars, objectVars>>
    \/ /\ part = "schema" /\ SchemaNext
       /\ UNCHANGED <<part, condVars, threadVars, guardVars, heapVars, clockVars, silVars, objectVars>>
    \/ /\ part = "objects" /\ ObjectsNext
       /\ UNCHANGED <<part, condVars, threadVars, guardVars, heapVars, clockVars, silVars, schemaVars>>

\* the scheduler runs every thread that can run; the cycle timer fires
PlatformFair ==
    /\ \A t \in Consumers : WF_condVars(part = "cond" /\ ConsumerStep(t))
    /\ \A t \in Producers : WF_condVars(part = "cond" /\ ProducerStep(t))
    /\ WF_threadVars(part = "thread" /\ ThreadWork)
    /\ \A t \in GuardTasks : WF_guardVars(part = "guard" /\ GuardStep(t))
    /\ SF_objectVars(part = "objects" /\ prvCheckTasksWaitingTermination)
    /\ WF_objectVars(part = "objects" /\ SwitchTo(IdleTcb))
    /\ WF_silVars(part = "sil" /\ Cycle)

PlatformSpec == PlatformInit /\ [][PlatformNext]_platformVars /\ PlatformFair

(***************************************************************************)
(* What was begun ends: a join returns, no consumer of a condition variable *)
(* sleeps while there is an item for it, the memory of a task that deleted  *)
(* itself is reclaimed, and the simulation node samples again after a stall *)
(* (join, __gthread_cond_wait, prvCheckTasksWaitingTermination, sample).    *)
(***************************************************************************)
PlatformWorkCompletes == JoinReturns /\ NoItemIsSlept /\ DeletedIsReclaimed /\ SamplingResumes
=============================================================================
