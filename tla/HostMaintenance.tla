------------------------------ MODULE HostMaintenance ------------------------------
EXTENDS Integers, Sequences, FiniteSets

(***************************************************************************)
(* Servo jobs of a maintenance session: the host submits one job at a time  *)
(* through apiTask (protocol/dxl_job_api.cpp) and polls for its result by   *)
(* id; dxlTask claims the job, talks to the bus and completes it            *)
(* (runQueuedDxlJob, app/tasks.cpp), and in the rest of its cycle keeps     *)
(* released servos limp.                                                    *)
(* DxlActuation has the jobs that move power and torque of all servos;      *)
(* here are the ones about single servos and their registers.               *)
(*                                                                         *)
(* A transaction may go unanswered with or without effect, and a servo may  *)
(* answer a write and keep its old value.  In builds with the output        *)
(* disabled the guard refuses every write (hil/output_guard.cpp).           *)
(***************************************************************************)

CONSTANTS
    Servos,      \* servo ids on the bus, positive integers
    Ranges,      \* the id ranges <<first, last>> the host may scan
    Values,      \* register values the host may write
    IdMod,       \* 2^8, the range of job ids
    MaxFaults    \* bound on the transactions that fail

ASSUME JobsAssumption ==
    /\ Servos \subseteq Nat \ {0} /\ Ranges \subseteq Nat \X Nat
    /\ IdMod \in Nat \ {0, 1} /\ MaxFaults \in Nat /\ IsFiniteSet(Servos)

VARIABLES
    disabled,    \* hil::outputDisabled()
    maintained,  \* MacMaintenance holds and the lock is held
    queue,       \* DxlJobQueue
    cursor,      \* g_dxlScanJob: the ids still to ping
    bus,         \* what dxlTask knows and what the servos are
    cycle,       \* "job", then "tail" of dxlTask's cycle
    faults,      \* failed transactions
    outcome,     \* the outcome of the last job that ran under id 1
    chosen       \* servos whose torque the host switched off one by one

jobVars == <<disabled, maintained, queue, cursor, bus, cycle, faults, outcome, chosen>>

NoJob == [type |-> "None", servo |-> 0, value |-> 0]

JobsInit ==
    /\ disabled \in BOOLEAN /\ maintained = TRUE
    /\ queue = [slot |-> "Empty", id |-> 0, next |-> 0, req |-> NoJob, result |-> "none"]
    /\ cursor = <<>>
    /\ bus = [known |-> <<>>, cached |-> {}, on |-> {},
              reg |-> [s \in Servos |-> [low |-> 0, high |-> 0]],
              released |-> {}]
    /\ cycle = "job" /\ faults = 0
    /\ outcome = "none" /\ chosen = {}

-----------------------------------------------------------------------------
(* apiTask: submit and poll *)

HostJobs ==
    {[type |-> "Scan", servo |-> r[1], value |-> r[2]] : r \in Ranges}
    \cup [type : {"Release", "Hold"}, servo : Servos, value : {0}]
    \cup [type : {"AllOn"}, servo : {0}, value : {0}]
    \cup [type : {"Limits"}, servo : Servos, value : Values]

\* Job ids go round, and 0 is never one
nextJobId(n) == IF (n + 1) % IdMod = 0 THEN 1 ELSE n + 1
gateOpen == maintained

Submit(j) ==
    /\ gateOpen
    /\ queue.slot \in {"Empty", "Done"}
    /\ queue' = [queue EXCEPT !.slot = "Pending", !.req = j, !.id = nextJobId(queue.next),
                              !.next = nextJobId(queue.next), !.result = "none"]
    /\ outcome' = IF queue'.id = 1 THEN "none" ELSE outcome
    /\ UNCHANGED <<disabled, maintained, cursor, bus, cycle, faults, chosen>>

poll(id) ==
    IF id # queue.id THEN [kind |-> "Empty", code |-> "none"]
    ELSE [kind |-> queue.slot, code |-> IF queue.slot = "Done" THEN queue.result ELSE "none"]

\* The session ends: the lock lapses or the operator takes over
LeaveMaintenance ==
    /\ maintained
    /\ maintained' = FALSE
    /\ UNCHANGED <<disabled, queue, cursor, bus, cycle, faults, outcome, chosen>>

-----------------------------------------------------------------------------
(* Bus transactions.  f says which one of a job fails, if any, and whether   *)
(* a write that got no answer took effect all the same.                      *)

Steps == {"none", "off", "check", "write", "read", "refused"}
Faults == [at : Steps, took : BOOLEAN]

Known(b) == {b.known[i] : i \in DOMAIN b.known}
IndexOf(b, s) == CHOOSE i \in DOMAIN b.known : b.known[i] = s

\* setTorqueOne(id, false): the cache follows only an answered write
TorqueOff(b, s, f) ==
    LET b1 == IF f.at # "off" \/ f.took THEN [b EXCEPT !.on = @ \ {s}] ELSE b
    IN  IF f.at = "off" THEN b1 ELSE [b1 EXCEPT !.cached = @ \ {s}]
TorqueOn(b, s, f) ==
    LET b1 == IF f.at # "off" \/ f.took THEN [b EXCEPT !.on = @ \cup {s}] ELSE b
    IN  IF f.at = "off" THEN b1 ELSE [b1 EXCEPT !.cached = @ \cup {s}]

\* writeParamChecked for the torque of one servo, with its verifying read
WriteTorque(b, s, on, f) ==
    LET b1 == IF on THEN TorqueOn(b, s, f) ELSE TorqueOff(b, s, f)
        i == IndexOf(b, s)
    IN  IF f.at \in {"off", "check"} THEN [bus |-> b1, code |-> "BusError"]
        ELSE [bus |-> [b1 EXCEPT !.released = IF on THEN @ \ {i} ELSE @ \cup {i}], code |-> "Ok"]

WriteCell(b, s, cell, v, f) ==
    IF f.at = "refused" \/ (f.at = "write" /\ ~f.took) THEN b ELSE [b EXCEPT !.reg[s][cell] = v]

WriteEeprom(b, s, cell, v, f) ==
    LET b1 == TorqueOff(b, s, f)
    IN  IF f.at \in {"off", "check"} THEN [bus |-> b1, code |-> "BusError"]
        ELSE [bus |-> WriteCell(b1, s, cell, v, f),
              code |-> IF f.at \in {"write", "read"} THEN "BusError"
                       ELSE IF f.at = "refused" THEN "VerifyFailed" ELSE "Ok"]

SetLimits(b, s, v, f, g) ==
    LET low == WriteEeprom(b, s, "low", v, f)
        high == WriteEeprom(low.bus, s, "high", v, g)
    IN  [bus |-> high.bus,
         code |-> IF "BusError" \in {low.code, high.code} THEN "BusError"
                  ELSE IF "VerifyFailed" \in {low.code, high.code} THEN "VerifyFailed" ELSE "Ok"]

\* The torque of all servos: held where they are, or none of them on
HoldAll(b, f) ==
    IF f.at # "none"
    THEN [bus |-> [b EXCEPT !.released = {}, !.on = @ \ Known(b), !.cached = @ \ Known(b)], code |-> "BusError"]
    ELSE [bus |-> [b EXCEPT !.released = {}, !.on = @ \cup Known(b), !.cached = @ \cup Known(b)], code |-> "Ok"]

\* With the output disabled the writing jobs are answered before the bus
RunJob(b, j, f, g) ==
    IF disabled THEN [bus |-> b, code |-> "OutputDisabled"]
    ELSE IF j.type = "AllOn" THEN HoldAll(b, f)
    ELSE IF j.servo \notin Known(b) THEN [bus |-> b, code |-> "NotFound"]
    ELSE CASE j.type = "Release" -> WriteTorque(b, j.servo, FALSE, f)
           [] j.type = "Hold" -> WriteTorque(b, j.servo, TRUE, f)
           [] j.type = "Limits" -> SetLimits(b, j.servo, j.value, f, g)

-----------------------------------------------------------------------------
(* dxlTask *)

complete(id, code) ==
    /\ queue' = IF queue.slot = "Running" /\ queue.id = id
                THEN [queue EXCEPT !.slot = "Done", !.result = code, !.req = NoJob] ELSE queue
    /\ outcome' = IF id = 1 THEN code ELSE outcome

InJob == cycle = "job" /\ cycle' = "tail"

NoneClaimed ==
    /\ InJob /\ cursor = <<>> /\ queue.slot # "Pending"
    /\ UNCHANGED <<disabled, maintained, queue, cursor, bus, faults, outcome, chosen>>

\* A scan empties the servo table; it does not touch the released bits, which
\* are indices into that table
ScanBegins ==
    /\ InJob /\ cursor = <<>> /\ queue.slot = "Pending" /\ queue.req.type = "Scan"
    /\ queue' = [queue EXCEPT !.slot = "Running", !.req = NoJob]
    /\ cursor' = <<queue.req.servo, queue.req.value>>
    /\ bus' = [bus EXCEPT !.known = <<>>, !.cached = {}]
    /\ UNCHANGED <<disabled, maintained, faults, outcome, chosen>>

ScanAdvances(answered) ==
    LET id == cursor[1]
    IN  /\ InJob /\ cursor # <<>>
        /\ answered => id \in Servos
        /\ ~answered /\ id \in Servos => faults < MaxFaults
        /\ faults' = IF ~answered /\ id \in Servos THEN faults + 1 ELSE faults
        /\ bus' = IF answered THEN [bus EXCEPT !.known = Append(@, id),
                                               !.cached = IF id \in bus.on THEN @ \cup {id} ELSE @]
                  ELSE bus
        /\ cursor' = IF id = cursor[2] THEN <<>> ELSE <<id + 1, cursor[2]>>
        /\ IF cursor' = <<>> THEN complete(queue.id, "Ok") ELSE UNCHANGED <<queue, outcome>>
        /\ UNCHANGED <<disabled, maintained, chosen>>

JobRuns(f, g) ==
    LET r == RunJob(bus, queue.req, f, g)
        failed == Cardinality({x \in {1, 2} : (IF x = 1 THEN f ELSE g).at # "none"})
    IN  /\ InJob /\ cursor = <<>> /\ queue.slot = "Pending" /\ queue.req.type # "Scan"
        /\ queue.req.type # "Limits" => g.at = "none"
        /\ faults + failed <= MaxFaults /\ faults' = faults + failed
        /\ bus' = r.bus
        /\ queue' = [queue EXCEPT !.slot = "Done", !.result = r.code, !.req = NoJob]
        /\ outcome' = IF queue.id = 1 THEN r.code ELSE outcome
        /\ chosen' = IF r.code = "Ok" /\ queue.req.type = "Release" THEN chosen \cup {queue.req.servo}
                     ELSE IF r.code = "Ok" /\ queue.req.type = "Hold" THEN chosen \ {queue.req.servo}
                     ELSE IF queue.req.type = "AllOn" THEN {} ELSE chosen
        /\ UNCHANGED <<disabled, maintained, cursor>>

\* The rest of the cycle: the masks end with the session; within it a released
\* servo whose cached torque is on is switched off again
Reasserted(b) == {b.known[i] : i \in {x \in DOMAIN b.known : x \in b.released /\ b.known[x] \in b.cached}}
CycleTail ==
    /\ cycle = "tail" /\ cycle' = "job"
    /\ bus' = IF ~maintained THEN [bus EXCEPT !.released = {}]
              ELSE [bus EXCEPT !.on = @ \ Reasserted(bus), !.cached = @ \ Reasserted(bus)]
    /\ chosen' = IF maintained THEN chosen ELSE {}
    /\ UNCHANGED <<disabled, maintained, queue, cursor, faults, outcome>>

DxlTask ==
    \/ NoneClaimed \/ ScanBegins \/ CycleTail
    \/ \E a \in BOOLEAN : ScanAdvances(a)
    \/ \E f \in Faults, g \in Faults : JobRuns(f, g)

JobsNext ==
    \/ \E j \in HostJobs : Submit(j)
    \/ LeaveMaintenance
    \/ DxlTask

JobsSpec == JobsInit /\ [][JobsNext]_jobVars

-----------------------------------------------------------------------------
(* Properties *)

\* A poll that says Done carries the outcome of the last job accepted under the
\* id it asks for, although ids go round and the slot holds one job (id 1 stands
\* for any)
PollReturnsOwnResult == poll(1).kind = "Done" => poll(1).code = outcome

\* Registers in EEPROM are written only while the servo's torque is really off,
\* also when a torque write went unanswered
EepromOnlyWhenLimp ==
    [][\A s \in Servos : bus.reg[s].low # bus'.reg[s].low \/ bus.reg[s].high # bus'.reg[s].high
            => s \notin bus'.on]_jobVars

\* A limits job that reports Ok left both limits at the requested value, whatever
\* the two writes went through
OkMeansStored ==
    [][/\ queue.slot = "Pending" /\ queue'.slot = "Done" /\ queue.req.type = "Limits" /\ queue'.result = "Ok"
       => \A c \in {"low", "high"} : bus'.reg[queue.req.servo][c] = queue.req.value]_jobVars

\* Every accepted job is completed, a scan that takes many cycles included, even
\* when the session ends while it waits or runs
AcceptedJobEnds == queue.slot \in {"Pending", "Running"} ~> queue.slot = "Done"

-----------------------------------------------------------------------------
(***************************************************************************)
(* Bench targets: apiTask's SET_LEG_TARGET, SET_JOINT_TARGET,               *)
(* SET_ALL_JOINTS and SET_CONTROL_MODE (protocol/maintenance_target_api.cpp *)
(* under the gate of a maintenance session), and the control cycle that     *)
(* turns the stored targets into goals, and clears them when a session      *)
(* starts (controller_core.cpp, app/tasks.cpp).                             *)
(*                                                                         *)
(* controlTask preempts apiTask, so a cycle is one step and a handler can   *)
(* be cut between its gate check and its stores.  A stored target carries    *)
(* the session it was requested in; angles and ticks are left out.          *)
(***************************************************************************)

CONSTANTS
    Legs, Joints,    \* a servo is at <<leg, joint>>
    Mapped,          \* the <<leg, joint>> the configuration has a servo for
    MaxSessions      \* bound on the sessions of a behaviour

Sites == Legs \X Joints

ASSUME TargetsAssumption == Mapped \subseteq Sites /\ MaxSessions \in Nat \ {0}

VARIABLES
    handler,      \* the request apiTask is in, past the gate, or Quiet
    lock,         \* MaintenanceApi: the lock is held
    gate,         \* live_state_ and lock_held_ as the cycle published them
    authority,    \* previous_maintenance_authority_
    session,      \* number of the session the host asked for last
    target,       \* <<leg, joint>> -> session of its target, 0 when not set
    mode,         \* MaintControlMode
    goals,        \* <<leg, joint>> -> session of the goal of this cycle, 0 when none
    began,        \* session in which the cycle last saw a session start
    driver        \* session of the last cycle

targetVars == <<handler, lock, gate, authority, session, target, mode, goals, began, driver>>

Quiet == [kind |-> "none", sites |-> {}, session |-> 0]
Cleared == [x \in Sites |-> 0]

TargetsInit ==
    /\ handler = Quiet /\ lock = FALSE /\ gate = FALSE /\ authority = FALSE
    /\ session = 0 /\ target = Cleared /\ mode = "JointTargets" /\ goals = Cleared
    /\ began = 0 /\ driver = 0

-----------------------------------------------------------------------------
(* apiTask *)

AskLock ==
    /\ handler = Quiet /\ ~lock /\ session < MaxSessions
    /\ lock' = TRUE /\ session' = session + 1
    /\ UNCHANGED <<handler, gate, authority, target, mode, goals, began, driver>>

\* A leg's sites are stored only when the foot position is reachable, a single
\* joint only when it has a servo, and of all joints those that have one; the
\* other requests still switch the control mode
Requests ==
    [kind : {"leg"}, sites : {{}} \cup {{x \in Sites : x[1] = l} : l \in Legs}]
    \cup [kind : {"joint"}, sites : {{}} \cup {{x} : x \in Mapped}]
    \cup {[kind |-> "all", sites |-> Mapped]}
    \cup {[kind |-> "mode", sites |-> {}]}

PassGate(r) ==
    /\ handler = Quiet
    /\ gate
    /\ handler' = [kind |-> r.kind, sites |-> r.sites, session |-> session]
    /\ UNCHANGED <<lock, gate, authority, session, target, mode, goals, began, driver>>

Store ==
    /\ handler # Quiet
    /\ target' = [x \in Sites |-> IF x \in handler.sites THEN handler.session ELSE target[x]]
    /\ mode' \in IF handler.kind = "mode" THEN {"JointTargets", "GaitPipeline"} ELSE {"JointTargets"}
    /\ handler' = Quiet
    /\ UNCHANGED <<lock, gate, authority, session, goals, began, driver>>

-----------------------------------------------------------------------------
(* controlTask; the lock lapses when the host stops feeding it, leaves or is revoked *)

LockLapses ==
    /\ lock /\ lock' = FALSE
    /\ UNCHANGED <<handler, gate, authority, session, target, mode, goals, began, driver>>

\* The first cycle of a session has no goals and clears targets and mode;
\* the following ones take the goals from the targets in JointTargets mode
SessionStartKeepsTargets == UNCHANGED <<target, mode>>
SessionStart == target' = Cleared /\ mode' = "JointTargets"

TargetCycle ==
    /\ authority' = lock /\ gate' = lock
    /\ IF lock /\ ~authority THEN SessionStart ELSE UNCHANGED <<target, mode>>
    /\ goals' = IF lock /\ authority /\ mode = "JointTargets"
                THEN [x \in Sites |-> IF x \in Mapped THEN target[x] ELSE 0] ELSE Cleared
    /\ began' = IF lock /\ ~authority THEN session ELSE began
    /\ driver' = session
    /\ UNCHANGED <<handler, lock, session>>

TargetsNext ==
    \/ AskLock \/ Store \/ LockLapses \/ TargetCycle
    \/ \E r \in Requests : PassGate(r)

TargetsSpec == TargetsInit /\ [][TargetsNext]_targetVars

-----------------------------------------------------------------------------
(* Properties *)

\* Joint goals come only from targets asked for since the control cycle saw the
\* session start, although the host API keeps the targets of earlier sessions and
\* a handler can be cut between its gate check and its stores
NoReplayedTargets == \A x \in Sites : goals[x] # 0 => goals[x] >= began

(***************************************************************************)
(* A maintenance session is told the truth: a poll returns the result of   *)
(* the job it names, Ok means stored, EEPROM is written to limp servos     *)
(* only, and no target of an earlier session moves a joint (poll, dxlTask, *)
(* SessionStart).                                                          *)
(***************************************************************************)
MaintenanceIsHonest ==
    /\ [](PollReturnsOwnResult /\ NoReplayedTargets)
    /\ EepromOnlyWhenLimp /\ OkMeansStored
=============================================================================
