# A TLA+ verification project for the hexapod firmware

The repository drives an eighteen-servo walking robot. A FreeRTOS firmware
(`firmware/openrb150/src`, default build `teensymm`) runs on the robot; a
desktop companion application, a Jetson bridge, a ROS simulation and a Python
protocol library talk to it. This directory holds TLA+ models of the firmware:
first what decides *whether the robot may move, hold torque or be powered* and
*whether a configuration that was reported stored is stored*, then the way from
the radio to the joints, the host's requests, the records the robot keeps, and
the kernel and run-time library underneath. TLC runs check the models on small
instances; TLAPS proofs establish the most important results for every value
of the constants.

Every definition is translated from the source; `PROJECT.json` (`map`) names
the lines. A helper whose lines lie inside those of the operation that uses it
is read with that operation and has no entry of its own. Check a module with `tlc -config <cfg> <module>` for the pairs
listed under "Runs", the proofs with `tlapm <module>` for the modules listed
under "Proofs".

## 1. Inventory

### 1.1 Tasks

| task | priority, period | owns | talks to |
|---|---|---|---|
| `rcTask` | 3, 10 ms | CRSF parser, `ControllerBridge` | publishes the RC snapshot |
| `controlTask` | 3, 10 ms | `ControllerCore`: clock, arbiter, state machine, gait | reads RC, host latches, servo evidence; publishes source, state, gate, goals |
| `dxlTask` | 3, 20 ms | servo bus, servo power, torque | samples state, source, gate; publishes evidence and hard fault; executes jobs |
| `apiTask` | 2, 5 ms | USB protocol, all `*Api` objects, `ConfigApi` | latches requests; posts jobs and commits |
| `i2cTask` | 1, 20 ms | sensors, OpenLog card | executes commits, boots the configuration |
| `healthTask` | 4, 100 ms | battery, watchdog, LED | publishes health |

The tasks share plain globals, a few mutexes, one binary semaphore
(`g_commitDone`) and single-slot mailboxes. Hence the hard behaviours: values
sampled at the top of a cycle and acted on at its end, publication by several
stores, a one-slot mailbox with a timeout, time stamps compared across tasks,
operators who hold a switch while everything else restarts, and a storage card
that can fail between any two writes of a record.

### 1.2 Components, their state and what makes them correct

| component | state | operations | correct when |
|---|---|---|---|
| safety state machine | state, reason, last fault, clear latch, release latch, three timers | `update`, `requestClearFault`, `reset` | stops win over everything, a held switch never rearms, the reason explains the state, waits end |
| command arbiter | Jetson time stamp, host E-stop | `update` | the source that drives is the one the state was entered for |
| RC bridge | decoded command, release debounce | `update`, `evaluateFailsafe` | a lost link is a kill, never an arm |
| control, maintenance, passive APIs | host latches; lock, TTL, recovery flag; passive request | message handlers, TTL expiry | a host stop is never lost; authority ends with the host's heartbeat |
| controller core | the above, the clock | `step` | one cycle suffices to stop; an invalid clock closes the gate |
| servo actuation | power, servo table, torque, hold seeds, evidence, job slot | `dxlTask` cycle | a stopped robot is unpowered; torque is never enabled away from the present position; evidence is about now |
| configuration journal | file, sync point, sequence | `scan`, `load`, `commit`, bootstrap | the second of two confirmed commits loads; boot displaces a record only when it could not read one |
| configuration commit | shadow, staging, mailbox, semaphore, gait flags | host messages, gait save, i2cTask pass | Ok means this payload was stored; each press is saved once |
| watchdog, error journal, event log, fault capture | check-in windows, slots, rings, markers that survive a reset | evaluate, raise, drain, boot | a stall is caught and named; a crash is reported until its line is acknowledged; a critical error is shown first |
| framing (COBS, CRC, reader), telemetry | buffers, subscriptions | feed, encode, schedule | round trip, resynchronisation, losses counted |
| job, target, bindings, sensor, motion and feature APIs | one-slot requests, request counters, staged targets | message handlers, consumers in other tasks | the last request wins, a result is the job's own, old targets are never replayed |
| HIL observer and trace | request ring, one-slot recorder, fragments | capture, record, emit | a capture has no gap, an abort hits its own capture |
| RC bridge, conditioner, channel pack | layouts, debounces, filters | frame, pass | controls arrive as held, presses count once |
| CRSF link | parser, downlink ages | push, pass | resynchronisation; every frame kind goes out |
| gait, trick player, shaper, pipeline | phase, segment, twist, goals | control cycle | feet on the ground move as one; authority changes without a jump |
| sensors, OpenLog driver, capture log | multiplexer, estimator, cache, samples | poll, read, write | a sample is its own foot's; a read returns the file |
| FreeRTOS kernel, C++ run-time port | lists, queues, services, guards, heap lock | kernel calls, interrupts | the most urgent ready task runs; nothing is lost; a mutex is a lock |
| simulation adapter | last inputs and their ages | callbacks, cycle timer | stale input closes the gate |
| companion, Jetson bridge, Python protocol | clients | request/response | represented by the messages they may send |

`PROJECT.json` lists all of them with their status, and under `hazards` what is
hard to test in them, line by line.

## 2. Modules

```
SafetyPolicy <- implements - SafetyStateMachine <- EXTENDS - ControlLoop <- MCControlLoop
     ^ INSTANCE                       ^                            ^
DxlActuation                     SafetyStateMachineProofs <- ControlLoopProofs
     ^ DxlActuationProofs
ConfigStore <- EXTENDS - ConfigCommit <- ConfigProofs
KernelTasks <- KernelQueues <- Kernel <- KernelServices <- MCKernel - implements -> KernelLock
HostLink, HostMaintenance, HostSettings, HilCapture                <- MCHost
          HostMaintenance, HostSettings                            <- HostProofs
ChannelPack, RcBridge, RcAnalog, CrsfLink, GaitEngine, MotionCore, GaitSave <- MCInput
             RcBridge,           CrsfLink,             MotionCore, GaitSave <- InputProofs
ErrorRecords, ResetEvidence, CardStorage, SensorBus                <- MCRecords, RecordsProofs
Threads, RuntimeSupport, KernelObjects, SilAdapter, ConfigSchema   <- MCPlatform
Threads, RuntimeSupport, KernelObjects, SilAdapter                 <- PlatformProofs
```

The `MC` modules give the constants their small values; ConfigStore,
ConfigCommit and DxlActuation end with their own instance. MCHost, MCInput,
MCRecords, MCPlatform and MCKernel put together parts that share no variable: a
behaviour exercises one of them, chosen by its initial state, so one run checks
the sum and not the product of their state spaces.

### The authority loop

**SafetyPolicy** (`safety/state_machine.cpp`, read as a graph). Which state may
follow which, with the classification functions `isOperational`,
`stateAllowsMotion`, `stateAllowsTorque`, `stateAllowsDxlPower`. It is what
other tasks rely on when they sample the state byte.

**SafetyStateMachine** (`safety/state_machine.cpp`, `.h`). One action per
region of `update()`'s ladder: `DxlHardFault`, `FaultHardLatched`,
`EstopAsserted`, `EstopReleased`, `ForcedDisarm`, `Starting`, `Resting`, `Arming`,
`Engaged`, `SoftFault`; `Update(in, dt)` is their disjunction, and their guards
reproduce the order of the early returns. Inputs are the fields of
`StateInputs`; a battery is "ok", "low" or "invalid". Time stamps become ages,
advanced by the period `dt` and saturated at the timeout they meet
(`now - since >= limit` only asks whether the limit is reached). The unsigned
differences of this class all use one clock, so saturation loses nothing.

**ControlLoop** extends the machine with what feeds it: `RcFrame`, `RcSilent`
(rcTask), the host messages (`Estop`, `ClearFault`, `SetArming`,
`NoteJetsonHeartbeat`, `PassiveEnter/Exit`, `SubmitJob`), the two-step
maintenance requests (`MaintReceive` samples clock and state, `MaintEnter`,
`MaintExit`, `MaintHeartbeat` handle the request later), `JobDone`,
`ConfigLoaded`, and the two cycles of controlTask: `ControlCycle(env, dt)`
(collect, TTL and feed, arbitrate, recover, `Update`, publish, revoke) and
`ControlOverrun` (clock sample invalid: requests consumed, outputs off, machine
untouched). controlTask and rcTask outrank apiTask, so their cycles are atomic
towards it. Between receipt and handling of a maintenance request at most
`ApiWindow` ticks pass; the age of the lock is compared there the way the code
does, so a feed that is newer than the request's clock sample wraps to "very
old". **MCControlLoop** adds history variables and scenarios: a scenario is the
set of frames, messages and environments a behaviour may meet.

**DxlActuation** is dxlTask as a program counter through its cycle (`sample`,
`discover`, `check`, `torque`, `job`, `power`, `gate`, `read`, `status`) with
controlTask running between any two of its steps, at most `MaxLag` times per
cycle. controlTask is represented by what it promises (`SafetyPolicy`, the
conditions under which it uses dxlTask's evidence) and publishes source and
state first and the gate in a later step. Per servo the model keeps whether it
is discovered, what the torque cache says, whether it really holds torque,
whether its goal register holds its present position, and whether its pose is
known. A bus write may be acknowledged, lost, or executed with a lost
acknowledgement. That controlTask really follows SafetyPolicy is a theorem of
ControlLoopProofs.

### Configuration

**ConfigStore** is the append-only journal: units for header, payload chunks,
trailer, and two kinds of torn fragment, a foreign byte (`Junk`) and a byte cut
between its two hexadecimal characters (`Half`). Behind a `Half` nobody can tell
the file's size, and what is appended reads as garbage (`Odd`). `commit()` goes in
its real steps (scan for the sequence, append header, append chunks, append
trailer, sync), each of which may fail; then `load()`; the boot sequence, which
asks for the size first; and `Reset`, which keeps any prefix between the synced
and the written length. `ScanStep` is one turn of the scan over offsets; it steps
over a record by the length its header announces, as the code does. A failed
read of the size, a header or a trailer ends the scan (`ScanFails`). A failed
read of a payload does not: `payloadValid` then returns false as for a bad CRC, so
each scan takes a set of headers whose payload is `unread`, and what it finds may
be an older record or none. The history variables `missed` (how many sequence
numbers the last scan fell short of the highest) and `misread` (a read failed in
the bootstrap's last attempt) exist for the properties only.
**ConfigCommit** extends it with the three tasks around a commit:
host messages (`SetBlock`, `ResetDefaults`, `Commit`), the transmitter's gait
save (`GaitPress`, `SaveGait`), the mailbox and semaphore (`WaitSucceeds`,
`WaitTimesOut`, `I2cCommit`, `I2cWrite`, `I2cReport`) and `PowerCycle`.
**GaitSave** looks at the same save from the button's side: sequence numbers,
the request flag, and a host that edits the staging buffer meanwhile.
**ConfigSchema** is the serialised form, its older versions, migration and
validation, over bytes of `ByteBase` values.

### Input and motion

**ChannelPack** (how controls are packed into channels and told apart by
layout, under the jitter of the air link), **RcBridge** (profile detection,
arm, mode, trick, tuning and capture buttons, with their debounces),
**RcAnalog** (calibration, filter, axis), **CrsfLink** (byte-wise parser,
downlink scheduler), **GaitEngine** (gait tables, keyframes, phase),
**MotionCore** (the motion half of `ControllerCore::step`: trick player,
shaper, goal pipeline with its ramp; one axis and one joint stand for all).

### Host

**HostLink** (COBS, CRC, header and reader over small words, and the telemetry
scheduler), **HostMaintenance** (single-servo jobs with ids and polls, joint
targets and releases), **HostSettings** (bindings, motion, features, scan and
calibration requests), **HilCapture** (capture requests, the recorder slot two
tasks share, fragments).

### Records and sensors

**ErrorRecords** (error journal and event log), **ResetEvidence** (watchdog,
its hardware backstop, crash record and markers over resets: the missed mask
and the progress marker are each two stores, value and inverse, and a reset may
fall between them; the crash line is appended, seen, and acknowledged after one
more query, in separate steps), **CardStorage**
(block reads, capture rows, i2cTask's pass), **SensorBus** (multiplexer,
discovery, polling and orientation hub, and the contact estimator of a foot).

### Kernel and run time

**KernelTasks**, **KernelQueues**, **KernelServices** and **Kernel** are the
vendored FreeRTOS kernel as the firmware configures it (one core, six tasks, no
time slicing, no tickless idle, no queue sets): the C code's lists as functions
of a kernel state, one step per critical section (the two of `prvUnlockQueue` and
the one that announces a wait for a notification included), interrupts and the
context switch in between. **KernelLock** is the abstract mutex, which the kernel's
mutex implements (`MutexIsLock`). **KernelObjects** is the memory of kernel
objects. **Threads** is the C++ thread and condition-variable port,
**RuntimeSupport** the guards of function-local statics, the newlib heap lock
and the microsecond clock. **SilAdapter** is the ROS node that runs the
controller core in simulation.

### Abstractions worth knowing

* A payload's CRC is the identity of the payload it was computed from; all
  payloads have one length, as `kConfigPayloadSize` makes them. HostLink, where
  the CRC is the subject, computes it bit by bit.
* The journal model is the Teensy build's: the SAMD21 build ignores I2C write
  errors. The retained state of ResetEvidence is compiled into the SAMD21 build
  only; elsewhere nothing is kept over a reset.
* apiTask and i2cTask mutex sections are atomic towards each other and their
  takes never time out: single core, fixed priorities, priority inheritance
  (`PriorityIsLent` is that argument on the kernel's side).
* Rejections of a host request by policy (lock, torque, validation) that change
  nothing are stutters.
* `arming_evidence` in ControlLoop stands for coverage, poses and readiness of
  the current configuration; DxlActuation models how they come about.
* Build variants not modelled: latched-power and power-only boards.

## 3. Runs

| run | module, cfg | states | what it shows |
|---|---|---|---|
| safety_machine | MCSafetyStateMachine, SafetyStateMachine | 1,884 | invariants of `update()` and its refinement of SafetyPolicy |
| control | MCControlLoop, ControlLoop | 433,118 | authority, one-cycle stop, release latch and maintenance TTL, walking and on the bench |
| control_live | MCControlLoop, ControlLoopLive | 74,792 | a silent radio ends with the robot stopped |
| dxl_actuation | DxlActuation, DxlActuation | 3,253,519 | power, torque, seeding and evidence with every bench job, bus failures and lost acknowledgements |
| config_store | ConfigStore, ConfigStore | 359,733 | journal and boot under failed reads (payload reads too), failed and torn writes and resets |
| config_commit | ConfigCommit, ConfigCommit | 203,096 | mailbox, boot and journal together under read and write faults, with one timeout |
| host | MCHost, Host | 603,851 | frames, telemetry, jobs and targets, settings, captures, and that accepted work ends |
| input | MCInput, Input | 192,412 | from the receiver's bytes to the joint goals |
| records | MCRecords, Records | 299,235 | error records, watchdog and resets, card, feet, sensor bus, and that service resumes after faults |
| platform | MCPlatform, Platform | 156,566 | threads, guards, heap, clock, kernel objects, schema, simulation adapter |
| kernel | MCKernel, Kernel | 449,184 | thirteen small workloads on the kernel, and its mutex as an abstract lock |
| confirmed_commit_lost | ConfigStore, ConfirmedCommitLost | | violation, see below |

### The properties

Authority (runs safety_machine, control, control_live):

* `EngagedNeedsRelease`, `ReasonExplainsState`, `BoundedWaits`: the latches,
  the displayed reason and the timers agree with the state. `ImplementsPolicy`:
  every update is a step of SafetyPolicy.
* `AuthorityMatchesState`: an open gate carries the authority the state was
  entered for. Arbiter and machine decide separately from inputs other tasks
  change in between. One exception is part of the statement: in JetsonAssisted
  the gate may be held by a maintenance lock (see "disagreements").
* `StopTakesOneCycle`: a host E-stop or a live kill at the start of a cycle
  leaves the gate closed and the state unpowered at its end, under every lock.
* `HeldSwitchNeverRearms`: once the machine was engaged or stopped with a link,
  arming follows a live frame that showed the switch low; only a rest without a
  live link starts over.
* `MaintenanceFollowsHost`: an open maintenance gate is never older than the
  TTL measured from the host's last word or job.
* `LinkLossStops`: a transmitter silent for good takes the gate away from
  operator and Jetson.

Servos (dxl_actuation): `StoppedIsUnpowered`, a dxlTask cycle that sampled a
state without power ends unpowered, limp and without a fault report, whatever
ran in it, so the power cut does not keep its own fault asserted;
`SeededBeforeEnabled`, no servo is switched on against a goal it is not at,
through every retry and rollback; `StandReadyHoldsTorque`, the state machine's
"ready" is the bus's.

Configuration: `SecondCommitSticks`, once two commits in a row have returned true
the later one is what a reset would load, so damage to the journal hides at most
the commit right after it. Two exceptions are part of the statement, because the
code does no better: a scan that fell short of the newest records hides as many
more commits as it missed sequence numbers (`missed`), and behind an odd character
every commit is lost. `BootRecovers`, a boot that meets no more faults ends with a
configuration, unless the file ends between two characters of a byte;
`BootPreservesReadable`, the bootstrap is about to put something in front of a
durable record only in an attempt in which a read of the card failed: torn tails,
failed writes and resets alone never lead there. `CommitAnswers`, every request is
answered and until a wait times out an Ok is for the payload that was stored;
`GaitSavesHold`, a press is saved at most once and never rolled back;
`ConfigSurvives`, what was saved or migrated is what is loaded and damage is
refused.

Each property of the remaining runs is the conjunction of one component's parts,
named where the module defines it:

| property | says |
|---|---|
| `TransportIsFaithful` | whole frames are decoded whatever precedes them; every telemetry slot is sent or counted as lost |
| `MaintenanceIsHonest` | a poll returns its own job's result, EEPROM is written only to limp servos, Ok means stored, old targets are not replayed |
| `SettingsAreCurrent` | the last bindings win and read back, a scan or calibration happens after its request, stop means still |
| `HostWorkCompletes` | captures have no gap, aborts hit their own capture, fragments assemble into one record; captures and accepted jobs end |
| `ControlsArriveAsHeld`, `SwitchesAreDebounced` | packed and direct layouts decode to what is held; one press has one effect, layout and arming are earned |
| `LinkRecovers` | only whole CRSF frames are accepted, noise cannot wedge the parser, the battery frame is not starved |
| `StanceIsRigid`, `MotionIsSmooth` | grounded feet move as one and support the centre; gates open from rest and from the joints' positions, tricks end |
| `RecordsAreTrue`, `StallsAreCaught`, `ContactIsTrue` | logs without gaps and counted samples on the card; stalls bounded, named (unless a reset tore a mask or marker from its inverse), crashes reported until acknowledged and not after; contact is the foot's own, fresh and debounced |
| `ServiceResumes` | once faults end, accepted events are filed, the backlog is served, the configuration is loaded, a reseated sensor is powered and the orientation returns |
| `ThreadsAreSound` | handle, storage and event group belong together; a joined thread is done; a blocked waiter is always reachable by a signal |
| `PlatformWorkCompletes` | joins return, no item is slept over, deleted objects are reclaimed, simulation sampling resumes |
| `LibraryPortIsSound` | statics are constructed once, heap and mask are balanced, the clock's error is bounded |
| `ObjectsAreSound`, `SilFailsClosed` | memory of kernel objects is accounted and reclaimed; stale simulation input closes the gate |
| `SchedulerIsExact`, `PriorityIsLent`, `NothingIsLost`, `MutexIsLock` | ready lists, bitmap and delays are exact; loans are returned; no wakeup, event, byte or expiry is lost; the mutex implements KernelLock |

### Bounds, and why they suffice

Timeouts are one to three ticks: each is compared with one age, so one tick
below and one above are the only distinctions. `MaxPeriod` 2 in the machine's
run lets a period jump over a limit; `OverrunPeriod` 3 exceeds every timeout.
`ApiWindow` 1 lets one control cycle slip into a request. dxl_actuation lets one
control cycle slip into a dxlTask cycle (`MaxLag` 1) with two servos, which
distinguish all, some and none and are interchangeable (symmetry); `BootCycles`
2 and `BusFailLimit` 2 separate "not yet" from "now". Records have two payload
units, so a torn payload exists; `FileLimit` leaves room for five records in
config_store (three in config_commit), enough for two records, a scan that misses
both and the commits that hides; `MaxFaults` allows two faults or resets (one),
where a bad spell of the card that spoils several payload reads of one scan
counts once. `Hangs` lists the tasks that hang together in one behaviour: a
critical task and i2cTask, or healthTask (Control and Dxl are alike there);
`MaxResets` 2 leaves one boot after the evidence of the first was filed. `MaxTimeouts` and `MaxPresses` bound the operator's patience.
Widths are scaled: two-bit bytes in HostLink and CrsfLink (with the longest
COBS block at `Base - 1`), a tick counter modulo 4 in the kernel, 16-valued
bytes in ConfigSchema, job ids modulo 3; each still wraps within a behaviour.
Queues, slots and rings hold one to three elements so that full, partly full
and empty occur. Channels and switch codes keep their real values. The
configuration, input and other composed runs do not check deadlock: at a bound
nothing remains to do, and what must not stop is stated as a property.

### Fairness

`FairMCSpec`: weak fairness of the RC timeout check, of the control cycle and
of the dispatch of a received request; the scheduler runs every periodic task
for ever. No fairness for frames, hosts, jobs. `FairStoreSpec`, `FairSpec`: weak
fairness of the i2cTask pass and of apiTask; none for resets, hosts or presses.
MCHost, MCRecords, MCPlatform: weak fairness of the periodic task that serves a
part (dxlTask's jobs, the recorder's emitter, i2cTask's writer, pass and bus,
the boot, the threads and the idle task), none for whoever asks; strong fairness
of the answered size query behind the acknowledgement of a crash line, since each
failed one repeats the whole attempt: a query asked again and again is answered
some time. The kernel run
and the safety runs need none.

### Disagreements between the code and its comments

One is kept as a run that TLC must find violated: `confirmed_commit_lost`. A
torn header swallows the next record, and a failed sync's sequence number is
reused, so a commit that returned true is not what the next load returns
(`ConfirmedCommitLoads`); `PROJECT.json` quotes the lines.

The models exhibit more, which no run repeats.

| where | what happens |
|---|---|
| `state_machine.cpp:330` against `.h:131`, `control_api.h:85` | a CLEAR_FAULT with nothing to clear stays latched and silently clears a later soft fault |
| `state_machine.cpp:234` | a switch held at power-up, or through a recovery session, counts as released: the bridge's safe values while no link lives |
| `tasks.cpp:3403`, `maintenance_api.h:100` | MAINT_ENTER samples Disarmed, a cycle moves to ArmingChecks, the lock is granted all the same; a heartbeat that sampled its clock before the expiry revives an expired lock. Then the gate is open in JetsonAssisted with source MacMaintenance: the exception in `AuthorityMatchesState` |
| `maintenance_api.cpp:61` | the lock age wraps when the feed is newer than apiTask's clock sample; the holder loses its lock early |
| `tasks.cpp:2839` | a queued torque-on job runs in PassivePoseStream after a control overrun closed the gate: a stiff servo in the passive mode |
| `tasks.cpp:2886` | dxlTask may read an old source with a new gate and enable torque on maintenance entry; with `MaxLag` 4 and more a servo may also be enabled before its seed is current |
| `tasks.cpp:2416` against `:409` | servos that were not released go limp at the end of a maintenance session's release |
| `tasks.cpp:717`, `config_api.h:79` | after a timeout the next request takes the previous one's completion |
| `config_bootstrap.cpp:14` | a transient read error at boot writes defaults in front of a valid record (the exception in `BootPreservesReadable`) |
| `config_store.cpp:65`, `:113` | a failed payload read counts as a bad CRC: scan returns true with an older record, and as many later commits as it missed lose to the records it did not see (the exception in `SecondCommitSticks`) |
| `tasks.cpp:3334`, `controller_bridge.h:313` | a gait-save press during a commit is wiped by the flag's late clear |
| `qwiic_openlog.cpp:205` | a torn hexadecimal append leaves an odd character count, after which `size()` refuses on every call: no scan, load or boot succeeds again (the exception in `BootRecovers`) |
| `watchdog.cpp:194`, `:223` | a reset between the stores of a value and its inverse makes `init()` discard mask and marker both (the exception in `ResetNamesCulprit`) |
| `tasks.cpp:618` | a reset or failed query between the crash line and its acknowledgement files the same crash again |
| `trace_recorder.cpp:602` | acknowledge may release a slot that was refilled meanwhile, against "a full slot is never overwritten" |
| `tasks.cpp:4082`, `contact_estimator.cpp` | applying the staged thresholds of all feet gives an uncalibrated foot a zero threshold, which noise exceeds |
| `sensor_api.cpp:205` against `contact_estimator.cpp:72` | CONTACT_SET_THRESHOLDS stages any pair for an enabled foot; `setEnabled` refuses a load threshold below the touch threshold, this path does not. Hence the debounce of `ContactIsTrue` is stated for a sample at either threshold |
| `controller_core.cpp:266`, `gait_pipeline.h:147` | after a maintenance session or a stall of more than a second goals do not ramp from the present position |
| `tasks.cpp:3488` | bindings taken over while the slot is full reach rcTask one request later |
| `thread.cpp:117` | a waiter that timed out while still listed leaves a notification for its next, unrelated wait |
| `tasks.c:6909` | with two mutexes held by one task, disinheriting after a timeout clears the ready bit of the new priority; the firmware never holds two |

## 4. Proofs

Eight modules hold proofs. Their theorems are for every value of the constants
that satisfies the named assumptions. Of the 40 properties of the passing runs 24
are theorems; the others are listed at the end of this section with the reason.

**SafetyStateMachineProofs.** `TypeCorrect` (`Spec => []TypeOK`),
`ArmReleaseOutstanding` (`EngagedNeedsRelease`), `ReasonCorrect`
(`ReasonExplainsState`), `WaitsBounded` (`BoundedWaits`) and `Refinement`
(`Spec => PolicySpec`), for every debounce, timeout and period and every set of
inputs, from `ParamAssumption` (limits are naturals, arming timeout and period
positive) and `InputAssumption` (inputs are `StateInputs` records). The
inductive invariant `SafetyInv` is the conjunction of the four invariants.
`TypeOK` is inductive alone; the others need it (a state outside the table, or
an age outside its range, would satisfy no branch). `EngagedNeedsRelease` is
inductive because the latch is cleared only in Disarmed and every edge from
there into an armed state goes through ArmingChecks with the switch high, which
sets it again; `ReasonExplainsState` because each stop writes state, reason and
last fault together. The lemmas are about one `Update(in, dt)` step with `dt`
any natural, so modules that embed the machine in a larger step can cite them.

**ControlLoopProofs** cites them for the whole loop. All properties of run
`control` are theorems, with `LoopTypeCorrect` (`LoopTypeOK`):
`GateCarriesItsAuthority` (`AuthorityMatchesState`), `StopIsImmediate`
(`StopTakesOneCycle`), `MaintenanceNeedsHost` (`MaintenanceFollowsHost`),
`RearmingNeedsRelease` (`HeldSwitchNeverRearms`); and `LoopFollowsPolicy`
(`ImplementsPolicy`) is the promise DxlActuation takes from controlTask.
Assumptions: those of the machine, `LoopAssumption` (timeouts, TTLs and windows
are naturals, input sets hold frames, messages and environments of the code's
types) and `ScenarioAssumption`. `AuthorityMatchesState` follows from one
cycle, which writes gate, source and state together; TLC's two scenarios never
mix Jetson and maintenance messages, the theorem covers the mixture, and its
first attempt is what showed the exception in the statement.
`MaintenanceFollowsHost` needs `SilenceInv`: the age of the lock never
understates the host's silence, and a request on its way has sampled its clock
no earlier than the host spoke. `HeldSwitchNeverRearms` needs `HeldInv`: a live
link that does not ask to arm has shown the switch low, and a resting machine
that no longer waits for the release has had it.

**DxlActuationProofs.** `DxlTypeCorrect` and `StoppedBusUnpowered`
(`StoppedIsUnpowered`), for any servos, jobs, delays, lag and bus behaviour. The
invariant `DxlInv` adds to the types that an unpowered bus leaves every servo
limp, that from the forced power-off to the next sample nothing powers the bus
for a state that forbids it, and that a finished cycle reports no fault about a
bus without power.

**ConfigProofs.** `SecondCommitHolds` (`StoreSpec => []SecondCommitSticks`), for
any payloads, payload length, number of commits, read and write faults, payload
reads that fail in any scan included, and resets between any two steps. What `scan` finds is proved by least
counterexample: if a fact about the recursive function fails at some offset,
take the offset nearest to the end; its record is stepped over to a later one,
where the fact holds. Two such facts carry the proof: appending to a file whose
last record is whole leaves what was found before, and a whole record at the end
with the largest sequence number is what is found. A scan in which payload reads fail
(`SeenIsNoNewer`) finds a sequence number no higher than the clean scan's, and
`missed` is the difference. `StoreInv` adds that a clean scan is ahead of the
sequence counter by at most one (a failed sync) or by what the last scan missed
and the commits since then have not made up for, after a commit that returned
true only by the latter, and that during a commit the units appended so far are
those of its record. `AnswerIsOwn`
(`OkIsOwnUnlessLate`, the safety half of `CommitAnswers`): `CommitInv` says that
requests are served only after the bootstrap, and `HandOver` that, while no wait
has timed out, exactly one of "requested" and "done" holds while apiTask waits,
i2cTask works on the request it waits for, and what was reported is what was
stored. With a timeout `HandOver` is false, which is the disagreement listed
above. `BootKeepsReadable` (`BootPreservesReadable`) has no hypothesis about reads.
`PathInv` says that every payload between the tasks and the journal is one
somebody supplied, and that without a failed read in the attempt the bootstrap is
about to commit its buffer only over a journal of which nothing would be loaded;
a torn tail cannot turn a journal with a record into one (`NothingInAPrefix`).

**InputProofs.** `PressesSaveOnce` (`GaitSavesHold`), for any number of presses
and host edits: `SaveInv` orders the numbers a press passes through (stored,
taken, handed over, pressed) and says that an open request is for a press newer
than the stored one.

`MotionStaysSmooth` (`MotionIsSmooth`), for any limits and periods. `MotionInv`:
a cycle that ended with the gate closed left the shaper at rest and the
previous-gate flag down; the trick player is `OnTime`, that is in a segment that
is not over, as far from the beginning of its program as it has been playing, or
frozen after its end; the gait last applied is the one the pipeline walks unless
it was forgotten. What `Advance` computes is proved for every program with
positive durations and every time, again by least counterexample: a step of the
recursion looks at smaller times only, so the recursive definition has a
solution, and it keeps the distance from the beginning of the program.

`SwitchesHold` (`SwitchesAreDebounced`), for any debounce times, failsafe timeout
and frame gaps under `BridgeAssumption`. `BridgeInv` has one part per promise.
`ArmInv` bounds the age of an arm request: the last frame that showed the switch
up is as old as the silence, which the failsafe cuts at the first pass that finds
it too long, and a pending release ages with the clock; the sum is `ArmBound`,
the debounce and two silences with their passes. `ChordInv`, `TrickInv` and
`ModeInv` tie each timer of the code to how long the operator has really held
the control; `NavInv` says that one press of the shared buttons had one effect,
`ProfileInv` that a streak of a layout is no longer than its present run.

`LinkAlwaysRecovers` (`LinkRecovers`), for every byte width, payload length and
period under `CrsfAssumption`; the CRC is computed over the bits of a byte of
`ByteSize` values. `HeldInv`: the bytes the parser holds are the last ones on the
wire. `ParserInv`: it holds at most `MaxFrameLen` of them. So after that many
without a sync byte it is idle, and `FollowsInv` tracks the next frame byte by
byte. `TurnInv`: a kind of frame that was just sent is not due in the next pass.
It needs `2 * BoostPeriod <= AttitudePeriod`; the firmware's periods are 50 and
100 ms.

**HostProofs.** `SettingsHold` (`SettingsAreCurrent`) from `BindingsArrive` and
`RequestsTakeEffect`. The maps read back because sources and tricks are checked
and deadbands clipped on the way in, so that encoding what was decoded decodes to
itself. The request counters are compared for equality only; `RequestInv` orders
them: an owed scan is newer than the answered one and than the one in progress,
an owed foot belongs to a newer calibration or is still to be captured. It needs
`RequestsAssumption`'s `MaxAsked < CountMod`: in the code the counters have 32
bits, and a wrap would need that many requests within one pass.
`SessionsAreHonest` (`MaintenanceIsHonest`), for any servos, job ids and bus
failures and any number of sessions: `JobsInv` says that a scan in progress owns
the slot, so that who completes under the slot's id completes the job that was
accepted under it; `TargetsInv` that a stored target is at least as new as the
session whose start the control cycle last saw, a handler cut between its gate
check and its stores included.

**RecordsProofs.** `RecordsHold` (`RecordsAreTrue`) from `JournalIsFair`,
`EventsAreKept`, `ReadsAreRight` and `SamplesAreCounted`. `JournalInv`: a key has
one entry, whose first time is that of its last announcement; that a victim slot
exists rests on the order of its three keys being well-founded. `LogInv`: every event
is on the card, refused, or queued behind those on the card. `FileInv`: within a session the mirror the
driver keeps of the card's read position is exact or given up. `PassInv`: the
samples counted are at most those on the card, and until a failure the parity of
the toggles in wait says whether the recording is what was asked for.
`StallsCaught` (`StallsAreCaught`), with `WatchdogBounds` (the hardware timeout
exceeds two windows): `WatchInv` says that what an evaluation misses is hung and
stays missed, and that until then the hardware counts at most a window and one
lost feed, between the stores of the mask and its inverse too; `RecordInv` that
the fault record is invalid while it is written and once it is acknowledged, and
that it is acknowledged only for a line the card has. `ContactsAreTrue` (`ContactIsTrue`): `BusInv`, a foot is read
only while its channel alone is routed; `ContactInv`, the counters never run
ahead of the samples they count and a foot seen since its configuration is as old
as its last sample.

**PlatformProofs.** `PortIsSound` (`LibraryPortIsSound`) from `GuardIsSafe`,
`HeapIsSafe` and `ClockErrs`. `GuardInv`: the recursive mutex's count is the depth
of its holder's constructors, nobody else is inside one, and a task's nested
constructors are of different, incomplete statics. `HeapInv`: the two counters
describe the running task's stack of critical sections and heap calls, and the
saved mask says whether a critical section lies below. `ClockInv`: the tick hook
runs at most `MaxLate` cycles late and what a reader with an intact reservation
has read belongs to one tick.

`ThreadsHold` (`ThreadsAreSound`): `CondInv` says that a thread that sleeps
is on the list, and rests on what the recursive function for `list::remove`
leaves there: every entry of another thread; `ThreadInv` ties handle, storage and event group through copy, move,
join and detach. `AdapterFailsClosed` (`SilFailsClosed`), for any ages, validities
and arrival orders: `SilInv` says that the contacts on hand are those of the
last message accepted and that the age of a command and the time it has left
never exceed the longest validity.

`ObjectsHold` (`ObjectsAreSound`), for any handles, heap, sizes and parameters.
`MemoryInv`: each place is empty, or holds an object and exactly the blocks of
that kind of object (`Owns`), the timer whose creation stopped the board
excepted. `LifeInv`: what runs, waits to be reclaimed or deleted, or is waited
for exists, once, and nobody waits for a group whose deletion has begun. The
lemmas about `size_t` show that the guards in front of the allocations leave no
product or sum that wraps. `ObjectsAssumption`: sizes and parameters are values
of `size_t`, and the handles a program gets differ from the kernel's own objects.

### Only model-checked

* `LinkLossStops`, `BootRecovers`, `ServiceResumes`, `PlatformWorkCompletes`, the
  second half of `CommitAnswers` and the last two parts of `HostWorkCompletes`:
  liveness under fairness, beyond the prover (`ENABLED`).
* `SeededBeforeEnabled` and `StandReadyHoldsTorque`: they hold for a bounded lag
  and are false for a larger one (`tasks.cpp:2886` above), so there is no theorem
  for every value of `MaxLag`.
* `SchedulerIsExact`, `PriorityIsLent`, `NothingIsLost`, `MutexIsLock`: the state
  of the kernel is one record of 28 lists and counters that every call rewrites
  through compositions of some sixty functions, several of which fold or select
  over sequences with an operator as a parameter, which the provers cannot
  instantiate.
* `TransportIsFaithful` (module `Bitwise`), `ConfigSurvives` (the serialised form
  is a fold over the schema) and `ControlsArriveAsHeld`: what a computation
  returns for bounded inputs, checked exhaustively.
* `StanceIsRigid`: the gait tables are fixed numbers; the run covers all phases.
* The safety parts of `HostWorkCompletes` about captures.

Induction over data by a library theorem is out of the prover's reach, since
those theorems take an operator as a parameter. Where a recursive function had to
be reasoned about (`scan`, `list::remove`, `Advance`, the sum of a set of blocks)
the proofs use the least counterexample of a set of numbers instead, or exhibit
the solution of the recursive equation.

## 5. Not modelled

Leg and body inverse kinematics (floating-point trigonometry); message layouts
and telemetry encoders; register-level sensor drivers, LED, OLED, board
bring-up (I/O); the companion's user interface, ROS node set-up and tools;
vendored libraries other than the kernel and its C++ port. Within modelled
components: tokens of several maintenance hosts (one host here), the pose
stream of the passive mode, the hexadecimal text encoding of the card, kernel
run-time statistics and features the configuration switches off. They are
listed in `PROJECT.json`.

## 6. What remains open

Models and runs of all parts named in section 2 exist, and the safety properties
whose models the provers can handle are theorems. What a next step would take:

1. `LoanedPriorityIsReturned` on the kernel's mutex. It needs the kernel state
   split into variables, so that an invariant can speak of one list at a time.
2. `StepsHaveNoGap` and `AbortHitsOwnCapture` of HilCapture, with the recorder's
   slot as the resource two tasks hand over.
3. Bounds on the lag of dxlTask as a hypothesis instead of a constant, from the
   kernel's priorities, for `SeededBeforeEnabled`.
