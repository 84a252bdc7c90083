---------------------------- MODULE ConfigCommit ----------------------------
(***************************************************************************)
(* A configuration commit across three tasks (app/tasks.cpp): apiTask owns *)
(* ConfigApi's shadow and staging copies and posts a payload into the      *)
(* CommitMailbox, then blocks on g_commitDone for a bounded time; i2cTask  *)
(* owns the journal of ConfigStore, streams the mailbox payload into it    *)
(* and reports back; controlTask hands over the handset's "save gait"      *)
(* presses through g_gaitSavePending and g_gaitSaveRequested.              *)
(*                                                                         *)
(* A configuration is its gait block and the rest.  On the single core the *)
(* mutex sections of apiTask (priority 2) and i2cTask (priority 1) are     *)
(* atomic towards each other and their takes never time out: i2cTask       *)
(* cannot run while apiTask is ready, and a blocked apiTask lends it its   *)
(* priority.                                                               *)
(***************************************************************************)
EXTENDS ConfigStore

CONSTANTS
    Gaits,         \* gait blocks the handset may ask to save
    MaxTimeouts,   \* bound: waits on g_commitDone that time out
    MaxPresses     \* bound: save presses

ASSUME CommitAssumption ==
    /\ MaxTimeouts \in Nat
    /\ MaxPresses \in Nat
    /\ \A p \in AllPayloads, g \in Gaits :
          [p EXCEPT !.gait = g] \in Payloads

VARIABLES
    shadow,        \* ConfigApi::shadow_
    staging,       \* ConfigApi::staging_, or Garbled when it does not validate
    adopted,       \* g_bootLoad.consumed
    api,           \* apiTask: what commitPayload was called for, or idle
    mailbox,       \* g_commit
    commitDone,    \* g_commitDone, a binary semaphore
    i2c,           \* i2cTask: polling, in commit(), or about to report
    gaitPending,   \* g_gaitSavePending
    gaitRequested, \* g_gaitSaveRequested
    gaitTried,     \* gait of the last saveGaitDefaults call
    presses,       \* presses accepted so far
    timeouts       \* timeouts so far

apiVars == <<shadow, staging, adopted>>
gaitVars == <<gaitPending, gaitRequested, gaitTried, presses>>
boxVars == <<api, mailbox, commitDone, i2c, timeouts>>
vars == <<storeVars, apiVars, gaitVars, boxVars>>

NoGait == "none"
Garbled == [rest |-> "garbled", gait |-> "garbled"]
ApiIdle == [pc |-> "idle", payload |-> NoPayload]
EmptyMailbox == [requested |-> FALSE, ok |-> FALSE, payload |-> NoPayload]

(* TaskConfigPersistence::persistent. *)
persistent == boot = "done"

---------------------------------------------------------------------------
(* controlTask. *)

(* A save press that the controller core allows. *)
GaitPress ==
    /\ presses < MaxPresses
    /\ \E g \in Gaits : gaitPending' = g
    /\ gaitRequested' = TRUE
    /\ presses' = presses + 1
    /\ UNCHANGED <<storeVars, apiVars, boxVars, gaitTried>>

---------------------------------------------------------------------------
(* apiTask. *)

(* The one-shot adoption of what the bootstrap loaded, if it validates, which *)
(* a mixture of two configurations need not.                                  *)
AdoptPayload ==
    /\ api = ApiIdle
    /\ persistent /\ ~adopted
    /\ adopted' = TRUE
    /\ \/ shadow' = bootBuf /\ staging' = bootBuf
       \/ bootBuf = Mixed /\ UNCHANGED <<shadow, staging>>
    /\ UNCHANGED <<storeVars, gaitVars, boxVars>>

(* CFG_SET_BLOCK leaves the staging buffer valid or not. *)
SetBlock ==
    /\ api = ApiIdle
    /\ \E p \in Payloads \cup {Garbled} : staging' = p
    /\ UNCHANGED <<storeVars, shadow, adopted, gaitVars, boxVars>>

ResetDefaults ==
    /\ api = ApiIdle
    /\ shadow' = Defaults
    /\ staging' = Defaults
    /\ UNCHANGED <<storeVars, adopted, gaitVars, boxVars>>

(* The first half of commitPayload: fill the mailbox, then wait. *)
Post(pc, p) ==
    /\ persistent
    /\ Len(file) + 2 * RecordLen <= FileLimit
    /\ mailbox' = [requested |-> TRUE, ok |-> FALSE, payload |-> p]
    /\ api' = [pc |-> pc, payload |-> p]
    /\ UNCHANGED <<storeVars, apiVars, commitDone, i2c, timeouts>>

(* CFG_COMMIT of a staging buffer that validates; anything else is answered   *)
(* at once and changes nothing.                                               *)
Commit ==
    /\ api = ApiIdle
    /\ staging # Garbled
    /\ Post("commit", staging)
    /\ UNCHANGED gaitVars

(* saveGaitDefaults: the known-good configuration with the gait replaced. *)
SaveGait ==
    /\ api = ApiIdle
    /\ gaitRequested
    /\ gaitTried' = gaitPending
    /\ Post("gait", [shadow EXCEPT !.gait = gaitPending])
    /\ UNCHANGED <<gaitPending, gaitRequested, presses>>

(* A volatile store refuses the save; the request is consumed all the same. *)
SaveGaitRefused ==
    /\ api = ApiIdle
    /\ gaitRequested
    /\ ~persistent
    /\ gaitTried' = gaitPending
    /\ gaitRequested' = FALSE
    /\ UNCHANGED <<storeVars, apiVars, boxVars, gaitPending, presses>>

(* commitPayload returned `ok` to its caller. *)
CommitReturns(ok) ==
    /\ api' = ApiIdle
    /\ shadow' = IF ok THEN api.payload ELSE shadow
    /\ staging' = IF ok /\ api.pc = "gait" THEN api.payload ELSE staging
    /\ gaitRequested' = IF api.pc = "gait" THEN FALSE ELSE gaitRequested
    /\ UNCHANGED <<storeVars, adopted, mailbox, i2c, gaitPending, gaitTried, presses>>

WaitSucceeds ==
    /\ api # ApiIdle
    /\ commitDone
    /\ commitDone' = FALSE
    /\ CommitReturns(mailbox.ok)
    /\ UNCHANGED timeouts

WaitTimesOut ==
    /\ api # ApiIdle
    /\ ~commitDone
    /\ timeouts < MaxTimeouts
    /\ timeouts' = timeouts + 1
    /\ CommitReturns(FALSE)
    /\ UNCHANGED commitDone

---------------------------------------------------------------------------
(* i2cTask. *)

i2cOnly == <<apiVars, gaitVars, api, mailbox, commitDone, timeouts>>

I2cBoot ==
    /\ i2c = "poll"
    /\ \/ BootLoad
       \/ BootInit
       \/ BootVerify
       \/ boot = "init" /\ (CommitScanFails \/ CommitAppend(bootBuf) \/ CommitAppendFails
                              \/ CommitSync \/ CommitSyncFails)
    /\ UNCHANGED <<i2cOnly, i2c>>

(* A request is seen and commit() called on the mailbox itself. *)
I2cCommit ==
    /\ i2c = "poll"
    /\ boot = "done"
    /\ mailbox.requested
    /\ CommitStart(mailbox.payload)
    /\ i2c' = "commit"
    /\ UNCHANGED i2cOnly

I2cWrite ==
    /\ i2c = "commit"
    /\ \/ CommitAppend(mailbox.payload) /\ i2c' = "commit"
       \/ (CommitAppendFails \/ CommitSyncFails) /\ i2c' = "failed"
       \/ CommitSync /\ i2c' = "ok"
    /\ UNCHANGED i2cOnly

(* Plausible bug: the result is reported as success whatever commit() said. *)
I2cReportOptimistic ==
    /\ i2c \in {"ok", "failed"}
    /\ mailbox' = [mailbox EXCEPT !.ok = TRUE, !.requested = FALSE]
    /\ commitDone' = TRUE
    /\ i2c' = "poll"
    /\ UNCHANGED <<storeVars, apiVars, gaitVars, api, timeouts>>

I2cReport ==
    /\ i2c \in {"ok", "failed"}
    /\ mailbox' = [mailbox EXCEPT !.ok = (i2c = "ok"), !.requested = FALSE]
    /\ commitDone' = TRUE
    /\ i2c' = "poll"
    /\ UNCHANGED <<storeVars, apiVars, gaitVars, api, timeouts>>

---------------------------------------------------------------------------
(* A reset of the controller loses everything but the file. *)
PowerCycle ==
    /\ Reset
    /\ shadow' = Defaults
    /\ staging' = Defaults
    /\ adopted' = FALSE
    /\ api' = ApiIdle
    /\ mailbox' = EmptyMailbox
    /\ commitDone' = FALSE
    /\ i2c' = "poll"
    /\ gaitPending' = NoGait
    /\ gaitRequested' = FALSE
    /\ gaitTried' = NoGait
    /\ UNCHANGED <<presses, timeouts>>

Init ==
    /\ StoreInit
    /\ shadow = Defaults
    /\ staging = Defaults
    /\ adopted = FALSE
    /\ api = ApiIdle
    /\ mailbox = EmptyMailbox
    /\ commitDone = FALSE
    /\ i2c = "poll"
    /\ gaitPending = NoGait
    /\ gaitRequested = FALSE
    /\ gaitTried = NoGait
    /\ presses = 0
    /\ timeouts = 0

I2cTask == I2cBoot \/ I2cCommit \/ I2cWrite \/ I2cReport
ApiTask == AdoptPayload \/ SaveGait \/ SaveGaitRefused \/ WaitSucceeds \/ WaitTimesOut
HostRequest == SetBlock \/ ResetDefaults \/ Commit

Next == GaitPress \/ HostRequest \/ ApiTask \/ I2cTask \/ PowerCycle

Spec == Init /\ [][Next]_vars

(* Both tasks run periodically for ever; hosts and operators owe nothing. *)
FairSpec == Spec /\ WF_vars(I2cTask) /\ WF_vars(ApiTask)

---------------------------------------------------------------------------
(* Properties. *)

(* Type invariant of the commit path. *)
CommitTypeOK ==
    /\ StoreTypeOK
    /\ shadow \in AllPayloads
    /\ staging \in AllPayloads \cup {Garbled}
    /\ adopted \in BOOLEAN
    /\ api.pc \in {"idle", "commit", "gait"}
    /\ api.payload \in AllPayloads \cup {NoPayload}
    /\ mailbox.requested \in BOOLEAN /\ mailbox.ok \in BOOLEAN
    /\ mailbox.payload \in AllPayloads \cup {NoPayload}
    /\ commitDone \in BOOLEAN
    /\ i2c \in {"poll", "commit", "ok", "failed"}
    /\ gaitPending \in Gaits \cup {NoGait}
    /\ gaitTried \in Gaits \cup {NoGait}
    /\ gaitRequested \in BOOLEAN
    /\ presses \in 0..MaxPresses
    /\ timeouts \in 0..MaxTimeouts

(* As long as no wait has timed out, an Ok is for the payload that was just   *)
(* stored, whatever faults, resets and other requests surround it: the answer *)
(* is never that of another request.                                          *)
OkIsOwnUnlessLate ==
    [][WaitSucceeds /\ mailbox.ok /\ timeouts = 0
         => confirmed = api.payload]_vars

(* A journal commit that was asked for is always answered. *)
CommitIsAnswered == (api # ApiIdle) ~> (api = ApiIdle)

(* The mailbox between apiTask and i2cTask: every commit that was asked for  *)
(* is answered, and until a wait times out the answer is its own.             *)
CommitAnswers == OkIsOwnUnlessLate /\ CommitIsAnswered

---------------------------------------------------------------------------
(* An instance of the commit path: two gait blocks and two values of the rest *)
(* of the configuration.  What a failed read left mixed has the loaded rest   *)
(* and a gait block that is neither.                                          *)

MCGaits == {"tripod", "wave"}
MCPayloads == [rest : {"factory", "tuned"}, gait : MCGaits]
MCDefaults == [rest |-> "factory", gait |-> "tripod"]
MCMixed == [rest |-> "tuned", gait |-> "mixed"]
MCNoPayload == [rest |-> "none", gait |-> "none"]

=============================================================================
