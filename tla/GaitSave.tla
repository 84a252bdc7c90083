------------------------------ MODULE GaitSave ------------------------------
(***************************************************************************)
(* Saving the gait from the handset.  A press of NAV1 centre in the editor  *)
(* bumps a sequence number in the RC command; controlTask turns it into a   *)
(* request (publishControllerCommand), apiTask runs the transaction         *)
(* (ConfigApi::saveGaitDefaults, which waits for the storage task) and      *)
(* takes the request back.  A host edits and commits the same configuration *)
(* through its staging buffer.  The gait saved by the n-th press is n.      *)
(***************************************************************************)
EXTENDS Integers, FiniteSets

CONSTANTS MaxPresses, MaxEdits   \* presses and host edits in a behaviour

ASSUME SaveAssumption == MaxPresses \in Nat /\ MaxEdits \in Nat

VARIABLES
    presses,    \* gait_tune_save_seq in the RC mailbox
    handledSeq, \* g_gaitSaveHandledSeq
    pending,    \* g_gaitSavePending
    requested,  \* g_gaitSaveRequested
    saving,     \* the gait apiTask is committing, 0 when it is not
    shadow,     \* ConfigApi's committed configuration: gait and the host's block
    staging,    \* the host's staging buffer
    commits,    \* how often each press was committed
    refused,    \* a save failed and was reported, or the host edited the gait since
    edits       \* the host's edits so far

saveVars == <<presses, handledSeq, pending, requested, saving, shadow, staging, commits, refused, edits>>

SaveInit ==
    /\ presses = 0 /\ handledSeq = 0 /\ pending = 0 /\ requested = FALSE /\ saving = 0
    /\ shadow = [gait |-> 0, host |-> 0] /\ staging = shadow
    /\ commits = [n \in 1..MaxPresses |-> 0] /\ refused = FALSE /\ edits = 0

\* the bridge counts a press
PressSave ==
    /\ presses < MaxPresses /\ presses' = presses + 1
    /\ UNCHANGED <<handledSeq, pending, requested, saving, shadow, staging, commits, refused, edits>>

\* A press while the robot moves stays unhandled and is only reported.
HandOver(allowed) == IF allowed THEN handledSeq' = presses /\ pending' = presses /\ requested' = TRUE
                     ELSE UNCHANGED <<handledSeq, pending, requested>>

ControlPublishes ==
    /\ presses # handledSeq
    /\ \E allowed \in BOOLEAN : HandOver(allowed)
    /\ UNCHANGED <<presses, saving, shadow, staging, commits, refused, edits>>

\* apiTask takes the request; validation fails or the store is volatile, or
\* the commit begins and blocks
ApiTakes ==
    /\ requested /\ saving = 0
    /\ \/ saving' = pending /\ UNCHANGED <<refused, requested>>
       \/ saving' = 0 /\ requested' = FALSE /\ refused' = TRUE
    /\ UNCHANGED <<presses, handledSeq, pending, shadow, staging, commits, edits>>

KeepStaging(candidate) == staging
\* the staging buffer follows, so that a later commit cannot roll the gait back
RestagedFrom(candidate) == candidate

ApiFinishes ==
    /\ saving # 0
    /\ \/ /\ shadow' = [shadow EXCEPT !.gait = saving]
          /\ staging' = RestagedFrom(shadow')
          /\ commits' = [commits EXCEPT ![saving] = @ + 1]
          /\ refused' = FALSE
       \/ refused' = TRUE /\ UNCHANGED <<shadow, staging, commits>>
    /\ saving' = 0 /\ requested' = FALSE
    /\ UNCHANGED <<presses, handledSeq, pending, edits>>

\* CFG_SET_BLOCK of a block without the gait, and CFG_COMMIT; apiTask handles
\* them between two transactions
HostEdits ==
    /\ saving = 0 /\ edits < MaxEdits /\ edits' = edits + 1
    /\ staging' = [staging EXCEPT !.host = edits']
    /\ UNCHANGED <<presses, handledSeq, pending, requested, saving, shadow, commits, refused>>
HostCommits ==
    /\ saving = 0 /\ staging # shadow /\ shadow' = staging
    /\ UNCHANGED <<presses, handledSeq, pending, requested, saving, staging, commits, refused, edits>>

SaveNext == PressSave \/ ControlPublishes \/ ApiTakes \/ ApiFinishes \/ HostEdits \/ HostCommits

SaveSpec == SaveInit /\ [][SaveNext]_saveVars

-----------------------------------------------------------------------------
(* Properties *)

\* A press is applied at most once, although the two tasks run at different
\* rates and a commit spans many control cycles.
SavedAtMostOnce == \A n \in 1..MaxPresses : commits[n] <= 1

\* A host commit never takes the gait back to what it was before a save from
\* the handset.
GaitNeverRollsBack == [][shadow'.gait >= shadow.gait]_saveVars

(***************************************************************************)
(* A gait saved from the transmitter is stored once and never rolled back by *)
(* a host that edits the configuration meanwhile.                          *)
(***************************************************************************)
GaitSavesHold == []SavedAtMostOnce /\ GaitNeverRollsBack
=============================================================================
