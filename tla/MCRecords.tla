------------------------------ MODULE MCRecords ------------------------------
(***************************************************************************)
(* Diagnostics, storage and sensing for TLC: the parts share no variable, and *)
(* a behaviour exercises one of them, chosen at the start.                    *)
(***************************************************************************)
EXTENDS ErrorRecords, ResetEvidence, CardStorage, SensorBus

CONSTANT Parts   \* the parts a run is about

VARIABLE part

MCSevOf == [rc |-> 2, fault |-> 3, watchdog |-> 3]
MCKeys == DOMAIN MCSevOf
\* the two critical tasks are alike, so one of them is enough
MCHangs == {{"Dxl", "I2c"}, {"Health"}}
MCThresholds == {<<0, 0>>, <<2, 3>>, <<3, 1>>}

recordsVars == <<part, journalVars, logVars, evidenceVars, passVars, contactVars, busVars, fileVars>>

\* a part that is not exercised starts in one of its initial states only
RecordsInit ==
    /\ part \in Parts
    /\ JournalInit /\ EventLogInit /\ EvidenceInit /\ PassInit /\ ContactInit /\ BusInit /\ FileInit
    /\ part # "reset" => ~storage

RecordsNext ==
    \/ /\ part = "journal" /\ JournalNext
       /\ UNCHANGED <<part, logVars, evidenceVars, passVars, contactVars, busVars, fileVars>>
    \/ /\ part = "log" /\ EventLogNext
       /\ UNCHANGED <<part, journalVars, evidenceVars, passVars, contactVars, busVars, fileVars>>
    \/ /\ part = "reset" /\ EvidenceNext
       /\ UNCHANGED <<part, journalVars, logVars, passVars, contactVars, busVars, fileVars>>
    \/ /\ part = "pass" /\ PassNext
       /\ UNCHANGED <<part, journalVars, logVars, evidenceVars, contactVars, busVars, fileVars>>
    \/ /\ part = "contact" /\ ContactNext
       /\ UNCHANGED <<part, journalVars, logVars, evidenceVars, passVars, busVars, fileVars>>
    \/ /\ part = "bus" /\ BusNext
       /\ UNCHANGED <<part, journalVars, logVars, evidenceVars, passVars, contactVars, fileVars>>
    \/ /\ part = "card" /\ FileNext
       /\ UNCHANGED <<part, journalVars, logVars, evidenceVars, passVars, contactVars, busVars>>

\* the fairness of the part that is exercised; steps of the others do not occur
RecordsFair ==
    /\ WF_logVars(part = "log" /\ LogPeek)
    /\ SF_logVars(part = "log" /\ LogAppend /\ hold' = 0)
    /\ WF_evidenceVars(part = "reset" /\ BootStorage(TRUE))
    /\ SF_evidenceVars(part = "reset" /\ CrashAcknowledge(TRUE))
    /\ WF_passVars(part = "pass" /\ Pass)
    /\ WF_busVars(part = "bus" /\ BusWork)
    /\ SF_busVars(part = "bus" /\ ReadImu)

RecordsSpec == RecordsInit /\ [][RecordsNext]_recordsVars /\ RecordsFair

(***************************************************************************)
(* What is reported was there: the event log has no gap, a critical error   *)
(* is shown before a lesser one, samples counted are on the card, a read    *)
(* returns the file's own characters, and toggles that coalesce are neither *)
(* lost nor doubled.                                                        *)
(***************************************************************************)
RecordsAreTrue ==
    /\ [](LogHasNoGap /\ CountedSamplesAreOnCard /\ TogglesAreExact)
    /\ [](ReadsAreFromFile /\ ReadNeedsThreeFaults)
    /\ CriticalIsShownFirst /\ TrackedRepeatsAreSpaced

(***************************************************************************)
(* After a failure the work goes on: an accepted event is filed although    *)
(* appends fail, a waiting one gets its pass although a session records,    *)
(* retained evidence does not keep a boot from its configuration, and a     *)
(* foot that was reseated or an orientation hub that was reset comes back.  *)
(***************************************************************************)
ServiceResumes ==
    /\ AcceptedEventsAreFiled /\ BacklogIsServed /\ ConfigIsLoaded
    /\ ReseatedIsPowered /\ OrientationResumes
=============================================================================
