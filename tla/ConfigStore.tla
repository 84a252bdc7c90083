----------------------------- MODULE ConfigStore -----------------------------
(***************************************************************************)
(* The append-only configuration journal on the OpenLog card               *)
(* (config/config_store.cpp) and the boot sequence that opens it           *)
(* (config/config_bootstrap.cpp, tryBootstrapConfig in app/tasks.cpp).     *)
(*                                                                         *)
(* The file is a sequence of units.  A record is a header unit, PayloadLen *)
(* payload units and a trailer unit, written by separate appends; every    *)
(* append, the final sync and every read can fail, an append can leave a   *)
(* fragment behind, and a reset can cut the file back to any length        *)
(* between what was synced and what was written.  A byte is stored as two  *)
(* hexadecimal characters (drivers/qwiic_openlog.cpp): what a torn append  *)
(* leaves may end between the two, and until something ends it again at a  *)
(* whole byte nobody can tell the file's size and whatever is appended     *)
(* reads as garbage.  The header's payload CRC is modelled by the payload  *)
(* it was computed from: a record whose units are not exactly those of     *)
(* that payload fails the check.  Every payload this firmware commits has  *)
(* the same length, kConfigPayloadSize.                                    *)
(***************************************************************************)
EXTENDS Integers, Sequences

CONSTANTS
    Payloads,      \* serialized configurations a host may commit
    Defaults,      \* the serialized compiled-in configuration
    Mixed,         \* default bytes partly overwritten by a failed read
    NoPayload,     \* nothing
    PayloadLen,    \* payload units per record
    FileLimit,     \* bound: hosts commit only below this length
    MaxFaults,     \* bound: storage faults and resets in a behaviour
    ReadFaults     \* whether the card may fail a read

ASSUME StoreAssumption ==
    /\ {Mixed, NoPayload} \cap (Payloads \cup {Defaults}) = {}
    /\ Mixed # NoPayload
    /\ PayloadLen \in Nat \ {0}
    /\ FileLimit \in Nat /\ MaxFaults \in Nat
    /\ ReadFaults \in BOOLEAN

VARIABLES
    file,            \* the units of CONFIG.TXT
    synced,          \* length that survives a reset
    latestSequence,  \* latest_sequence_
    sequenceKnown,   \* sequence_known_
    op,              \* the commit() in progress
    boot,            \* where loadOrInitializeConfig stands
    bootBuf,         \* g_bootLoad.payload: the defaults, then what was loaded
    faults,          \* faults so far
    confirmed,       \* payload of the last commit() that returned true
    streak,          \* commits that returned true since the last that did not
    missed,          \* sequence numbers the last scan's result was short of
    misread          \* a read failed in the bootstrap's last load()

historyVars == <<confirmed, streak, missed, misread>>
storeVars == <<file, synced, latestSequence, sequenceKnown, op, boot, bootBuf,
               faults, historyVars>>

AllPayloads == Payloads \cup {Defaults, Mixed}
RecordLen == PayloadLen + 2

(* Units of the file. *)
Header(seq, p) == [kind |-> "header", seq |-> seq, payload |-> p, at |-> 0]
Chunk(p, i) == [kind |-> "payload", seq |-> 0, payload |-> p, at |-> i]
Trailer(seq) == [kind |-> "trailer", seq |-> seq, payload |-> NoPayload, at |-> 0]
Junk == [kind |-> "junk", seq |-> 0, payload |-> NoPayload, at |-> 0]
Half == [kind |-> "half", seq |-> 0, payload |-> NoPayload, at |-> 0]

(* The file ends between the two characters of a byte. *)
Odd(f) == f # <<>> /\ f[Len(f)].kind = "half"

Idle == [phase |-> "idle", seq |-> 0, payload |-> NoPayload, at |-> 0]

---------------------------------------------------------------------------
(* Scanning.  `unread` are the headers behind which reading the payload fails *)
(* in this scan, which the scan takes for a payload that does not fit its CRC. *)

payloadValid(f, unread, o) ==
    /\ o \notin unread
    /\ \A i \in 1..PayloadLen : f[o + i] = Chunk(f[o].payload, i)

Committed(f, o) == f[o + PayloadLen + 1] = Trailer(f[o].seq)

NoRecord == [seq |-> 0, payload |-> NoPayload]

(* The record scan() keeps when the header at o is followed by a whole        *)
(* record and `rest` is what it keeps of the file after that record: the      *)
(* highest sequence, the first of equals.                                     *)
Keep(f, unread, o, rest) ==
    IF payloadValid(f, unread, o) /\ Committed(f, o) /\ f[o].seq >= rest.seq
    THEN [seq |-> f[o].seq, payload |-> f[o].payload]
    ELSE rest

(* scan(): slide over what is no header, stop at a header whose record does   *)
(* not fit in the file, otherwise step over the whole record, valid or not.   *)
(* ScanStep is what it keeps of the file from unit o on, `from` what it keeps *)
(* from the units after o on.                                                 *)
ScanStep(f, unread, from, o) ==
    IF Len(f) - (o - 1) < 2 THEN NoRecord
    ELSE IF f[o].kind # "header" THEN from[o + 1]
    ELSE IF o - 1 + RecordLen > Len(f) THEN NoRecord
    ELSE Keep(f, unread, o, from[o + RecordLen])

scanFrom(f, unread) ==
    LET from[o \in 1 .. Len(f) + RecordLen] == ScanStep(f, unread, from, o) IN from

(* What a scan of f finds, and what it would find if no read failed. *)
seen(f, unread) == scanFrom(f, unread)[1]
scan(f) == seen(f, {})

Durable == SubSeq(file, 1, synced)
Newest == scan(Durable)

---------------------------------------------------------------------------
(* The card. *)

Fault == faults < MaxFaults /\ faults' = faults + 1
ReadFault == ReadFaults /\ Fault

(* A fragment a failed append may leave behind. *)
Fragments == {<<>>, <<Junk>>, <<Half>>}

(* What can go wrong with payload reads; a bad spell of the card may hit      *)
(* several of one scan and counts as one fault.                               *)
Unreadable == SUBSET {o \in 1..Len(file) : file[o].kind = "header"}
PayloadReads(unread) == IF unread = {} THEN UNCHANGED faults ELSE ReadFault

(* scan() returns false: the size of the file cannot be told, or reading the  *)
(* size, a header or a trailer fails.                                         *)
ScanFails == (Odd(file) /\ UNCHANGED faults) \/ ReadFault

(* scan() returns true.  A sequence short of the highest in the file, or      *)
(* found again after that, starts the count of commits anew.                  *)
Scanned(unread) ==
    /\ ~Odd(file)
    /\ latestSequence' = seen(file, unread).seq
    /\ sequenceKnown' = TRUE
    /\ missed' = scan(file).seq - latestSequence'
    /\ streak' = IF missed = 0 /\ missed' = 0 THEN streak ELSE 0

---------------------------------------------------------------------------
(* commit(). *)

(* commit() returned: the boot sequence verifies a success and retries later  *)
(* after a failure.                                                           *)
Returned(ok) ==
    /\ op' = Idle
    /\ boot' = IF boot = "init" THEN (IF ok THEN "verify" ELSE "load") ELSE boot
    /\ confirmed' = IF ok THEN op.payload ELSE confirmed
    /\ streak' = IF ok THEN streak + 1 ELSE 0
    /\ UNCHANGED <<missed, misread>>

(* A sequence that is not known is recovered by a scan first. *)
KnownSequence ==
    \/ sequenceKnown /\ UNCHANGED <<latestSequence, sequenceKnown, missed, streak, faults>>
    \/ ~sequenceKnown /\ \E unread \in Unreadable : PayloadReads(unread) /\ Scanned(unread)

CommitStart(p) ==
    /\ op = Idle
    /\ KnownSequence
    /\ op' = [phase |-> "header", seq |-> latestSequence' + 1, payload |-> p, at |-> 0]
    /\ UNCHANGED <<file, synced, boot, bootBuf, confirmed, misread>>

CommitScanFails ==
    /\ op = Idle
    /\ ~sequenceKnown
    /\ ScanFails
    /\ Returned(FALSE)
    /\ UNCHANGED <<file, synced, latestSequence, sequenceKnown, bootBuf>>

(* The unit the commit in progress appends next, its payload bytes read from  *)
(* the caller's buffer when they are written; behind an odd character it does *)
(* not read as anything.                                                      *)
NextUnit(buf) ==
    IF Odd(file) THEN Half
    ELSE IF op.phase = "header" THEN Header(op.seq, op.payload)
    ELSE IF op.phase = "payload" THEN Chunk(buf, op.at)
    ELSE Trailer(op.seq)

AfterAppend ==
    IF op.phase = "header" THEN [op EXCEPT !.phase = "payload", !.at = 1]
    ELSE IF op.phase = "trailer" THEN [op EXCEPT !.phase = "sync"]
    ELSE IF op.at < PayloadLen THEN [op EXCEPT !.at = @ + 1]
    ELSE [op EXCEPT !.phase = "trailer", !.at = 0]

Appending == op.phase \in {"header", "payload", "trailer"}

CommitAppend(buf) ==
    /\ Appending
    /\ file' = Append(file, NextUnit(buf))
    /\ op' = AfterAppend
    /\ UNCHANGED <<synced, latestSequence, sequenceKnown, boot, bootBuf, faults,
                   historyVars>>

CommitAppendFails ==
    /\ Appending
    /\ Fault
    /\ \E torn \in Fragments : file' = file \o torn
    /\ Returned(FALSE)
    /\ UNCHANGED <<synced, latestSequence, sequenceKnown, bootBuf>>

(* Plausible bug: the sequence number is not advanced. *)
CommitSyncKeepsSequence ==
    /\ op.phase = "sync"
    /\ synced' = Len(file)
    /\ Returned(TRUE)
    /\ UNCHANGED <<file, latestSequence, sequenceKnown, bootBuf, faults>>

CommitSync ==
    /\ op.phase = "sync"
    /\ synced' = Len(file)
    /\ latestSequence' = op.seq
    /\ Returned(TRUE)
    /\ UNCHANGED <<file, sequenceKnown, bootBuf, faults>>

CommitSyncFails ==
    /\ op.phase = "sync"
    /\ Fault
    /\ Returned(FALSE)
    /\ UNCHANGED <<file, synced, latestSequence, sequenceKnown, bootBuf>>

---------------------------------------------------------------------------
(* load() and the boot sequence. *)

LoadScanFails ==
    /\ ScanFails
    /\ sequenceKnown' = FALSE
    /\ bootBuf' = Defaults
    /\ UNCHANGED <<latestSequence, missed, streak>>

(* The record was found, then reading its payload failed part of the way into *)
(* the caller's buffer, which is also the one that holds the defaults.        *)
LoadReadFails ==
    /\ ReadFault
    /\ \E unread \in Unreadable : seen(file, unread) # NoRecord /\ Scanned(unread)
    /\ bootBuf' = Mixed

LoadFindsNothing ==
    /\ \E unread \in Unreadable :
          seen(file, unread) = NoRecord /\ PayloadReads(unread) /\ Scanned(unread)
    /\ bootBuf' = Defaults

LoadFails == LoadScanFails \/ LoadReadFails \/ LoadFindsNothing

LoadSucceeds ==
    \E unread \in Unreadable :
        /\ seen(file, unread) # NoRecord
        /\ PayloadReads(unread)
        /\ Scanned(unread)
        /\ bootBuf' = seen(file, unread).payload

(* The bootstrap asks for the size first and gives up when it is not told. *)
BootSizeFails ==
    /\ ScanFails
    /\ bootBuf' = Defaults
    /\ UNCHANGED <<latestSequence, sequenceKnown, missed, streak>>

(* Plausible bug: the early return after a successful load is missing. *)
BootLoadAlwaysInitializes ==
    /\ boot = "load"
    /\ \/ BootSizeFails /\ boot' = "load"
       \/ ~Odd(file) /\ (LoadSucceeds \/ LoadFails) /\ boot' = "init"
    /\ misread' = (faults' # faults)
    /\ UNCHANGED <<file, synced, op, confirmed>>

(* loadOrInitializeConfig: a load() that returns false, for whatever reason,  *)
(* is answered by committing the buffer that held the defaults and loading    *)
(* again; a second failure leaves the bootstrap pending, and i2cTask runs it  *)
(* again, with the defaults serialized afresh, a second later.                *)
BootLoad ==
    /\ boot = "load"
    /\ \/ BootSizeFails /\ boot' = "load"
       \/ ~Odd(file) /\ LoadSucceeds /\ boot' = "done"
       \/ ~Odd(file) /\ LoadFails /\ boot' = "init"
    /\ misread' = (faults' # faults)
    /\ UNCHANGED <<file, synced, op, confirmed>>

BootInit == boot = "init" /\ CommitStart(bootBuf)

(* Plausible bug: only the readback is retried, not the whole bootstrap. *)
BootVerifyOnlyRereads ==
    /\ boot = "verify"
    /\ \/ LoadSucceeds /\ boot' = "done"
       \/ LoadFails /\ boot' = "verify"
    /\ UNCHANGED <<file, synced, op, confirmed, misread>>

BootVerify ==
    /\ boot = "verify"
    /\ \/ LoadSucceeds /\ boot' = "done"
       \/ LoadFails /\ boot' = "load"
    /\ UNCHANGED <<file, synced, op, confirmed, misread>>

(* A reset: RAM is lost, and of what was written but not synced any prefix    *)
(* survives, the last unit of it possibly torn.                               *)
Reset ==
    /\ Fault
    /\ \E n \in synced .. Len(file), torn \in Fragments :
          /\ n = Len(file) => torn = <<>>
          /\ file' = SubSeq(file, 1, n) \o torn
    /\ synced' = Len(file')
    /\ latestSequence' = 0
    /\ sequenceKnown' = FALSE
    /\ op' = Idle
    /\ boot' = "load"
    /\ bootBuf' = Defaults
    /\ streak' = IF op = Idle THEN streak ELSE 0
    /\ UNCHANGED <<confirmed, missed, misread>>

---------------------------------------------------------------------------
(* The store on its own: after the bootstrap, any payload may be committed,   *)
(* one at a time, from a buffer nobody else writes.                           *)

StoreInit ==
    /\ file \in Fragments
    /\ synced = Len(file)
    /\ latestSequence = 0
    /\ sequenceKnown = FALSE
    /\ op = Idle
    /\ boot = "load"
    /\ bootBuf = Defaults
    /\ faults = 0
    /\ confirmed = NoPayload
    /\ streak = 0
    /\ missed = 0
    /\ misread = FALSE

HostCommit ==
    /\ boot = "done"
    /\ Len(file) + RecordLen <= FileLimit
    /\ \E p \in Payloads : CommitStart(p)

StoreStep ==
    \/ BootLoad
    \/ BootInit
    \/ boot = "init" /\ CommitScanFails
    \/ BootVerify
    \/ CommitAppend(op.payload)
    \/ CommitAppendFails
    \/ CommitSync
    \/ CommitSyncFails

StoreNext == StoreStep \/ HostCommit \/ Reset

StoreSpec == StoreInit /\ [][StoreNext]_storeVars

(* i2cTask keeps running: a pass of it always moves a pending bootstrap or a  *)
(* commit in progress on.                                                     *)
FairStoreSpec == StoreSpec /\ WF_storeVars(StoreStep)

---------------------------------------------------------------------------
(* Properties. *)

(* Type invariant of the journal and its driver. *)
StoreTypeOK ==
    /\ \A i \in 1..Len(file) :
          /\ file[i].kind \in {"header", "payload", "trailer", "junk", "half"}
          /\ file[i].seq \in Nat
          /\ file[i].payload \in AllPayloads \cup {NoPayload}
          /\ file[i].at \in 0..PayloadLen
    /\ synced \in 0..Len(file)
    /\ latestSequence \in Nat
    /\ sequenceKnown \in BOOLEAN
    /\ op.phase \in {"idle", "header", "payload", "trailer", "sync"}
    /\ op.seq \in Nat /\ op.at \in 0..PayloadLen
    /\ op.payload \in AllPayloads \cup {NoPayload}
    /\ boot \in {"load", "init", "verify", "done"}
    /\ bootBuf \in AllPayloads
    /\ faults \in 0..MaxFaults
    /\ confirmed \in AllPayloads \cup {NoPayload}
    /\ streak \in Nat /\ missed \in Nat
    /\ misread \in BOOLEAN

(* Whatever torn records, reused sequence numbers and failed reads lie        *)
(* behind, once two commits in a row have returned true the later one is what *)
(* a reset would load: damage hides at most the one commit written right      *)
(* after it.  Two conditions, because the code does no better: a scan that    *)
(* missed the newest records hides as many more commits as it missed sequence *)
(* numbers, and behind an odd character every commit is lost.                 *)
SecondCommitSticks ==
    streak >= 2 /\ streak > missed /\ ~Odd(Durable) => Newest.payload = confirmed

(* loadOrInitializeConfig initializes a journal that holds no valid record;   *)
(* with a durable record there it is about to write something in front of it  *)
(* only if a read of the card failed in this very attempt.                    *)
BootPreservesReadable == boot = "init" /\ Newest # NoRecord => misread

(* However it was interrupted, once the card stops failing the bootstrap ends *)
(* with a configuration read back from the journal, unless what it was        *)
(* interrupted in ended between the two characters of a byte.                 *)
BootRecovers == <>[](boot = "done") \/ <>[]Odd(file)

(* A commit that returned true is what a reset loads, until another commit is *)
(* attempted: the incomplete tail an earlier failure left behind is ignored.  *)
ConfirmedCommitLoads ==
    streak > 0 /\ op = Idle => Newest.payload = confirmed

=============================================================================
