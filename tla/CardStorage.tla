-------------------------------- MODULE CardStorage --------------------------------
EXTENDS Naturals

(***************************************************************************)
(* CONFIG.TXT behind the OpenLog card's command interface                    *)
(* (config/qwiic_openlog.cpp).  The card answers one sequential stream: after *)
(* a read command each bus read takes the next characters of the file, and    *)
(* after a size command the size.  The driver mirrors the card's position to  *)
(* offer reads at any offset, through a cache, and tries a read three times;  *)
(* a failed transaction leaves the card where the driver does not know.        *)
(*                                                                         *)
(* A character is its position in the file, so the driver is right when it    *)
(* returns the positions it was asked for.                                    *)
(***************************************************************************)

CONSTANTS
    CacheSize,      \* sizeof read_cache_
    MaxBytes,       \* bound on the bytes of the file
    MaxBusFaults    \* bound on the failed transactions of a behaviour

ASSUME OpenLogAssumption == CacheSize \in Nat \ {0} /\ MaxBytes \in Nat /\ MaxBusFaults \in Nat

Attempts == 3
Lost == 2 * MaxBytes + 1     \* what the card serves, or a cache holds, is not from the file

VARIABLES
    chars,     \* characters of CONFIG.TXT
    served,    \* next character the card would return, Lost unless it serves CONFIG.TXT
    driver,    \* read_file_ and append_file_, sizes and offsets, the cache
    reading,   \* the readAt in progress
    session,   \* the store was told the size, and has used the card for nothing else since
    answer,    \* of the latest readAt
    busFaults

fileVars == <<chars, served, driver, reading, session, answer, busFaults>>

NotReading == [at |-> "idle"]
NoCache == [from |-> 0, pos |-> 0, len |-> 0]
NoAnswer == [ok |-> TRUE, right |-> TRUE, inFile |-> TRUE, faults |-> 0]

FileInit ==
    /\ chars = 0 /\ served = Lost
    /\ driver = [read |-> FALSE, append |-> "none", size |-> 0, source |-> 0, client |-> 0, cache |-> NoCache]
    /\ reading = NotReading /\ session = FALSE /\ answer = NoAnswer /\ busFaults = 0

BusFault == busFaults < MaxBusFaults /\ busFaults' = busFaults + 1
CardIdle == reading = NotReading

-----------------------------------------------------------------------------
(* Between reads: the size of a file, appending to one, the sync after it *)

\* fileSize of CONFIG.TXT or of another file; only a complete answer makes the
\* driver forget its streams.  QwiicConfigFile::size refuses an odd count.
fileSize(own) ==
    /\ CardIdle
    /\ driver' = [driver EXCEPT !.read = FALSE, !.append = "none"]
    /\ served' = Lost
    /\ session' = (own /\ chars % 2 = 0)
    /\ UNCHANGED <<chars, reading, answer, busFaults>>

fileSizeFails ==
    /\ CardIdle /\ BusFault
    /\ served' \in {served, Lost}
    /\ session' = FALSE
    /\ UNCHANGED <<chars, driver, reading, answer>>

\* selectAppendFile: a file that is open for appending is not opened again
selectAppendFile(f) ==
    driver' = IF driver.append = f THEN driver ELSE [driver EXCEPT !.append = f, !.read = FALSE]

\* One chunk of QwiicConfigFile::append, or of a line for another file
appendTo(f) ==
    /\ CardIdle
    /\ f = "CONFIG" => chars + 2 <= 2 * MaxBytes
    /\ selectAppendFile(f)
    /\ chars' = IF f = "CONFIG" THEN chars + 2 ELSE chars
    /\ served' = Lost /\ session' = FALSE
    /\ UNCHANGED <<reading, answer, busFaults>>

\* Opening failed, or the write did after some of the chunk had arrived
appendFails(f) ==
    /\ CardIdle /\ BusFault
    /\ f = "CONFIG" => chars + 2 <= 2 * MaxBytes
    /\ \/ UNCHANGED <<chars, driver>>
       \/ selectAppendFile(f) /\ chars' \in IF f = "CONFIG" THEN chars .. chars + 2 ELSE {chars}
    /\ served' \in {served, Lost} /\ session' = FALSE
    /\ UNCHANGED <<reading, answer>>

sync(ok) ==
    /\ CardIdle /\ IF ok THEN UNCHANGED busFaults ELSE BusFault
    /\ session' = FALSE
    /\ UNCHANGED <<chars, served, driver, reading, answer>>

-----------------------------------------------------------------------------
(* readAt: the store reads in a session only *)

Opens(offset) == ~driver.read \/ offset < driver.client

\* QwiicConfigFile::read: two characters a byte
readAt(byte, bytes) ==
    /\ CardIdle /\ session
    /\ reading' = [at |-> IF Opens(2 * byte) THEN "size" ELSE "skip", offset |-> 2 * byte, len |-> 2 * bytes,
                   copied |-> 0, attempt |-> 1, right |-> TRUE, faults |-> 0]
    /\ UNCHANGED <<chars, served, driver, session, answer, busFaults>>

Finish(ok) ==
    /\ reading' = NotReading
    /\ answer' = [ok |-> ok, right |-> reading.right, faults |-> reading.faults,
                  inFile |-> reading.offset + reading.len <= chars]

\* readAtOnce returned false: the next attempt opens the file again
AttemptFails(d, n) ==
    /\ driver' = [d EXCEPT !.read = FALSE, !.cache = NoCache]
    /\ IF reading.attempt = Attempts
       THEN /\ reading' = NotReading
            /\ answer' = [ok |-> FALSE, right |-> TRUE, faults |-> reading.faults + n,
                          inFile |-> reading.offset + reading.len <= chars]
       ELSE /\ reading' = [reading EXCEPT !.at = "size", !.attempt = @ + 1, !.copied = 0, !.right = TRUE, !.faults = @ + n]
            /\ UNCHANGED answer

\* beginRead: the size, which makes the driver forget its streams ...
beginReadSize ==
    /\ reading.at = "size"
    /\ \/ /\ driver' = [driver EXCEPT !.read = FALSE, !.append = "none", !.size = chars]
          /\ served' = Lost
          /\ reading' = [reading EXCEPT !.at = "open"] /\ UNCHANGED <<answer, busFaults>>
       \/ BusFault /\ served' \in {served, Lost} /\ AttemptFails(driver, 1)
    /\ UNCHANGED <<chars, session>>

\* ... and the commands that start the stream at character zero; a file that does
\* not exist has no characters
beginReadOpen ==
    /\ reading.at = "open"
    /\ \/ /\ chars > 0 /\ served' = 0
          /\ driver' = [driver EXCEPT !.read = TRUE, !.append = "none", !.source = 0, !.client = 0, !.cache = NoCache]
          /\ reading' = [reading EXCEPT !.at = "skip"] /\ UNCHANGED <<answer, busFaults>>
       \/ chars = 0 /\ AttemptFails(driver, 0) /\ UNCHANGED <<served, busFaults>>
       \/ BusFault /\ served' \in {served, Lost, 0} /\ AttemptFails(driver, 1)
    /\ UNCHANGED <<chars, session>>

Cached == driver.cache.len - driver.cache.pos
Lesser(a, b) == IF a < b THEN a ELSE b
CacheLen == Lesser(driver.size - driver.source, CacheSize)
Moved(n) == IF served = Lost THEN Lost ELSE served + n

\* fillReadCache; a failed bus read may have taken any part of the answer
fillReadCache ==
    /\ reading.at \in {"skip", "copy"} /\ Cached = 0
    /\ IF reading.at = "skip" THEN driver.client < reading.offset ELSE reading.copied < reading.len
    /\ \/ /\ driver.source < driver.size
          /\ driver' = [driver EXCEPT !.source = @ + CacheLen, !.cache = [from |-> served, pos |-> 0, len |-> CacheLen]]
          /\ served' = Moved(CacheLen) /\ UNCHANGED <<reading, answer, busFaults>>
       \/ driver.source >= driver.size /\ AttemptFails(driver, 0) /\ UNCHANGED <<served, busFaults>>
       \/ /\ driver.source < driver.size /\ BusFault
          /\ \E n \in {0, 1, CacheLen} : served' = Moved(n)
          /\ AttemptFails(driver, 1)
    /\ UNCHANGED <<chars, session>>

Advanced(n) == [driver EXCEPT !.client = @ + n, !.cache.pos = @ + n]

skipTo ==
    /\ reading.at = "skip"
    /\ IF driver.client < reading.offset
       THEN /\ Cached > 0 /\ driver' = Advanced(Lesser(reading.offset - driver.client, Cached))
            /\ UNCHANGED reading
       ELSE reading' = [reading EXCEPT !.at = "copy"] /\ UNCHANGED driver
    /\ UNCHANGED <<chars, served, session, answer, busFaults>>

\* The characters handed out are the right ones when the cache holds, at its
\* position, the character the driver takes it for
copyOut ==
    /\ reading.at = "copy"
    /\ IF reading.copied < reading.len
       THEN LET n == Lesser(reading.len - reading.copied, Cached)
                d == driver.cache IN
            /\ Cached > 0 /\ driver' = Advanced(n)
            /\ reading' = [reading EXCEPT !.copied = @ + n,
                                          !.right = @ /\ d.from # Lost /\ d.from + d.pos = driver.client]
            /\ UNCHANGED answer
       ELSE Finish(TRUE) /\ UNCHANGED driver
    /\ UNCHANGED <<chars, served, session, busFaults>>

FileNext ==
    \/ \E own \in BOOLEAN : fileSize(own)
    \/ fileSizeFails
    \/ \E f \in {"CONFIG", "EVENTS"} : appendTo(f) \/ appendFails(f)
    \/ \E ok \in BOOLEAN : sync(ok)
    \/ \E b \in 0 .. MaxBytes - 1, n \in 1 .. 2 : readAt(b, n)
    \/ beginReadSize \/ beginReadOpen \/ fillReadCache \/ skipTo \/ copyOut

FileSpec == FileInit /\ [][FileNext]_fileVars

-----------------------------------------------------------------------------
(* Properties *)

\* A read that returns true has returned the characters of the file at the offset
\* asked for, whatever was read, appended or refused by the card before: the
\* driver's idea of the card's position is right or given up.
ReadsAreFromFile == answer.ok => answer.right /\ answer.inFile

\* A read of characters the file has fails only when all three attempts met a
\* fault: no size or stream left over from before an append makes it fail.
ReadNeedsThreeFaults == ~answer.ok /\ answer.inFile => answer.faults >= Attempts

-----------------------------------------------------------------------------
(***************************************************************************)
(* One pass of i2cTask (app/tasks.cpp) over its storage and display work: a   *)
(* configuration commit, the markers and rows of a capture session            *)
(* (CAPTURE.CSV, logging/capture_log.cpp), the event log and the display      *)
(* share the bus and, through storage_io_this_pass, one slow operation per    *)
(* pass.  Capture requests arrive as sequence numbers raised by the radio     *)
(* bridge; boot storage is done (see ResetEvidence).                          *)
(*                                                                           *)
(* Time is counted in passes.  A row's text is left out; the number of rows   *)
(* of a sample depends on whether a goal frame is valid and on how many       *)
(* servos have a status, and is chosen when the sample starts.                *)
(***************************************************************************)

CONSTANTS MaxRows,    \* rows of the longest sample
          Interval,   \* kCaptureIntervalMs, in passes
          MaxAsks,    \* bound on the requests of a behaviour
          MaxSamples, \* cap on the counts of samples
          MaxFails    \* bound on the failures of a behaviour

ASSUME StorageBounds ==
    /\ MaxRows \in Nat /\ MaxRows >= 2 /\ Interval \in Nat /\ Interval > MaxRows
    /\ MaxSamples \in Nat /\ MaxFails \in Nat

VARIABLES toggles,   \* capture_toggle_seq - handled_toggle_seq
          started,   \* capture_start_seq # handled_start_seq
          recording, \* g_capture.recording
          rowsLeft,  \* rows of the sample under way, 0 for kCaptureNoRow
          due,       \* passes until next_sample_ms
          completed, \* g_capture.completed_samples
          commit,    \* g_commit.requested
          backlog,   \* the event log's queue is not empty
          page,      \* pending_pages # 0
          \* history
          intact,    \* every row of the sample under way is on the card
          whole,     \* samples of this session with all their rows on the card
          asks,      \* requests made
          held,      \* the start chord was used
          fails,     \* operations that failed
          intended   \* what the requests so far ask for, one at a time

requestVars == <<toggles, started, asks, held, intended>>
captureVars == <<recording, rowsLeft, due, completed, intact, whole>>
waitingVars == <<commit, backlog, page>>
passVars == <<requestVars, captureVars, waitingVars, fails>>

-----------------------------------------------------------------------------
\* the operator's toggle button, and the chord held to start
PressToggle ==
    /\ asks < MaxAsks
    /\ toggles' = toggles + 1 /\ asks' = asks + 1 /\ intended' = ~intended
    /\ UNCHANGED <<started, held, captureVars, waitingVars, fails>>

HoldStart ==
    /\ asks < MaxAsks
    /\ started' = TRUE /\ asks' = asks + 1 /\ intended' = TRUE /\ held' = TRUE
    /\ UNCHANGED <<toggles, captureVars, waitingVars, fails>>

\* apiTask, any task that reports an error, controlTask's display snapshot
RequestCommit ==
    /\ ~commit /\ asks < MaxAsks
    /\ commit' = TRUE /\ asks' = asks + 1
    /\ UNCHANGED <<toggles, started, held, intended, captureVars, backlog, page, fails>>

ReportEvent == ~backlog /\ backlog' = TRUE /\ UNCHANGED <<requestVars, captureVars, commit, page, fails>>
ChangeDisplay == ~page /\ page' = TRUE /\ UNCHANGED <<requestVars, captureVars, commit, backlog, fails>>

-----------------------------------------------------------------------------

\* i2cTask: do the requests change the session?
Acts == (started /\ ~recording) \/ toggles % 2 = 1

Heard == toggles' = 0 /\ started' = FALSE /\ UNCHANGED <<asks, held, intended>>

RowDue == recording /\ (rowsLeft > 0 \/ due = 0)

Sooner == IF due > 0 THEN due - 1 ELSE 0

\* a storage operation that failed, within the bound
Outcome(ok) == /\ ok \/ fails < MaxFails
               /\ fails' = IF ok THEN fails ELSE fails + 1

\* a commit is served whatever else waits; requests are read in a later pass
CommitPass ==
    /\ commit
    /\ commit' = FALSE
    /\ due' = Sooner
    /\ UNCHANGED <<requestVars, recording, rowsLeft, completed, intact, whole, backlog, page, fails>>

\* a marker: BEGIN must be seen on the card, END ends the session regardless
MarkerPass ==
    /\ ~commit /\ Acts
    /\ Heard
    /\ \E ok \in BOOLEAN :
        /\ Outcome(ok)
        /\ recording' = (~recording /\ ok)
        /\ backlog' = (backlog \/ ~ok)
    /\ rowsLeft' = 0
    /\ due' = 0
    /\ IF recording THEN UNCHANGED <<completed, whole>> ELSE completed' = 0 /\ whole' = 0
    /\ UNCHANGED <<intact, commit, page>>

Capped(n) == IF n > MaxSamples THEN MaxSamples ELSE n

\* the next sample is due an interval after this one started
NextSample == Interval - 1

SampleCountsUnverified(allThere) == TRUE

\* a sample's rows are counted only when the file has grown by all of them
SampleCounts(allThere) == allThere

\* a row: the first opens a sample, the last synchronises and measures the file;
\* the card may drop a row it acknowledged
RowPass ==
    /\ ~commit /\ ~Acts /\ RowDue
    /\ Heard
    /\ \E n \in 2..MaxRows, ok, landed \in BOOLEAN :
        LET fresh == rowsLeft = 0
            before == IF fresh THEN n ELSE rowsLeft
            there == (fresh \/ intact) /\ landed
            last == before = 1
            good == ok /\ (last => SampleCounts(there))
        IN  /\ fresh \/ n = 2
            /\ Outcome(ok /\ landed)
            /\ intact' = there
            /\ recording' = good
            /\ rowsLeft' = IF good THEN before - 1 ELSE 0
            /\ completed' = IF good /\ last THEN Capped(completed + 1) ELSE completed
            /\ whole' = IF last /\ there THEN Capped(whole + 1) ELSE whole
            /\ due' = IF fresh THEN NextSample ELSE Sooner
            /\ backlog' = (backlog \/ ~good)
    /\ UNCHANGED <<commit, page>>

LogPass ==
    /\ ~commit /\ ~Acts /\ ~RowDue /\ backlog
    /\ Heard
    /\ \E ok \in BOOLEAN : Outcome(ok) /\ backlog' = ~ok
    /\ due' = Sooner
    /\ UNCHANGED <<recording, rowsLeft, completed, intact, whole, commit, page>>

DisplayPass ==
    /\ ~commit /\ ~Acts /\ ~RowDue /\ ~backlog /\ page
    /\ Heard
    /\ page' = FALSE
    /\ due' = Sooner
    /\ UNCHANGED <<recording, rowsLeft, completed, intact, whole, commit, backlog, fails>>

IdlePass ==
    /\ ~commit /\ ~Acts /\ ~RowDue /\ ~backlog /\ ~page
    /\ Heard
    /\ due' = Sooner
    /\ UNCHANGED <<recording, rowsLeft, completed, intact, whole, waitingVars, fails>>

Pass == CommitPass \/ MarkerPass \/ RowPass \/ LogPass \/ DisplayPass \/ IdlePass

PassInit ==
    /\ toggles = 0 /\ started = FALSE /\ asks = 0 /\ held = FALSE /\ intended = FALSE
    /\ recording = FALSE /\ rowsLeft = 0 /\ due = 0 /\ completed = 0
    /\ intact = FALSE /\ whole = 0
    /\ commit = FALSE /\ backlog = FALSE /\ page = FALSE /\ fails = 0

PassNext == PressToggle \/ HoldStart \/ RequestCommit \/ ReportEvent \/ ChangeDisplay \/ Pass

PassSpec == PassInit /\ [][PassNext]_passVars

-----------------------------------------------------------------------------
Settled == toggles = 0 /\ ~started

(* Every sample a session counts, in its END marker and on the display, has   *)
(* all of its rows on the card, although the card may drop rows it            *)
(* acknowledged and any transfer may fail.                                    *)
CountedSamplesAreOnCard == completed <= whole

(* Toggles are never lost or applied twice, however many of them coalesce     *)
(* behind a commit: without a failure the session is on exactly when an odd   *)
(* number was pressed (toggle_delta).                                         *)
TogglesAreExact == fails = 0 /\ ~held /\ Settled => recording = intended

(* A waiting event gets its pass although a session is recording: a sample    *)
(* ends before the next one is due.                                           *)
BacklogIsServed == backlog ~> ~backlog

=============================================================================
