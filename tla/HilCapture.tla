-------------------------------- MODULE HilCapture --------------------------------
EXTENDS Naturals, Sequences
LOCAL INSTANCE SequencesExt

(***************************************************************************)
(* Trace capture in the output-disabled image: the observer that apiTask      *)
(* owns (hil/observer_api.cpp), the request ring to controlTask and the       *)
(* emission loop (app/tasks.cpp), and the one-slot recorder both tasks use    *)
(* without a lock (hil/trace_recorder.cpp).                                   *)
(*                                                                           *)
(* controlTask is the more urgent task and runs a cycle without interruption; *)
(* apiTask is preempted between any two of its accesses to the recorder that  *)
(* controlTask can tell apart.  A record is reduced to its kind, its capture  *)
(* and its step; the payload writers are left out.  Refusals that change      *)
(* nothing (rate limit, bad token, malformed request) are left out.           *)
(***************************************************************************)

CONSTANTS RingCapacity, \* HilTraceRequestRing::kCapacity
          StepCounts,   \* step counts the host asks for
          MaxCaptures,  \* bound on captures
          MaxHilAsks,      \* bound on markers, aborts and session closings
          MaxSurprises      \* bound on guard counters moving and configuration revisions

ASSUME HilBounds == RingCapacity \in Nat \ {0} /\ StepCounts \subseteq Nat \ {0}

VARIABLES
    \* ObserverApi
    sessionOpen,  \* session_open_
    busy,     \* capture_active_
    capReq,  \* capture_request_: [cap, n]
    stopping, \* abort_request_: [cap, why]
    pend,     \* which of Capture, Abort and Marker are pending
    hilRing,     \* g_hilTraceRequests
    \* TraceRecorder, and apiTask's place in emitHilTraceRecord()
    tracer,    \* summary_, the deferred flags and the slot
    api,      \* "idle", "send", "ack", "cleared", "abandoned", "finished"
    \* history
    viewed,     \* the record being sent
    stepsGot, \* step numbers of the capture the host has received
    abortedCaps,  \* captures the host asked to stop
    undrained,  \* did the host fail to drain a record of the capture?
    hostAsks, surprises

observerVars == <<sessionOpen, busy, capReq, stopping, pend, hilRing>>
historyVars == <<viewed, stepsGot, abortedCaps, undrained, hostAsks, surprises>>
hilVars == <<observerVars, tracer, api, historyVars>>

NoRec == [kind |-> "none", cap |-> 0, step |-> 0, why |-> "none"]
Rec(kind, cap, step, why) == [kind |-> kind, cap |-> cap, step |-> step, why |-> why]

-----------------------------------------------------------------------------
\* TraceRecorder, as functions of its state
Fresh == [cap |-> 0, want |-> 0, active |-> FALSE, ending |-> FALSE, why |-> "none", steps |-> 0,
          config |-> FALSE, mark |-> FALSE, markDue |-> FALSE, outDue |-> FALSE, slot |-> NoRec]

Ready(r) == r.slot.kind # "none"

finishCapture(r, why) == [r EXCEPT !.active = FALSE, !.ending = TRUE, !.why = why]

begin(r, q) ==
    IF r.active \/ r.ending THEN r
    ELSE [Fresh EXCEPT !.cap = q.cap, !.want = q.n, !.active = TRUE, !.config = TRUE,
                       !.slot = Rec("Begin", q.cap, 0, "none")]

AbortAny(r, q) == IF r.active \/ r.ending THEN finishCapture(r, q.why) ELSE r

abort(r, q) == IF r.cap = q.cap /\ (r.active \/ r.ending) THEN finishCapture(r, q.why) ELSE r

\* a second marker before the next step aborts the capture
markNext(r, q) ==
    IF ~(r.active /\ r.cap = q.cap) THEN r
    ELSE IF r.mark THEN finishCapture(r, "Overflow") ELSE [r EXCEPT !.mark = TRUE]

\* consumeHilTraceRequests(), one request
Consume(r, q) ==
    CASE q.type = "Capture" -> begin(r, q)
      [] q.type = "Abort"   -> abort(r, q)
      [] q.type = "Marker"  -> markNext(r, q)

\* publishStep() and what follows it: deferred records wait for acknowledge()
RecordStep(r, moved) ==
    LET n == r.steps + 1
        s == [r EXCEPT !.steps = n, !.slot = Rec("Step", r.cap, n, "none"),
                       !.markDue = @ \/ r.mark, !.mark = FALSE, !.outDue = @ \/ moved]
    IN  IF n >= r.want THEN finishCapture(s, "Complete") ELSE s

\* captureStep(): a record that was not drained ends the capture once steps flow
captureStep(r, moved, revised) ==
    IF ~r.active THEN r
    ELSE IF Ready(r) THEN (IF r.steps = 0 THEN r ELSE finishCapture(r, "Overflow"))
    ELSE IF revised THEN finishCapture(r, "Overflow")
    ELSE IF r.config THEN [r EXCEPT !.config = FALSE, !.slot = Rec("Config", r.cap, 0, "none")]
    ELSE RecordStep(r, moved)

\* publishEnd()
publishEnd(r) == [r EXCEPT !.slot = Rec("End", r.cap, r.steps, r.why)]

-----------------------------------------------------------------------------
\* controlTask: drain the ring, step the controller, record the step
ControlCycle ==
    \E moved, revised \in BOOLEAN :
        /\ moved \/ revised => surprises < MaxSurprises
        /\ surprises' = surprises + (IF moved THEN 1 ELSE 0) + (IF revised THEN 1 ELSE 0)
        /\ tracer' = captureStep(FoldLeft(Consume, tracer, hilRing), moved, revised)
        /\ hilRing' = <<>>
        /\ UNCHANGED <<sessionOpen, busy, capReq, stopping, pend, api, viewed, stepsGot, abortedCaps, undrained, hostAsks>>

-----------------------------------------------------------------------------
\* queueHilObserverRequests(): pending requests in a fixed order, while there is space
Message(type, q, s) ==
    [type |-> type, cap |-> IF type = "Abort" THEN s.cap ELSE q.cap, n |-> q.n, why |-> s.why]

Queue(p, q, s) ==
    LET waiting == SelectSeq(<<"Capture", "Abort", "Marker">>, LAMBDA t : t \in p)
        space == RingCapacity - Len(hilRing)
        taken == SubSeq(waiting, 1, IF Len(waiting) < space THEN Len(waiting) ELSE space)
    IN  /\ hilRing' = hilRing \o [i \in DOMAIN taken |-> Message(taken[i], q, s)]
        /\ pend' = p \ {taken[i] : i \in DOMAIN taken}
        /\ capReq' = q /\ stopping' = s

HasSpace == Len(hilRing) < RingCapacity

\* OPEN_SESSION, under the maintenance lock
OpenSession ==
    /\ api = "idle" /\ ~sessionOpen /\ hostAsks < MaxHilAsks
    /\ sessionOpen' = TRUE
    /\ Queue(pend, capReq, stopping)
    /\ UNCHANGED <<busy, tracer, api, historyVars>>

\* closeSession(): by the host, or because its heartbeat stopped
CloseSession(why) ==
    /\ api = "idle" /\ sessionOpen /\ hostAsks < MaxHilAsks
    /\ sessionOpen' = FALSE
    /\ hostAsks' = hostAsks + 1
    /\ IF busy THEN /\ Queue((pend \ {"Marker"}) \cup {"Abort"}, capReq, [cap |-> capReq.cap, why |-> why])
                    /\ abortedCaps' = abortedCaps \cup {capReq.cap}
       ELSE Queue(pend \ {"Marker"}, capReq, stopping) /\ UNCHANGED abortedCaps
    /\ UNCHANGED <<busy, tracer, api, viewed, stepsGot, undrained, surprises>>

\* CAPTURE
HostCapture(n) ==
    /\ api = "idle" /\ sessionOpen /\ ~busy /\ HasSpace /\ capReq.cap < MaxCaptures
    /\ busy' = TRUE
    /\ Queue(pend \cup {"Capture"}, [cap |-> capReq.cap + 1, n |-> n], stopping)
    /\ stepsGot' = <<>> /\ undrained' = FALSE
    /\ UNCHANGED <<sessionOpen, tracer, api, viewed, abortedCaps, hostAsks, surprises>>

\* ABORT_CAPTURE
HostAbort ==
    /\ api = "idle" /\ sessionOpen /\ busy /\ "Abort" \notin pend /\ HasSpace /\ hostAsks < MaxHilAsks
    /\ Queue(pend \cup {"Abort"}, capReq, [cap |-> capReq.cap, why |-> "HostAborted"])
    /\ abortedCaps' = abortedCaps \cup {capReq.cap}
    /\ hostAsks' = hostAsks + 1
    /\ UNCHANGED <<sessionOpen, busy, tracer, api, viewed, stepsGot, undrained, surprises>>

\* MARK
HostMark ==
    /\ api = "idle" /\ sessionOpen /\ busy /\ "Marker" \notin pend /\ HasSpace /\ hostAsks < MaxHilAsks
    /\ Queue(pend \cup {"Marker"}, capReq, stopping)
    /\ hostAsks' = hostAsks + 1
    /\ UNCHANGED <<sessionOpen, busy, tracer, api, viewed, stepsGot, abortedCaps, undrained, surprises>>

\* the top of apiTask's loop
QueueLater ==
    /\ api = "idle" /\ pend # {} /\ HasSpace
    /\ Queue(pend, capReq, stopping)
    /\ UNCHANGED <<sessionOpen, busy, tracer, api, historyVars>>

-----------------------------------------------------------------------------
\* peek(): an empty slot of an ended capture gets its End record
Peek ==
    /\ api = "idle" /\ (Ready(tracer) \/ tracer.ending)
    /\ tracer' = IF Ready(tracer) THEN tracer ELSE publishEnd(tracer)
    /\ viewed' = tracer'.slot
    /\ api' = "send"
    /\ UNCHANGED <<observerVars, stepsGot, abortedCaps, undrained, hostAsks, surprises>>

\* all fragments were written
SendRecord ==
    /\ api = "send"
    /\ api' = "ack"
    /\ stepsGot' = IF viewed.kind = "Step" THEN Append(stepsGot, viewed.step) ELSE stepsGot
    /\ UNCHANGED <<observerVars, tracer, viewed, abortedCaps, undrained, hostAsks, surprises>>

\* the host stopped draining: abandonCurrent(), first half and second half
SendFails ==
    /\ api = "send" /\ surprises < MaxSurprises
    /\ surprises' = surprises + 1
    /\ tracer' = [tracer EXCEPT !.slot = NoRec, !.markDue = FALSE, !.outDue = FALSE]
    /\ api' = "abandoned"
    /\ undrained' = TRUE /\ viewed' = NoRec
    /\ UNCHANGED <<observerVars, stepsGot, abortedCaps, hostAsks>>

Abandon ==
    /\ api = "abandoned"
    /\ tracer' = finishCapture(tracer, "Timeout")
    /\ api' = "idle"
    /\ UNCHANGED <<observerVars, historyVars>>

\* acknowledge(): the End record is the last; deferred records take the slot
Acknowledge ==
    /\ api = "ack"
    /\ IF tracer.slot.kind = "End"
       THEN tracer' = [tracer EXCEPT !.slot = NoRec, !.ending = FALSE] /\ api' = "finished"
       ELSE IF tracer.markDue
       THEN tracer' = [tracer EXCEPT !.markDue = FALSE, !.slot = Rec("Marker", tracer.cap, 0, "none")] /\ api' = "idle"
       ELSE IF tracer.outDue
       THEN tracer' = [tracer EXCEPT !.outDue = FALSE, !.slot = Rec("Blocked", tracer.cap, 0, "none")] /\ api' = "idle"
       ELSE tracer' = [tracer EXCEPT !.slot = NoRec] /\ api' = "cleared"
    /\ viewed' = NoRec
    /\ UNCHANGED <<observerVars, stepsGot, abortedCaps, undrained, hostAsks, surprises>>

\* acknowledge(), after slot_ready_ was cleared: whatever is in the slot by now
AcknowledgeEnd ==
    /\ api = "cleared"
    /\ tracer' = IF tracer.ending THEN publishEnd(tracer) ELSE tracer
    /\ api' = "idle"
    /\ UNCHANGED <<observerVars, historyVars>>

\* takeCompletion(), noteCaptureFinished()
Finished(p) == busy' = FALSE /\ pend' = p \ {"Capture", "Marker"}

NoteFinished ==
    /\ api = "finished"
    /\ IF busy /\ capReq.cap = tracer.cap THEN Finished(pend) ELSE UNCHANGED <<busy, pend>>
    /\ api' = "idle"
    /\ stepsGot' = <<>>
    /\ UNCHANGED <<sessionOpen, capReq, stopping, hilRing, tracer, viewed, abortedCaps, undrained, hostAsks, surprises>>

HilInit ==
    /\ sessionOpen = FALSE /\ busy = FALSE /\ capReq = [cap |-> 0, n |-> 0]
    /\ stopping = [cap |-> 0, why |-> "none"] /\ pend = {} /\ hilRing = <<>>
    /\ tracer = Fresh /\ api = "idle"
    /\ viewed = NoRec /\ stepsGot = <<>> /\ abortedCaps = {} /\ undrained = FALSE /\ hostAsks = 0 /\ surprises = 0

Emit == Peek \/ SendRecord \/ Abandon \/ Acknowledge \/ AcknowledgeEnd \/ NoteFinished

HilNext ==
    \/ ControlCycle
    \/ OpenSession \/ \E why \in {"SessionClosed", "HeartbeatExpired"} : CloseSession(why)
    \/ \E n \in StepCounts : HostCapture(n)
    \/ HostAbort \/ HostMark \/ QueueLater
    \/ SendFails \/ Emit

-----------------------------------------------------------------------------
(* The host receives the steps of a capture in order, and without a gap while *)
(* it drains every record, although recorder and emission run concurrently    *)
(* and deferred records take the slot in between (captureStep, acknowledge).   *)
StepsHaveNoGap ==
    \A i \in DOMAIN stepsGot : IF undrained THEN stepsGot[i] >= i ELSE stepsGot[i] = i

(* A capture ends by the host's wish only when the host asked to end that     *)
(* capture: an abort left over from an earlier capture never stops a later    *)
(* one (closeSession, consumeHilTraceRequests).                               *)
AbortHitsOwnCapture ==
    viewed.why \in {"HostAborted", "SessionClosed", "HeartbeatExpired"} => viewed.cap \in abortedCaps

(* Every accepted capture is closed by an End record and the observer accepts *)
(* the next one, whatever was aborted, closed, marked or lost on the way.     *)
CaptureEnds == busy ~> ~busy

-----------------------------------------------------------------------------
(***************************************************************************)
(* Fragmentation and reassembly of trace records (hil/trace_codec.cpp,        *)
(* emitHilTraceRecord in app/tasks.cpp).  The link may lose, duplicate and    *)
(* reorder fragments, and the sender may give a record up half way.           *)
(*                                                                           *)
(* A byte is its record and its place in it.  The CRC is ideal: it matches    *)
(* exactly the bytes of the record.                                           *)
(***************************************************************************)

CONSTANTS FragmentData, \* maxFragmentData()
          Lengths,      \* logical lengths of records
          MaxRecords    \* bound on records sent

ASSUME FragmentBounds == FragmentData \in Nat \ {0} /\ Lengths \subseteq Nat \ {0}

VARIABLES logical,  \* the record being sent: [seq, len]
          nextOut, \* index of the next fragment to send
          onLink,    \* fragments on the link, now or ever
          asm,     \* ReassemblyState
          assembled,     \* the receiver's buffer, up to asm.received
          verdict   \* of the last acceptFragment()

fragmentVars == <<logical, nextOut, onLink, asm, assembled, verdict>>

LogicalBytes(r) == [p \in 1..r.len |-> <<r.seq, p>>]

\* fragment_count
FragmentCount(len) == (len + FragmentData - 1) \div FragmentData

\* encodeFragmentSlice(): the slice an index selects
EncodeSlice(r, i) ==
    LET offset == i * FragmentData
        left == r.len - offset
        n == IF left < FragmentData THEN left ELSE FragmentData
    IN  [rec |-> r, index |-> i, count |-> FragmentCount(r.len), data |-> SubSeq(LogicalBytes(r), offset + 1, offset + n)]

-----------------------------------------------------------------------------
SendFragment ==
    /\ nextOut < FragmentCount(logical.len)
    /\ onLink' = onLink \cup {EncodeSlice(logical, nextOut)}
    /\ nextOut' = nextOut + 1
    /\ UNCHANGED <<logical, asm, assembled, verdict>>

\* the next record, after the last fragment or after a failed write
NextRecord ==
    /\ logical.seq < MaxRecords /\ nextOut > 0
    /\ \E n \in Lengths : logical' = [seq |-> logical.seq + 1, len |-> n]
    /\ nextOut' = 0
    /\ UNCHANGED <<onLink, asm, assembled, verdict>>

NoAssembly == [active |-> FALSE, rec |-> [seq |-> 0, len |-> 0], next |-> 0]

\* acceptFragment(): does a fragment continue what is being assembled?
Continues(f) ==
    /\ asm.active => f.rec = asm.rec
    /\ f.index = (IF asm.active THEN asm.next ELSE 0)

Accept(f) ==
    LET before == IF asm.active THEN assembled ELSE <<>>
        grown == before \o f.data
        last == f.index + 1 = f.count
    IN  IF Continues(f) /\ Len(grown) <= f.rec.len
        THEN /\ assembled' = grown
             /\ asm' = [active |-> ~last, rec |-> f.rec, next |-> f.index + 1]
             /\ verdict' = IF ~last THEN "Accepted" ELSE IF grown = LogicalBytes(f.rec) THEN "Complete" ELSE "BadCrc"
        ELSE verdict' = "Refused" /\ UNCHANGED <<asm, assembled>>

Deliver(f) == Accept(f) /\ UNCHANGED <<logical, nextOut, onLink>>

FragmentsInit ==
    /\ \E n \in Lengths : logical = [seq |-> 1, len |-> n]
    /\ nextOut = 0 /\ onLink = {} /\ asm = NoAssembly /\ assembled = <<>> /\ verdict = "none"

FragmentsNext == SendFragment \/ NextRecord \/ \E f \in onLink : Deliver(f)

-----------------------------------------------------------------------------
(* The headers alone keep records apart: loss, duplication, reordering and    *)
(* abandoned records never let fragments of two records, or of one record out *)
(* of order, reach the CRC.                                                   *)
AssembledIsOneRecord == verdict # "BadCrc"
=============================================================================
