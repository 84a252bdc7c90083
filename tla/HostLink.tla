--------------------------------- MODULE HostLink ---------------------------------
EXTENDS Integers, Sequences, SequencesExt, Bitwise, FiniteSets, FiniteSetsExt

(***************************************************************************)
(* The wire format of the host link (protocol/framing, cobs, crc16) and the *)
(* byte-at-a-time reader that apiTask feeds from the serial port.           *)
(*                                                                         *)
(* Everything is scaled and nothing is left out: a byte is 0..Base-1, the   *)
(* longest COBS block is Base-1 (0xFF in the code), the CRC has two bytes   *)
(* and is computed bit by bit.  The header keeps the fields the decoder     *)
(* looks at: magic, message id and payload length.                         *)
(***************************************************************************)

CONSTANTS
    ByteBits,    \* bits of a byte (8)
    Poly,        \* CRC polynomial without its top term (0x1021)
    CrcInit,     \* kCrc16Init
    Magic,       \* kMagic
    MsgIds,      \* message ids the sender uses
    MaxPayload,  \* kMaxPayload
    MaxNoise,    \* bound on the stray bytes of one burst
    MaxFrames    \* bound on the frames sent

Base == 2 ^ ByteBits
Bytes == 0 .. Base - 1
MaxCode == Base - 1
HeaderLen == 3
CrcLen == 2
CrcMod == Base * Base
MaxFrameBody == HeaderLen + MaxPayload + CrcLen

ASSUME FrameAssumption ==
    /\ ByteBits \in Nat \ {0, 1} /\ Poly \in 0 .. CrcMod - 1 /\ CrcInit \in 0 .. CrcMod - 1
    /\ Magic \in Bytes /\ MsgIds \subseteq Bytes
    /\ MaxPayload \in Bytes /\ MaxNoise \in Nat /\ MaxFrames \in Nat

-----------------------------------------------------------------------------
(* CRC *)

ShiftBit(crc) == IF crc >= CrcMod \div 2 THEN ((2 * crc) % CrcMod) ^^ Poly ELSE 2 * crc
Shifted == [n \in 0 .. ByteBits, crc \in 0 .. CrcMod - 1 |->
               FoldLeft(LAMBDA c, i : ShiftBit(c), crc, [i \in 1 .. n |-> i])]
crc16Update(crc, data) ==
    FoldLeft(LAMBDA c, b : Shifted[ByteBits, c ^^ (b * Base)], crc, data)
crc16(data) == crc16Update(CrcInit, data)

-----------------------------------------------------------------------------
(* COBS *)

\* Worst case: one code byte, and one more per full block
cobsMaxEncodedLen(n) == n + n \div (MaxCode - 1) + 1

\* The finished blocks and the open one, whose code is one more than its length
EncodeByte(acc, b) ==
    LET open == Append(acc.open, b)
    IN  IF b = 0 THEN [done |-> acc.done \o <<Len(acc.open) + 1>> \o acc.open, open |-> <<>>]
        ELSE IF Len(open) + 1 = MaxCode THEN [done |-> acc.done \o <<MaxCode>> \o open, open |-> <<>>]
        ELSE [acc EXCEPT !.open = open]
cobsEncode(src) ==
    LET r == FoldLeft(EncodeByte, [done |-> <<>>, open |-> <<>>], src)
    IN  r.done \o <<Len(r.open) + 1>> \o r.open

\* Left to right: `left` bytes remain in the block, `zero` says that the block
\* stands for a following zero.  An empty result is the decoder's failure.
DecodeByte(acc, b) ==
    IF ~acc.ok THEN acc
    ELSE IF acc.left > 0 THEN [acc EXCEPT !.out = Append(@, b), !.left = @ - 1]
    ELSE IF b = 0 THEN [acc EXCEPT !.ok = FALSE]
    ELSE [ok |-> TRUE, left |-> b - 1, zero |-> b # MaxCode,
          out |-> IF acc.zero THEN Append(acc.out, 0) ELSE acc.out]
cobsDecode(src) ==
    LET r == FoldLeft(DecodeByte, [ok |-> TRUE, left |-> 0, zero |-> FALSE, out |-> <<>>], src)
    IN  IF r.ok /\ r.left = 0 /\ Len(r.out) <= MaxFrameBody THEN r.out ELSE <<>>

-----------------------------------------------------------------------------
(* Frames *)

writeHeader(h) == <<Magic, h.id, h.len>>
readHeader(body) == [id |-> body[2], len |-> body[3]]

FrameBody(h, payload) ==
    LET covered == writeHeader(h) \o payload
        crc == crc16(covered)
    IN  covered \o <<crc % Base, crc \div Base>>

encodeFrame(h, payload) == <<0>> \o cobsEncode(FrameBody(h, payload)) \o <<0>>

\* The caller's payload buffer holds kMaxPayload bytes, so BufferTooSmall does
\* not occur
Status(s) == [status |-> s]
decodeFrameBody(cobs) ==
    LET body == cobsDecode(cobs)
        h == readHeader(body)
        covered == SubSeq(body, 1, HeaderLen + h.len)
        got == body[HeaderLen + h.len + 1] + Base * body[HeaderLen + h.len + 2]
    IN  IF body = <<>> THEN Status("BadCobs")
        ELSE IF Len(body) < HeaderLen + CrcLen THEN Status("TooShort")
        ELSE IF body[1] # Magic THEN Status("BadMagic")
        ELSE IF h.len > MaxPayload \/ HeaderLen + h.len + CrcLen # Len(body) THEN Status("BadLength")
        ELSE IF crc16(covered) # got THEN Status("BadCrc")
        ELSE [status |-> "Ok", id |-> h.id, payload |-> SubSeq(body, HeaderLen + 1, HeaderLen + h.len)]

\* kMaxFrameBodyCobs, the reader's buffer
ReaderCap == cobsMaxEncodedLen(MaxFrameBody)

-----------------------------------------------------------------------------
(* The link: frames, cut-off frames and noise on the line, and the reader *)

VARIABLES
    line,      \* bytes still to arrive
    sending,   \* what the bytes on the line are: a "frame", a "cut" one or "noise"
    reader,    \* FrameReader
    segment,   \* what arrived since the last delimiter, as the line carried it
    closed,    \* the segment before the last delimiter
    sent       \* frames and bursts put on the line

frameVars == <<line, sending, reader, segment, closed, sent>>

NoReader == [buf |-> <<>>, overflow |-> FALSE, ready |-> FALSE]

Lost(kind) == [kind |-> kind, id |-> 0, payload |-> <<>>]

FramesInit ==
    /\ line = <<>> /\ sending = Lost("noise") /\ sent = 0
    /\ reader = NoReader /\ segment = <<>> /\ closed = <<>>

Payloads == UNION {[1 .. n -> Bytes] : n \in 0 .. MaxPayload}

\* A whole frame
SendFrame(id, payload) ==
    /\ line = <<>> /\ sent < MaxFrames
    /\ line' = encodeFrame([id |-> id, len |-> Len(payload)], payload)
    /\ sending' = [kind |-> "frame", id |-> id, payload |-> payload]
    /\ sent' = sent + 1
    /\ UNCHANGED <<reader, segment, closed>>

\* txFrame writes as much as the port has room for, waits, and gives the rest
\* of the frame up when no room appears within its timeout
txFrameTimesOut(id, payload, n) ==
    LET frame == encodeFrame([id |-> id, len |-> Len(payload)], payload)
    IN  /\ line = <<>> /\ sent < MaxFrames /\ n < Len(frame)
        /\ line' = SubSeq(frame, 1, n)
        /\ sending' = Lost("cut")
        /\ sent' = sent + 1
        /\ UNCHANGED <<reader, segment, closed>>

\* Bytes nobody sent
Noise(bytes) ==
    /\ line = <<>> /\ sent < MaxFrames
    /\ line' = bytes /\ sending' = Lost("noise") /\ sent' = sent + 1
    /\ UNCHANGED <<reader, segment, closed>>

\* FrameReader::push
PushKeepsOverflow(r, b) ==
    LET fresh == IF r.ready THEN NoReader ELSE r
    IN  IF b = 0 THEN IF fresh.buf # <<>> /\ ~fresh.overflow
                      THEN [fresh EXCEPT !.ready = TRUE]
                      ELSE fresh
        ELSE IF fresh.overflow THEN fresh
        ELSE IF Len(fresh.buf) >= ReaderCap THEN [fresh EXCEPT !.overflow = TRUE, !.buf = <<>>]
        ELSE [fresh EXCEPT !.buf = Append(@, b)]
push(r, b) ==
    LET fresh == IF r.ready THEN NoReader ELSE r
    IN  IF b = 0 THEN IF fresh.buf # <<>> /\ ~fresh.overflow
                      THEN [fresh EXCEPT !.ready = TRUE]
                      ELSE NoReader
        ELSE IF fresh.overflow THEN fresh
        ELSE IF Len(fresh.buf) >= ReaderCap THEN [fresh EXCEPT !.overflow = TRUE, !.buf = <<>>]
        ELSE [fresh EXCEPT !.buf = Append(@, b)]

\* apiTask takes one byte from the port
Receive ==
    /\ line # <<>>
    /\ LET b == Head(line)
       IN  /\ reader' = push(reader, b)
           /\ segment' = IF b = 0 THEN <<>> ELSE Append(segment, b)
           /\ closed' = IF b = 0 THEN segment ELSE closed
    /\ line' = Tail(line)
    /\ UNCHANGED <<sending, sent>>

FramesNext ==
    \/ \E id \in MsgIds, p \in Payloads : SendFrame(id, p)
    \/ \E id \in MsgIds, p \in Payloads, n \in 1 .. ReaderCap : txFrameTimesOut(id, p, n)
    \/ \E n \in 1 .. MaxNoise, b \in Bytes : Noise([i \in 1 .. n |-> b])
    \/ Receive

-----------------------------------------------------------------------------
(* The reader hands a body to the dispatcher exactly when the line closed a  *)
(* segment of one byte up to the buffer's size, and the body is that         *)
(* segment, whatever was lost, cut off or overlong before it (frame_reader). *)
ReaderSplitsAtDelimiters ==
    /\ reader.ready => reader.buf = closed /\ segment = <<>>
    /\ segment = <<>> /\ Len(closed) \in 1 .. ReaderCap => reader.ready

(* A frame that is on the line whole is decoded to what its sender encoded,  *)
(* whatever came before it: noise, a frame cut off by a full transmit buffer *)
(* or an overlong burst never costs the frame after it (encodeFrame's        *)
(* leading delimiter, cobsDecode, decodeFrameBody).                          *)
WholeFrameIsDecoded ==
    line = <<>> /\ sending.kind = "frame" =>
        /\ reader.ready
        /\ decodeFrameBody(reader.buf) =
               [status |-> "Ok", id |-> sending.id, payload |-> sending.payload]

-----------------------------------------------------------------------------
(***************************************************************************)
(* Telemetry: the subscriptions (protocol/telemetry.cpp) and the loop of    *)
(* apiTask (app/tasks.cpp) that asks them, once per cycle and in stream     *)
(* order, what is due.  The clock is the 32-bit millisecond counter, scaled *)
(* to TimeMod so that it wraps; apiTask samples it at the top of its cycle, *)
(* before the requests it serves, and may be late.                          *)
(***************************************************************************)

CONSTANTS
    NumStreams,    \* kNumStreams
    MaxRate,       \* kMaxRate of every stream
    AlwaysSent,    \* the streams a trace capture does not suppress
    Rates,         \* the rates the host asks for
    Second,        \* 1000 ms
    TimeMod,       \* 2^32 ms
    MaxLate,       \* bound on the milliseconds between two cycles
    MaxTime,       \* bound on the milliseconds modelled
    MaxRequests    \* bound on the requests of the host

Streams == 0 .. NumStreams - 1
Serving == -1   \* apiTask drains the serial port
Asleep == -2    \* and waits for its next period

ASSUME TelemetryAssumption ==
    /\ NumStreams \in Nat \ {0} /\ Second \in Nat \ {0} /\ TimeMod > MaxLate + Second
    /\ MaxRate \in [Streams -> 1 .. Second] /\ AlwaysSent \subseteq Streams
    /\ Rates \subseteq Nat /\ {MaxLate, MaxTime, MaxRequests} \subseteq Nat \ {0}

VARIABLES
    clock,      \* milliseconds since boot
    loop_now,   \* api_loop_now_ms of the running cycle
    asked,      \* requests served
    at,         \* the stream the loop asks next, or Asleep or Serving
    sub,        \* streams_
    backlog,    \* tx_backlog_
    capture,    \* a trace capture holds the link
    out,        \* stream -> frames of it that left since the last HELLO
    lostReplies,\* replies that did not since then
    origin      \* stream -> when it was primed and what it had counted by then

telVars == <<clock, loop_now, asked, at, sub, backlog, capture, out, lostReplies, origin>>

NoStream == [enabled |-> FALSE, primed |-> FALSE, interval |-> 0, last |-> 0,
             emitted |-> 0, dropped |-> 0]

TelInit ==
    /\ clock = 0 /\ loop_now = 0 /\ asked = 0 /\ at = Asleep
    /\ sub = [s \in Streams |-> NoStream] /\ backlog = 0 /\ capture = FALSE
    /\ out = [s \in Streams |-> 0] /\ lostReplies = 0
    /\ origin = [s \in Streams |-> [time |-> 0, counted |-> 0]]

clampRate(s, rate) == IF rate < 1 THEN 1 ELSE IF rate > MaxRate[s] THEN MaxRate[s] ELSE rate
IntervalOf(s, rate) == Second \div clampRate(s, rate)

subscribe(s, rate) ==
    sub' = [sub EXCEPT ![s].enabled = TRUE, ![s].primed = FALSE, ![s].interval = IntervalOf(s, rate)]
setRate(s, rate) == sub' = [sub EXCEPT ![s].interval = IntervalOf(s, rate), ![s].primed = FALSE]
unsubscribe(s) == sub' = [sub EXCEPT ![s].enabled = FALSE, ![s].primed = FALSE]

\* What SubscriptionManager::handle does for a valid request
TelRequest ==
    \/ \E s \in Streams, rate \in Rates : subscribe(s, rate) \/ setRate(s, rate)
    \/ \E s \in Streams : unsubscribe(s)

-----------------------------------------------------------------------------
(* One cycle of apiTask, which serves one request at most (four in the code) *)

Milliseconds ==
    /\ clock < MaxTime /\ clock - loop_now < MaxLate
    /\ clock' = clock + 1
    /\ UNCHANGED <<loop_now, asked, at, sub, backlog, capture, out, lostReplies, origin>>

ApiWakes ==
    /\ at = Asleep /\ clock > loop_now
    /\ loop_now' = clock /\ at' = Serving
    /\ UNCHANGED <<clock, asked, sub, backlog, capture, out, lostReplies, origin>>

noteTxBacklog(taken) == backlog' = IF taken THEN backlog ELSE backlog + 1

ApiServes(taken) ==
    /\ at = Serving /\ asked < MaxRequests /\ asked' = asked + 1
    /\ TelRequest
    /\ noteTxBacklog(taken)
    /\ lostReplies' = IF taken THEN lostReplies ELSE lostReplies + 1
    /\ at' = 0
    /\ UNCHANGED <<clock, loop_now, capture, out, origin>>

\* HELLO: a host that connects starts from no subscriptions.  The reply to it
\* may already be the first one lost.
HelloResets(taken) ==
    /\ at = Serving /\ asked < MaxRequests /\ asked' = asked + 1
    /\ sub' = [s \in Streams |-> NoStream]
    /\ backlog' = IF taken THEN 0 ELSE 1
    /\ lostReplies' = IF taken THEN 0 ELSE 1
    /\ out' = [s \in Streams |-> 0]
    /\ origin' = [s \in Streams |-> [time |-> 0, counted |-> 0]]
    /\ at' = 0
    /\ UNCHANGED <<clock, loop_now, capture>>

\* HIL builds: the observer starts and ends a capture while requests are served
CaptureChanges ==
    /\ at = Serving /\ asked < MaxRequests /\ asked' = asked + 1 /\ capture' = ~capture /\ at' = 0
    /\ UNCHANGED <<clock, loop_now, sub, backlog, out, lostReplies, origin>>

NoRequest ==
    /\ at = Serving /\ at' = 0
    /\ UNCHANGED <<clock, asked, loop_now, sub, backlog, capture, out, lostReplies, origin>>

Elapsed(st) == (loop_now - st.last) % TimeMod
\* Late slots are counted as dropped, never sent in a burst, and the phase
\* stays on the slot grid
shouldEmit(s) ==
    LET st == sub[s]
        slots == Elapsed(st) \div st.interval
    IN  IF ~st.primed
        THEN [st EXCEPT !.primed = TRUE, !.last = loop_now % TimeMod, !.emitted = @ + 1]
        ELSE [st EXCEPT !.dropped = @ + slots - 1, !.emitted = @ + 1,
                        !.last = (@ + slots * st.interval) % TimeMod]
Due(s) == sub[s].enabled /\ sub[s].interval # 0
          /\ (sub[s].primed => Elapsed(sub[s]) >= sub[s].interval)
Suppressed(s) == capture /\ s \notin AlwaysSent

NextStream(s) == IF s + 1 \in Streams THEN s + 1 ELSE Asleep

StreamNotDue ==
    /\ at \in Streams /\ (Suppressed(at) \/ ~Due(at))
    /\ at' = NextStream(at)
    /\ UNCHANGED <<clock, asked, loop_now, sub, backlog, capture, out, lostReplies, origin>>

\* The frame leaves, or the transmit buffer stays full and the loop gives up
\* for this cycle
StreamDue(taken) ==
    /\ at \in Streams /\ ~Suppressed(at) /\ Due(at)
    /\ sub' = [sub EXCEPT ![at] = shouldEmit(at)]
    /\ origin' = IF sub[at].primed THEN origin
                 ELSE [origin EXCEPT ![at] = [time |-> loop_now,
                                              counted |-> sub[at].emitted + sub[at].dropped]]
    /\ out' = IF taken THEN [out EXCEPT ![at] = @ + 1] ELSE out
    /\ noteTxBacklog(taken)
    /\ at' = IF taken THEN NextStream(at) ELSE Asleep
    /\ UNCHANGED <<clock, asked, loop_now, capture, lostReplies>>

TelNext ==
    \/ Milliseconds \/ ApiWakes \/ CaptureChanges \/ NoRequest \/ StreamNotDue
    \/ \E taken \in BOOLEAN : ApiServes(taken) \/ HelloResets(taken) \/ StreamDue(taken)

-----------------------------------------------------------------------------
(* Every slot since a stream was subscribed or its rate changed is either    *)
(* counted as emitted or counted as dropped, across late cycles, the wrap of *)
(* the millisecond counter and a capture that silenced the stream: the       *)
(* statistics a host reads (GET_STREAM_STATS) add up to the elapsed time.    *)
SlotsAccounted ==
    \A s \in Streams : sub[s].primed =>
        LET counted == sub[s].emitted + sub[s].dropped - origin[s].counted
            last == origin[s].time + (counted - 1) * sub[s].interval
        IN  sub[s].last = last % TimeMod /\ last <= clock

(* What the statistics call emitted but the host never received is explained *)
(* by the backlog counter: every frame and reply lost to a full transmit     *)
(* buffer is counted once, also across a HELLO (noteTxBacklog).              *)
BacklogExplainsLoss ==
    backlog = lostReplies + MapThenSumSet(LAMBDA s : sub[s].emitted - out[s], Streams)

(***************************************************************************)
(* What the transport says is what crossed it: a frame between two         *)
(* delimiters is decoded as it was sent whatever came before it, and       *)
(* telemetry slots, emitted, dropped and lost, add up although the time    *)
(* wraps and the host may stop reading (push, encodeFrame, setRate,        *)
(* noteTxBacklog).                                                         *)
(***************************************************************************)
TransportIsFaithful ==
    /\ [](ReaderSplitsAtDelimiters /\ WholeFrameIsDecoded)
    /\ [](SlotsAccounted /\ BacklogExplainsLoss)
=============================================================================
