----------------------------- MODULE FreshCapture -----------------------------
(***************************************************************************)
(* RtlTcpClient.capture_fresh (rtl_tcp.py) against a receiver that keeps   *)
(* producing samples while nobody reads, as rtl_tcp does and as            *)
(* tools/replay_rtl_tcp.py imitates it: the drain that discards what had   *)
(* queued, the read that dates its first sample by the arrivals, and the   *)
(* judgement whether that date can be believed.                            *)
(*                                                                         *)
(* Time is counted in sample periods: the sample of index s is complete at *)
(* s + 1.  The bytes of a connection are numbered by what they are, byte   *)
(* 2s the I and byte 2s + 1 the Q of sample s, so a dropped sample leaves  *)
(* a gap.  The wire stands for the socket buffers of both ends; a tick of  *)
(* the clock in which something that could move does not is a stall.       *)
(***************************************************************************)
EXTENDS Integers, Sequences, FiniteSets

CONSTANTS
    Transfer,        \* samples of a transfer: chunk_samples, transfer_samples
    MaxQueue,        \* samples that the server queues: max_queue_samples
    FileSamples,     \* the recording that is served
    WireBytes,       \* what the socket buffers hold
    LinkBytes,       \* what the link carries in one sample period
    Samples,         \* n_samples of a capture
    Settle, Quiet, MaxDrain,            \* settle_s, quiet_s, max_drain_s
    MaxRead,         \* the duration and the grace: max_read_s
    ReadTimeout,     \* read_timeout of one recv
    Threshold,       \* backlog_threshold_s
    Jitter, Segments, MinSegment,       \* _JITTER_NS, _CATCH_UP_SEGMENTS, _MIN_SEGMENT_NS
    MaxIdle,         \* bound: when a capture begins at the latest
    MaxStalls        \* bound of a behaviour

\* queue_problem refuses a queue shorter than a transfer; capture_fresh refuses a
\* drain that ends before the settling or the quiet interval, and empty captures.
ASSUME SizesAssumption ==
    /\ Transfer \in Nat \ {0} /\ MaxQueue \in Nat /\ MaxQueue >= Transfer
    /\ FileSamples \in Nat \ {0}
    /\ WireBytes \in Nat \ {0} /\ LinkBytes \in Nat \ {0} /\ Samples \in Nat \ {0}
ASSUME TimesAssumption ==
    /\ Settle \in Nat /\ Quiet \in Nat \ {0}
    /\ MaxDrain \in Nat /\ MaxDrain > Settle /\ MaxDrain > Quiet
    /\ MaxRead \in Nat /\ MaxRead >= Samples /\ ReadTimeout \in Nat \ {0}
    /\ Threshold \in Nat \ {0} /\ Jitter \in Nat /\ Segments \in Nat \ {0}
    /\ MinSegment \in Nat /\ MaxIdle \in Nat /\ MaxStalls \in Nat

VARIABLES
    now, carried,    \* the clock, and what the link carried since it last ticked
    stalls,
    sent, offset,    \* of the session: samples queued, sent or dropped; next file sample
    pending,         \* the bytes of a transfer not yet sent: [from, to]
    looped, ended,   \* loop; the server has closed, as at the end of a file
    silent,          \* the link is dead
    wire,            \* sequence of bytes
    phase,
    startedAt, lastDataAt, odd,         \* _discard_until_quiet: discarded % 2 = 1
    readStart, waitingSince, received,  \* _read_capture, bytes
    start, end, recent,
    capture,         \* what the judgement says: [backlogged, caughtUp]
    first, last      \* history: the first and the latest byte that the capture read

linkVars == <<carried, sent, offset, pending, looped, ended, silent, wire>>
drainVars == <<startedAt, lastDataAt, odd>>
readVars == <<readStart, waitingSince, received, start, end, recent, capture, first, last>>
vars == <<now, stalls, linkVars, phase, drainVars, readVars>>

Smaller(i, j) == IF i < j THEN i ELSE j
Larger(i, j) == IF i < j THEN j ELSE i

Phases == {"idle", "drain", "read", "captured", "notQuiet", "closed", "dead", "slow"}

ServerTypeOK ==
    /\ carried \in 0..LinkBytes
    /\ sent \in 0..now /\ offset \in 0..FileSamples
    /\ pending \in [from : Nat, to : Nat]
    /\ pending.from <= pending.to /\ pending.to <= 2 * sent
    /\ looped \in BOOLEAN /\ ended \in BOOLEAN /\ silent \in BOOLEAN
    /\ wire \in Seq(Nat) /\ Len(wire) <= WireBytes

ClientTypeOK ==
    /\ phase \in Phases
    /\ startedAt \in 0..now /\ lastDataAt \in 0..now /\ odd \in BOOLEAN
    /\ readStart \in 0..now /\ waitingSince \in 0..now /\ end \in 0..now
    /\ received \in 0..2 * Samples /\ start \in Int
    /\ recent \subseteq [at : 0..now, bound : Int]
    /\ capture \in [backlogged : BOOLEAN, caughtUp : BOOLEAN]
    /\ first \in Nat /\ last \in Nat
    /\ phase = "read" => received < 2 * Samples

TypeOK == now \in Nat /\ stalls \in Nat /\ ServerTypeOK /\ ClientTypeOK

Init ==
    /\ now = 0 /\ carried = 0 /\ stalls = 0
    /\ sent = 0 /\ offset = 0 /\ pending = [from |-> 0, to |-> 0] /\ ended = FALSE
    /\ looped \in BOOLEAN /\ silent = FALSE
    /\ wire = <<>> /\ phase = "idle"
    /\ startedAt = 0 /\ lastDataAt = 0 /\ odd = FALSE
    /\ readStart = 0 /\ waitingSince = 0 /\ received = 0
    /\ start = 0 /\ end = 0 /\ recent = {}
    /\ capture = [backlogged |-> FALSE, caughtUp |-> TRUE]
    /\ first = 0 /\ last = 0

-----------------------------------------------------------------------------
(* The receiver (ReplayServer._serve_client).                                *)

Behind == now - sent
Unsent == pending.to - pending.from

\* _advance
Advanced(from, count) ==
    IF looped THEN (from + count) % FileSamples ELSE Smaller(from + count, FileSamples)

\* A client that falls too far behind loses samples, but for one transfer.
Overfull == ~ended /\ Behind > MaxQueue
Drop ==
    /\ Overfull
    /\ LET dropped == Behind - Smaller(Transfer, MaxQueue)
       IN  offset' = Advanced(offset, dropped) /\ sent' = sent + dropped
    /\ UNCHANGED <<now, stalls, carried, pending, looped, ended, silent, wire, phase, drainVars, readVars>>

AtFileEnd == offset >= FileSamples
Reopened == IF AtFileEnd THEN 0 ELSE offset       \* a looped file begins again

\* A transfer is sent once its last sample exists.
Full == Behind >= Transfer

\* The next transfer is read from the file; the last one of the file is shorter.
Loadable == ~ended /\ ~Overfull /\ Unsent = 0 /\ ((AtFileEnd /\ ~looped) \/ Full)
Load ==
    /\ Loadable
    /\ IF AtFileEnd /\ ~looped
       THEN ended' = TRUE /\ UNCHANGED <<sent, offset, pending>>
       ELSE LET count == Smaller(Transfer, FileSamples - Reopened)
            IN  /\ pending' = [from |-> 2 * sent, to |-> 2 * (sent + count)]
                /\ offset' = Reopened + count /\ sent' = sent + count
                /\ UNCHANGED ended
    /\ UNCHANGED <<now, stalls, carried, looped, silent, wire, phase, drainVars, readVars>>

\* conn.send takes as much as there is room for, which may split a sample.
Room == IF silent THEN 0
        ELSE Smaller(Unsent, Smaller(WireBytes - Len(wire), LinkBytes - carried))
Send ==
    /\ Room > 0
    /\ wire' = wire \o [i \in 1..Room |-> pending.from + i - 1]
    /\ pending' = [pending EXCEPT !.from = @ + Room]
    /\ carried' = carried + Room
    /\ UNCHANGED <<now, stalls, sent, offset, looped, ended, silent, phase, drainVars, readVars>>

\* The server is shut down, or the link goes silent without a word.
Shutdown ==
    /\ ~ended /\ ended' = TRUE /\ pending' = [from |-> 0, to |-> 0]
    /\ UNCHANGED <<now, stalls, carried, sent, offset, looped, silent, wire, phase, drainVars, readVars>>
Silence ==
    /\ ~silent /\ ~ended /\ silent' = TRUE
    /\ UNCHANGED <<now, stalls, carried, sent, offset, pending, looped, ended, wire, phase, drainVars, readVars>>

-----------------------------------------------------------------------------
(* The drain (_discard_until_quiet).                                         *)

Begin ==
    /\ phase = "idle" /\ phase' = "drain"
    /\ startedAt' = now /\ lastDataAt' = now /\ odd' = FALSE
    /\ UNCHANGED <<now, stalls, linkVars, readVars>>

\* Mutant: whatever arrives renews the deadline.
DrainDeadlineRenewed == lastDataAt + MaxDrain

DrainDeadline == startedAt + MaxDrain
ReadyAt == Larger(startedAt + Settle, lastDataAt + Quiet)
AtEof == ended /\ ~silent /\ wire = <<>>

\* Every exception closes the socket (capture_fresh), so nothing reads it again.
Fail(why) ==
    /\ phase' = why
    /\ UNCHANGED <<now, stalls, linkVars, drainVars, readVars>>

DrainTimesOut == phase = "drain" /\ now >= DrainDeadline /\ Fail("notQuiet")

DrainEof == phase = "drain" /\ now < DrainDeadline /\ AtEof /\ Fail("closed")

DrainRecv ==
    /\ phase = "drain" /\ now < DrainDeadline /\ wire # <<>>
    /\ wire' = <<>> /\ odd' = (odd # (Len(wire) % 2 = 1)) /\ lastDataAt' = now
    /\ UNCHANGED <<now, stalls, carried, sent, offset, pending, looped, ended, silent, phase, startedAt, readVars>>

\* Mutant: the boundary may fall within a sample.
BoundaryAnywhere == now >= ReadyAt /\ wire = <<>>

\* Quiet for long enough, on a whole sample, and nothing arrived meanwhile.
Boundary == now >= ReadyAt /\ ~odd /\ wire = <<>>

DrainEnds ==
    /\ phase = "drain" /\ now < DrainDeadline /\ Boundary /\ ~AtEof
    /\ phase' = "read" /\ readStart' = now /\ waitingSince' = now
    /\ start' = now /\ end' = now /\ received' = 0 /\ recent' = {}
    /\ UNCHANGED <<now, stalls, linkVars, drainVars, capture, first, last>>

-----------------------------------------------------------------------------
(* The read (_read_capture, _recv_before).                                   *)

ReadDeadline == readStart + MaxRead
Segment == Larger(2 * Transfer, MinSegment)
Window == Segments * Segment

\* Mutant: the judgement ignores how the segments differ.
AnySegments(reads, from, to) ==
    \A i \in 0..Segments - 1 : \E r \in reads : r.at \in to - Window..to

\* _arrived_in_real_time: every segment of the window has reads, and the lowest
\* bounds of the segments are level with each other and with the start.
ArrivedInRealTime(reads, from, to) ==
    LET of(r) == Smaller((r.at - (to - Window)) \div Segment, Segments - 1)
        segment == [i \in 0..Segments - 1 |-> {r.bound : r \in {x \in reads : of(x) = i}}]
        low(i) == CHOOSE b \in segment[i] : \A other \in segment[i] : b <= other
    IN  /\ \A i \in 0..Segments - 1 : segment[i] # {}
        /\ \A i, j \in 0..Segments - 1 : low(i) - low(j) <= Jitter /\ low(i) - from <= Threshold

\* Up to one transfer of queue is normal; anything more must be seen to drain.
Judged(reads, from, to) ==
    LET queued == readStart - from
    IN  [backlogged |-> queued > Threshold,
         caughtUp |-> \/ queued <= Transfer + Jitter
                      \/ to - readStart >= Window /\ ArrivedInRealTime(reads, from, to)]

\* Mutant: a byte counts as a sample.
BoundByBytes(count) == now - count

\* k samples take k sample periods to produce: the first existed that long ago.
BoundOf(count) == now - count \div 2

\* The earliest bound dates the first sample.
Earliest(from, bound) == Smaller(from, bound)

\* What a recv_into returns: what is there, as far as the capture needs it.
Arriving == Smaller(Len(wire), 2 * Samples - received)

ReadRecv ==
    /\ phase = "read" /\ waitingSince < ReadDeadline /\ wire # <<>>
    /\ received' = received + Arriving
    /\ wire' = SubSeq(wire, Arriving + 1, Len(wire))
    /\ first' = IF received = 0 THEN wire[1] ELSE first
    /\ last' = wire[Arriving]
    /\ start' = Earliest(start, BoundOf(received'))
    /\ recent' = {r \in recent \cup {[at |-> now, bound |-> BoundOf(received')]} : r.at >= now - Window}
    /\ end' = now /\ waitingSince' = now
    /\ IF received' = 2 * Samples
       THEN phase' = "captured" /\ capture' = Judged(recent', start', now)
       ELSE UNCHANGED <<phase, capture>>
    /\ UNCHANGED <<now, stalls, carried, sent, offset, pending, looped, ended, silent, drainVars, readStart>>

ReadEof == phase = "read" /\ waitingSince < ReadDeadline /\ AtEof /\ Fail("closed")

\* One recv took read_timeout before the deadline: the receiver is dead.
ReadTimesOut ==
    /\ phase = "read" /\ now >= waitingSince + ReadTimeout /\ now < ReadDeadline
    /\ Fail("dead")

\* The deadline passed before a recv or in it: the receiver is too slow.
TooLate == now >= ReadDeadline
ReadTooSlow == phase = "read" /\ TooLate /\ Fail("slow")

-----------------------------------------------------------------------------

ClientReady ==
    \/ phase = "drain" /\ (now >= DrainDeadline \/ wire # <<>> \/ AtEof \/ Boundary)
    \/ phase = "read" /\ (now >= ReadDeadline \/ wire # <<>> \/ AtEof
                          \/ now >= waitingSince + ReadTimeout)
Ready == Overfull \/ Loadable \/ Room > 0 \/ ClientReady

\* Nothing waits with work to do, but for a stall.
Tick ==
    /\ phase \in {"idle", "drain", "read"}
    /\ phase = "idle" => now < MaxIdle
    /\ IF Ready THEN stalls < MaxStalls /\ stalls' = stalls + 1 ELSE UNCHANGED stalls
    /\ now' = now + 1 /\ carried' = 0
    /\ UNCHANGED <<sent, offset, pending, looped, ended, silent, wire, phase, drainVars, readVars>>

Server == Drop \/ Load \/ Send \/ Shutdown \/ Silence
Drain == Begin \/ DrainTimesOut \/ DrainEof \/ DrainRecv \/ DrainEnds
Read == ReadRecv \/ ReadEof \/ ReadTimesOut \/ ReadTooSlow

Next == Server \/ Drain \/ Read \/ Tick

Spec == Init /\ [][Next]_vars

-----------------------------------------------------------------------------
(* Properties                                                                *)

Reading == phase \in {"read", "captured"} /\ received > 0

\* A capture begins with the I byte of a sample and never ends up between I and Q,
\* however the drain's reads split a sample and whatever the receiver drops
\* (_discard_until_quiet).
PairsAreWhole ==
    Reading => first % 2 = 0 /\ (last - first + 1 - received) % 2 = 0

\* However late and in whatever bursts its samples arrive, a capture is never dated
\* before its first sample and the beginning of the read: each bound is the latest that
\* the sample can date from (_read_capture).
NeverDatedTooEarly == Reading => start >= Smaller(first \div 2, readStart)

Lossless == last - first + 1 = received
DatedToATransfer == start <= first \div 2 + Transfer + Jitter

\* When a capture without a loss says that it caught up, its date is right to one
\* transfer and the jitter: a backlog from before it, which only its arrivals can show,
\* is not dated late (_read_capture, _arrived_in_real_time).
CaughtUpIsDated ==
    phase = "captured" /\ capture.caughtUp /\ Lossless => DatedToATransfer

\* A capture ends in time, whatever trickles in: only stalls of this computer add to the
\* drain's deadline and to the read's (_discard_until_quiet, _recv_before).
CaptureIsBounded ==
    /\ phase = "drain" => now <= startedAt + MaxDrain + stalls
    /\ phase = "read" => now <= readStart + MaxRead + stalls /\ readStart < startedAt + MaxDrain

=============================================================================
