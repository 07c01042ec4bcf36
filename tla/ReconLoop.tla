------------------------------ MODULE ReconLoop ------------------------------
(***************************************************************************)
(* recon --jsonl with one receiver: the live loop (recon.run_recon), the   *)
(* writer of its records (cli._write_event_line) and its two signals.      *)
(*                                                                         *)
(* One thread does everything.  SIGINT raises KeyboardInterrupt between    *)
(* any two of its steps, except while a record is written: it is then held *)
(* until the whole line is out.  SIGUSR1 asks for an acquisition; its      *)
(* handler only counts (cli._RescanRequests).  A failed capture ends the   *)
(* run, and so does a write after the reader closed the pipe.              *)
(*                                                                         *)
(* Stations are interchangeable: a scan finds some with RDS and some of    *)
(* those with CT, and a watchlist is the number of its stations.           *)
(***************************************************************************)
EXTENDS Naturals, FiniteSetsExt

CONSTANTS
    Modes,          \* what configurations may select: "band", "hop" or "wide"
    Tunings,        \* how many frequencies an acquisition checks
    MaxWatchlist,   \* cfg.max_watchlist
    Iterations,     \* cfg.iterations
    MaxRescans,     \* bound: SIGUSR1 deliveries
    MaxInterrupts   \* bound: SIGINT deliveries

ASSUME ModesAssumption == Modes \subseteq {"band", "hop", "wide"}
ASSUME NumbersAssumption ==
    /\ Tunings \in Nat \ {0} /\ MaxWatchlist \in Nat \ {0} /\ Iterations \in Nat \ {0}
    /\ MaxRescans \in Nat /\ MaxInterrupts \in Nat

VARIABLES
    mode,          \* the configuration of this run
    pc,            \* control point
    record, next,  \* the record being written, and where the loop goes on after it
    masked,        \* SIGINT is blocked
    pending,       \* SIGINT arrived while it was blocked
    torn,          \* the output ends in half a line
    exc,           \* the exception that leaves the `with' block
    iteration, scanned, withCt, withRds, watchlist, hopped, newObs,
    received, seen, got, asked,          \* _RescanRequests, and consume()'s locals
    owed,          \* a SIGUSR1 arrived and no acquisition has begun since
    stage, iter, cycles, entered, reported, reason,   \* the records (ReconStream)
    readerOpen, interrupts

writeVars  == <<record, next, masked, pending, torn>>
cycleVars  == <<iteration, scanned, withCt, withRds, watchlist, hopped, newObs>>
askVars    == <<received, seen, got, asked, owed>>
streamVars == <<stage, iter, cycles, entered, reported, reason>>
vars == <<mode, pc, writeVars, exc, cycleVars, askVars, streamVars, readerOpen, interrupts>>

\* Control points with the receiver open, and those after it.
InWith == {"started", "iterate", "poll", "decide", "acquire", "scan", "ranked", "maintain",
           "hop", "complete", "cycleEnd", "final", "leave", "writing"}
Points == InWith \cup {"connect", "closing", "handler", "saying", "over"}

Writing == pc \in {"writing", "saying"}

TypeOK ==
    /\ mode \in Modes /\ pc \in Points /\ next \in Points
    /\ masked \in BOOLEAN /\ pending \in BOOLEAN /\ torn \in BOOLEAN
    /\ exc \in {"none", "error", "reader", "interrupt"}
    /\ iteration \in 0..Iterations /\ scanned \in 0..Tunings
    /\ withRds \in 0..scanned /\ withCt \in 0..withRds
    /\ watchlist \in 0..Tunings /\ hopped \in 0..watchlist /\ newObs \in 0..hopped
    /\ received \in 0..MaxRescans /\ seen \in 0..received /\ got \in 0..received
    /\ asked \in BOOLEAN /\ owed \in BOOLEAN
    /\ readerOpen \in BOOLEAN /\ interrupts \in 0..MaxInterrupts

NoRecord == [type |-> "none"]

Init ==
    /\ mode \in Modes
    /\ pc = "connect" /\ record = NoRecord /\ next = "connect"
    /\ masked = FALSE /\ pending = FALSE /\ torn = FALSE /\ exc = "none"
    /\ iteration = 0 /\ scanned = 0 /\ withCt = 0 /\ withRds = 0
    /\ watchlist = 0 /\ hopped = 0 /\ newObs = 0
    /\ received = 0 /\ seen = 0 /\ got = 0 /\ asked = FALSE /\ owed = FALSE
    /\ stage = "none" /\ iter = 0 /\ cycles = 0 /\ entered = 0 /\ reported = 0
    /\ reason = "none"
    /\ readerOpen = TRUE /\ interrupts = 0

-----------------------------------------------------------------------------
(* Exceptions.  Within the `with' block they first close the receiver; only  *)
(* KeyboardInterrupt is handled, and once the handler runs nothing is.       *)

\* Mutant: the handler does not cover the connection.
ConnectOutsideTry == {"closing"}

\* Points of the try block outside the `with' block.
TryOutsideWith == {"connect", "closing"}

Raised(kind, from) ==
    /\ exc' = kind
    /\ pc' = CASE from \in InWith -> "closing"
               [] from \in TryOutsideWith /\ kind = "interrupt" -> "handler"
               [] OTHER -> "over"

Close ==
    /\ pc = "closing"
    /\ pc' = IF exc = "interrupt" THEN "handler" ELSE "over"
    /\ UNCHANGED <<writeVars, exc, cycleVars, askVars, streamVars, readerOpen, interrupts>>

\* A capture, a command or the connection fails.
ReceiverFails ==
    /\ \/ pc = "connect"
       \/ pc = "scan" /\ IF mode = "wide" THEN scanned = 0 ELSE scanned < Tunings
       \/ pc = "hop" /\ IF mode = "wide" THEN watchlist > 0 /\ hopped = 0
                        ELSE hopped < watchlist \/ hopped = 0
    /\ Raised("error", pc)
    /\ UNCHANGED <<writeVars, cycleVars, askVars, streamVars, readerOpen, interrupts>>

\* SIGINT, wherever the loop is; while a record is written it stays pending.
SigInt ==
    /\ pc # "over" /\ interrupts < MaxInterrupts /\ interrupts' = interrupts + 1
    /\ \/ masked /\ pending' = TRUE /\ UNCHANGED <<pc, exc>>
       \/ ~masked /\ Raised("interrupt", pc) /\ UNCHANGED pending
    /\ UNCHANGED <<record, next, masked, torn, cycleVars, askVars, streamVars, readerOpen>>

-----------------------------------------------------------------------------
(* _write_event_line                                                         *)

\* Mutant: SIGINT is not blocked.
WriteUnmasked(rec, there) ==
    /\ record' = rec /\ next' = there
    /\ torn' = readerOpen
    /\ pc' = IF pc = "handler" THEN "saying" ELSE "writing"
    /\ UNCHANGED <<masked, pending, exc>>

\* Block SIGINT and write the beginning of the line.
Write(rec, there) ==
    /\ record' = rec /\ next' = there
    /\ masked' = TRUE
    /\ torn' = readerOpen
    /\ pc' = IF pc = "handler" THEN "saying" ELSE "writing"
    /\ UNCHANGED <<pending, exc>>

\* What the reader has once the line is out.
Appended ==
    /\ stage' = IF record.type \in {"scan_step", "hop_result"} THEN stage ELSE record.type
    /\ iter' = IF record.type \in {"recon_started", "scan_step", "hop_result"}
               THEN iter ELSE iteration
    /\ cycles' = IF record.type = "cycle_completed" THEN iteration ELSE cycles
    /\ entered' = CASE record.type = "maintenance_started" -> 0
                    [] record.type = "hop_result" /\ record.entered -> entered + 1
                    [] OTHER -> entered
    /\ reported' = IF record.type = "cycle_completed" THEN newObs ELSE reported
    /\ reason' = IF record.type = "recon_stopped" THEN record.reason ELSE reason

\* The rest of the line, and the unblocking, where a held SIGINT is delivered: it
\* then replaces the error of a closed pipe.
FinishWrite ==
    /\ pc \in {"writing", "saying"}
    /\ IF readerOpen THEN Appended /\ torn' = FALSE
       ELSE UNCHANGED <<streamVars, torn>>
    /\ masked' = FALSE /\ pending' = FALSE
    /\ \/ pending /\ Raised("interrupt", pc)
       \/ ~pending /\ ~readerOpen /\ Raised("reader", pc)
       \/ ~pending /\ readerOpen /\ pc' = next /\ UNCHANGED <<exc>>
    /\ UNCHANGED <<record, next, cycleVars, askVars, readerOpen, interrupts>>

ReaderCloses ==
    /\ readerOpen /\ readerOpen' = FALSE
    /\ UNCHANGED <<pc, writeVars, exc, cycleVars, askVars, streamVars, interrupts>>

-----------------------------------------------------------------------------
(* run_recon                                                                 *)

Connect ==
    /\ pc = "connect" /\ pc' = "started"
    /\ UNCHANGED <<writeVars, exc, cycleVars, askVars, streamVars, readerOpen, interrupts>>

Milestone(here, type, there) ==
    /\ pc = here /\ Write([type |-> type], there)
    /\ UNCHANGED <<streamVars, readerOpen, interrupts>>

PublishStarted ==
    Milestone("started", "recon_started", "iterate") /\ UNCHANGED <<cycleVars, askVars>>

\* A new iteration begins with consume(): it reads how many requests came ...
BeginIteration ==
    /\ pc = "iterate" /\ pc' = "poll"
    /\ iteration' = iteration + 1
    /\ got' = received
    /\ UNCHANGED <<writeVars, exc, scanned, withCt, withRds, watchlist, hopped, newObs,
                   received, seen, asked, owed, streamVars, readerOpen, interrupts>>

\* Mutant: what came since the comparison is marked as seen too.
ConsumeAll ==
    /\ pc = "poll" /\ pc' = "decide"
    /\ asked' = (got # seen)
    /\ seen' = received
    /\ UNCHANGED <<writeVars, exc, cycleVars, received, got, owed, streamVars,
                   readerOpen, interrupts>>

\* ... and remembers those it has seen.
Consume ==
    /\ pc = "poll" /\ pc' = "decide"
    /\ asked' = (got # seen)
    /\ seen' = got
    /\ UNCHANGED <<writeVars, exc, cycleVars, received, got, owed, streamVars,
                   readerOpen, interrupts>>

\* ACQUISITION when requested, the watchlist is empty or rescan_min has elapsed.
Acquires(due) == asked \/ watchlist = 0 \/ due

\* rescan_min elapses at any time; before the first acquisition it always has.
Decide ==
    /\ pc = "decide"
    /\ \E due \in BOOLEAN :
        /\ stage = "recon_started" => due
        /\ pc' = IF Acquires(due) THEN "acquire" ELSE "maintain"
    /\ UNCHANGED <<writeVars, exc, cycleVars, askVars, streamVars, readerOpen, interrupts>>

\* _acquire
Acquire ==
    /\ Milestone("acquire", "acquisition_started", "scan")
    /\ owed' = FALSE
    /\ scanned' = 0 /\ withCt' = 0 /\ withRds' = 0
    /\ UNCHANGED <<iteration, watchlist, hopped, newObs, received, seen, got, asked>>

\* quick_scan_band, wide_scan: what a tuning shows, and its scan_step.
ScanOne ==
    /\ pc = "scan" /\ scanned < Tunings
    /\ Write([type |-> "scan_step"], "scan")
    /\ scanned' = scanned + 1
    /\ \/ UNCHANGED <<withCt, withRds>>
       \/ withRds' = withRds + 1 /\ withCt' \in {withCt, withCt + 1}
    /\ UNCHANGED <<iteration, watchlist, hopped, newObs, askVars, streamVars, readerOpen, interrupts>>

\* A band scan keeps the best stations with CT, or else with RDS; a list of
\* stations keeps all those with RDS.
NextWatchlist ==
    IF mode = "band"
    THEN Min({MaxWatchlist, IF withCt > 0 THEN withCt ELSE withRds})
    ELSE withRds

Rank ==
    /\ pc = "scan" /\ scanned = Tunings
    /\ pc' = "ranked"
    /\ watchlist' = NextWatchlist /\ hopped' = 0 /\ newObs' = 0
    /\ UNCHANGED <<writeVars, exc, iteration, scanned, withCt, withRds, askVars,
                   streamVars, readerOpen, interrupts>>

PublishWatchlist ==
    Milestone("ranked", "watchlist_updated", "maintain") /\ UNCHANGED <<cycleVars, askVars>>

\* _maintain
Maintain ==
    /\ Milestone("maintain", "maintenance_started", "hop")
    /\ hopped' = 0 /\ newObs' = 0
    /\ UNCHANGED <<iteration, scanned, withCt, withRds, watchlist, askVars>>

\* Mutant: every station reported counts as an observation.
CountReport(e) == 1

\* _report_station
CountEntered(e) == IF e THEN 1 ELSE 0

\* hop_collect_ct, wide_collect_ct: record the station's CT, report the station.
HopOne ==
    /\ pc = "hop" /\ hopped < watchlist
    /\ hopped' = hopped + 1
    /\ \E e \in BOOLEAN :
        /\ Write([type |-> "hop_result", entered |-> e], "hop")
        /\ newObs' = newObs + CountEntered(e)
    /\ UNCHANGED <<iteration, scanned, withCt, withRds, watchlist, askVars, streamVars,
                   readerOpen, interrupts>>

HopsDone ==
    /\ pc = "hop" /\ hopped = watchlist /\ pc' = "complete"
    /\ UNCHANGED <<writeVars, exc, cycleVars, askVars, streamVars, readerOpen, interrupts>>

\* _complete_cycle
CompleteCycle ==
    Milestone("complete", "cycle_completed", "cycleEnd") /\ UNCHANGED <<cycleVars, askVars>>

EndCycle ==
    /\ pc = "cycleEnd"
    /\ pc' = IF iteration >= Iterations THEN "final" ELSE "iterate"
    /\ UNCHANGED <<writeVars, exc, cycleVars, askVars, streamVars, readerOpen, interrupts>>

PublishFinished ==
    /\ pc = "final" /\ Write([type |-> "recon_stopped", reason |-> "iterations"], "leave")
    /\ UNCHANGED <<cycleVars, askVars, streamVars, readerOpen, interrupts>>

Leave ==
    /\ pc = "leave" /\ pc' = "closing"
    /\ UNCHANGED <<writeVars, exc, cycleVars, askVars, streamVars, readerOpen, interrupts>>

\* The handler of KeyboardInterrupt.
PublishInterrupted ==
    /\ pc = "handler" /\ Write([type |-> "recon_stopped", reason |-> "interrupted"], "over")
    /\ UNCHANGED <<cycleVars, askVars, streamVars, readerOpen, interrupts>>

-----------------------------------------------------------------------------

\* _RescanRequests.handle
SigUsr1 ==
    /\ pc # "over" /\ received < MaxRescans
    /\ received' = received + 1 /\ owed' = TRUE
    /\ UNCHANGED <<pc, writeVars, exc, cycleVars, seen, got, asked, streamVars,
                   readerOpen, interrupts>>

Work ==
    \/ Connect \/ PublishStarted \/ BeginIteration \/ Consume \/ Decide
    \/ Acquire \/ ScanOne \/ Rank \/ PublishWatchlist \/ Maintain \/ HopOne \/ HopsDone
    \/ CompleteCycle \/ EndCycle \/ PublishFinished \/ Leave \/ Close
    \/ PublishInterrupted \/ FinishWrite

Next ==
    /\ Work \/ ReceiverFails \/ SigInt \/ SigUsr1 \/ ReaderCloses
    /\ UNCHANGED mode

Spec == Init /\ [][Next]_vars

-----------------------------------------------------------------------------

\* The records of one receiver are those that ReconStream allows: in order, with
\* the iterations of their cycles, and the new observations counted as reported.
Stream == INSTANCE ReconStream
StreamInOrder == Stream!Spec

\* No record is ever begun after half a line: a signal cannot tear one (so that
\* recon_stopped is not appended to it), and once the pipe is closed nothing is out.
NoRecordIsTorn == [][~Writing /\ Writing' /\ readerOpen => ~torn]_vars

\* No SIGUSR1 is lost, wherever it falls in a poll: until an acquisition begins, a
\* request can still be seen by a poll or has made this iteration acquire.
NoRescanIsLost ==
    owed /\ pc \in InWith =>
        received # seen \/ (asked /\ pc \in {"decide", "acquire"})

\* Whoever reads the records learns how the run ended: one that failed, lost its
\* reader or was interrupted in its handler ends without recon_stopped, any other
\* with it, also when its only interrupt hits connecting, a held record or closing.
RunsSayHowTheyEnd ==
    pc = "over" =>
        /\ exc = "none" => stage = "recon_stopped"
        /\ readerOpen /\ interrupts = 1 => stage = "recon_stopped"

=============================================================================
