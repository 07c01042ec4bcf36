---------------------------- MODULE MultiReceiver ----------------------------
(***************************************************************************)
(* The live loop with several receivers (recon._MultiReceiverRun) and the  *)
(* queue through which its receiver threads report (recon._Outbox).        *)
(*                                                                         *)
(* One thread runs the loop: it connects the receivers, starts one thread  *)
(* per receiver for each phase (reconnection, acquisition, maintenance),   *)
(* writes what they queue while it waits for them, reports those that      *)
(* failed and evaluates the cycle.  Ctrl+C raises KeyboardInterrupt in it  *)
(* between any two steps, a write excepted: SIGINT is held while a record  *)
(* is written.  A closed reader makes the next write raise.                *)
(*                                                                         *)
(* The clients' sockets are in ReceiverConnect; here a receiver is         *)
(* connected or not, and once the run stops every read of it fails.  The   *)
(* stations of a receiver are interchangeable, so a watchlist is their     *)
(* number; the trust arithmetic of the consensus is in TimeConsensus.      *)
(***************************************************************************)
EXTENDS Naturals, Sequences, FiniteSets, FiniteSetsExt, SequencesExt

CONSTANTS
    Slots,          \* the receivers, numbered in the order of cfg.hop_receivers()
    Listed,         \* how many listed stations each of them has
    Iterations,     \* cfg.iterations
    MaxFailures,    \* bound: failures of receivers while the run goes on
    MaxRescans,     \* bound: SIGUSR1 deliveries
    MaxInterrupts   \* bound: Ctrl+C

ASSUME SlotsAssumption == Slots # {} /\ IsFiniteSet(Slots) /\ Slots \subseteq Nat \ {0}
ASSUME ListedAssumption == Listed \in [Slots -> Nat \ {0}]
ASSUME BoundsAssumption ==
    /\ Iterations \in Nat \ {0}
    /\ MaxFailures \in Nat /\ MaxRescans \in Nat /\ MaxInterrupts \in Nat

VARIABLES
    pc, stopping,                                            \* the thread that runs the loop
    phase, running, toStart, remaining, failed, crashed,     \* _in_parallel
    iteration, asked, everywhere, acquiring, acquired,       \* the cycle
    client, watch, newObs,                                   \* the slots
    thread, todo,                                            \* their threads
    outbox, lock, recorded,          \* the queue; the consensus lock and what it orders
    stage, iter, cycles, reported, reason,      \* the records written (ReconStream)
    told, listed,   \* hop_results written in this pass; last cycle_completed's watchlist
    received, seen, readerOpen, failures, interrupts         \* signals, reader, bounds

controlVars == <<pc, stopping>>
phaseVars   == <<phase, running, toStart, remaining, failed, crashed>>
cycleVars   == <<iteration, asked, everywhere, acquiring, acquired>>
slotVars    == <<client, watch, newObs>>
threadVars  == <<thread, todo>>
sharedVars  == <<outbox, lock, recorded>>
streamVars  == <<stage, iter, cycles, reported, reason, told, listed>>
worldVars   == <<received, seen, readerOpen, failures, interrupts>>
vars == <<controlVars, phaseVars, cycleVars, slotVars, threadVars, sharedVars,
          streamVars, worldVars>>

Nobody == 0   \* the consensus lock is free

Up == {r \in Slots : client[r]}

\* Control points of run(): its try block, its handler and its finally clause.
LoopPoints == {"start", "spawn", "wait", "report", "require", "started", "iterate",
               "decide", "acquire", "listed", "maintain", "complete", "cycleEnd",
               "final", "leave"}
HandlerPoints == {"handlerStop", "handlerClose", "say"}
FinalPoints == {"finalStop", "finalClose"}

\* An item of the outbox: a scan_step, a hop_result, or the sentinel _FINISHED.
Result(r, e) == [type |-> "hop_result", slot |-> r, entered |-> e]
ScanStep == [type |-> "scan_step"]
Finished == [type |-> "finished"]
Results == [type : {"hop_result"}, slot : Slots, entered : BOOLEAN]
Items == Results \cup {ScanStep, Finished}

\* How many members of a sequence are in the set `kind'.
Count(items, kind) == Cardinality({i \in DOMAIN items : items[i] \in kind})

Numbers(f) == f \in [Slots -> Nat] /\ \A r \in Slots : f[r] <= Listed[r]

TypeOK ==
    /\ pc \in LoopPoints \cup HandlerPoints \cup FinalPoints \cup {"over"}
    /\ phase \in {"none", "connect", "reconnect", "scan", "hop"}
    /\ toStart \subseteq running /\ running \subseteq Slots /\ failed \subseteq running
    /\ remaining \in 0..Cardinality(Slots)
    /\ crashed \in BOOLEAN /\ iteration \in 0..Iterations
    /\ acquiring \subseteq Slots /\ everywhere \in BOOLEAN /\ acquired \in BOOLEAN
    /\ asked \in BOOLEAN /\ stopping \in BOOLEAN
    /\ client \in [Slots -> BOOLEAN]
    /\ Numbers(watch) /\ Numbers(newObs) /\ Numbers(todo) /\ Numbers(listed)
    /\ thread \in [Slots -> {"none", "connecting", "scanning", "hopping", "captured",
                             "recording", "ended"}]
    /\ outbox \in Seq(Items) /\ lock \in Slots \cup {Nobody}
    /\ recorded \in Seq(Results) /\ told \in Seq(Results)
    /\ {iter, cycles, reported} \subseteq Nat
    /\ received \in Nat /\ seen \in 0..received
    /\ readerOpen \in BOOLEAN /\ failures \in Nat /\ interrupts \in Nat

Init ==
    /\ pc = "start" /\ phase = "none" /\ toStart = {} /\ running = {} /\ remaining = 0
    /\ failed = {} /\ crashed = FALSE /\ iteration = 0 /\ acquiring = {}
    /\ everywhere = FALSE /\ acquired = FALSE /\ asked = FALSE
    /\ stopping = FALSE
    /\ client = [r \in Slots |-> FALSE]
    /\ watch = [r \in Slots |-> 0] /\ newObs = watch /\ todo = watch /\ listed = watch
    /\ thread = [r \in Slots |-> "none"]
    /\ outbox = <<>> /\ lock = Nobody /\ recorded = <<>>
    /\ stage = "none" /\ iter = 0 /\ cycles = 0 /\ told = <<>> /\ reported = 0
    /\ reason = "none"
    /\ received = 0 /\ seen = 0 /\ readerOpen = TRUE /\ failures = 0 /\ interrupts = 0

-----------------------------------------------------------------------------
(* Writing records.  _write_event_line writes a whole record or raises.      *)

\* An exception other than KeyboardInterrupt: run() goes to its finally clause.
Raise == pc' = "finalStop" /\ UNCHANGED stopping

Go(there) == pc' = there /\ UNCHANGED stopping

\* Publish a milestone and go on at `there'; without a reader the write raises.
Publish(type, there) ==
    \/ /\ readerOpen /\ Go(there)
       /\ stage' = type
       /\ iter' = IF type = "recon_started" THEN iter ELSE iteration
       /\ cycles' = IF type = "cycle_completed" THEN iteration ELSE cycles
       /\ told' = IF type = "maintenance_started" THEN <<>> ELSE told
    \/ /\ ~readerOpen /\ Raise
       /\ UNCHANGED <<stage, iter, cycles, told>>

-----------------------------------------------------------------------------
(* _in_parallel and what follows it in every phase.                          *)

Spawn(slots, job) ==
    /\ phase' = job /\ running' = slots /\ toStart' = slots
    /\ remaining' = Cardinality(slots)
    /\ failed' = {} /\ crashed' = FALSE

\* slot.new_obs as the thread's job begins.
CountFrom(r) == IF phase = "hop" THEN 0 ELSE newObs[r]

\* The threads start one after the other, in slot order, and run at once.
StartThread ==
    /\ pc = "spawn" /\ toStart # {}
    /\ LET r == Min(toStart) IN
        /\ toStart' = toStart \ {r}
        /\ thread' = [thread EXCEPT ![r] = CASE phase = "scan" -> "scanning"
                                             [] phase = "hop"  -> "hopping"
                                             [] OTHER          -> "connecting"]
        /\ todo' = [todo EXCEPT ![r] = CASE phase = "scan" -> Listed[r]
                                         [] phase = "hop"  -> watch[r]
                                         [] OTHER          -> 0]
        /\ newObs' = [newObs EXCEPT ![r] = CountFrom(r)]
    /\ UNCHANGED <<controlVars, phase, running, remaining, failed, crashed, cycleVars,
                   client, watch, sharedVars, streamVars, worldVars>>

AllStarted ==
    /\ pc = "spawn" /\ toStart = {}
    /\ Go("wait")
    /\ UNCHANGED <<phaseVars, cycleVars, slotVars, threadVars, sharedVars, streamVars, worldVars>>

\* write_until_finished takes one item: a sentinel is counted, output is written.
WriteQueued ==
    /\ pc = "wait" /\ remaining > 0 /\ outbox # <<>>
    /\ outbox' = Tail(outbox)
    /\ LET item == Head(outbox) IN
        \/ /\ item = Finished
           /\ remaining' = remaining - 1
           /\ UNCHANGED <<controlVars, told>>
        \/ /\ item # Finished /\ readerOpen
           /\ told' = IF item = ScanStep THEN told ELSE Append(told, item)
           /\ UNCHANGED <<controlVars, remaining>>
        \/ /\ item # Finished /\ ~readerOpen
           /\ Raise
           /\ UNCHANGED <<remaining, told>>
    /\ UNCHANGED <<phase, running, toStart, failed, crashed, cycleVars, slotVars, threadVars,
                   lock, recorded, stage, iter, cycles, reported, reason, listed, worldVars>>

\* Mutant: write_until_finished returns one thread early.
OneLeft == remaining <= 1

\* write_until_finished returned, and the joins after it.
PhaseOver == remaining = 0 /\ \A r \in running : thread[r] = "ended"

\* The joins; an error of a job other than OSError is raised only now.
Joined ==
    /\ pc = "wait" /\ PhaseOver
    /\ \/ crashed /\ Raise
       \/ ~crashed /\ Go(IF phase = "connect" THEN "require" ELSE "report")
    /\ UNCHANGED <<phaseVars, cycleVars, slotVars, threadVars, sharedVars, streamVars, worldVars>>

\* Mutant: the stations of a failed receiver stay listed.
WatchKept(r) == watch

\* _disconnect: a receiver without a client has no stations.
WatchWithout(r) == [watch EXCEPT ![r] = 0]

\* _report, for the first receiver that failed: disconnect it, drop its stations.
ReportFailure ==
    /\ pc = "report" /\ failed # {}
    /\ LET r == Min(failed) IN
        /\ failed' = failed \ {r}
        /\ client' = [client EXCEPT ![r] = FALSE]
        /\ watch' = WatchWithout(r)
    /\ \/ readerOpen /\ iter' = iteration /\ UNCHANGED controlVars
       \/ ~readerOpen /\ Raise /\ UNCHANGED iter
    /\ UNCHANGED <<phase, running, toStart, remaining, crashed, cycleVars, newObs, threadVars,
                   sharedVars, stage, cycles, told, reported, reason, listed, worldVars>>

AllReported ==
    /\ pc = "report" /\ failed = {}
    /\ Go(IF phase = "connect" THEN "iterate" ELSE "require")
    /\ UNCHANGED <<phaseVars, cycleVars, slotVars, threadVars, sharedVars, streamVars, worldVars>>

\* _require_a_receiver: without one the run ends with the receivers' error.
Require ==
    /\ pc = "require"
    /\ \/ Up = {} /\ Raise
       \/ /\ Up # {}
          /\ Go(CASE phase = "connect"   -> "started"
                  [] phase = "reconnect" -> "decide"
                  [] phase = "scan"      -> "listed"
                  [] phase = "hop"       -> "complete")
    /\ UNCHANGED <<phaseVars, cycleVars, slotVars, threadVars, sharedVars, streamVars, worldVars>>

-----------------------------------------------------------------------------
(* _loop                                                                     *)

ConnectAll ==
    /\ pc = "start"
    /\ Go("spawn") /\ Spawn(Slots, "connect")
    /\ UNCHANGED <<cycleVars, slotVars, threadVars, sharedVars, streamVars, worldVars>>

PublishStarted ==
    /\ pc = "started"
    /\ Publish("recon_started", "report")
    /\ UNCHANGED <<phaseVars, cycleVars, slotVars, threadVars, sharedVars, reported, reason,
                   listed, worldVars>>

\* A new iteration polls the rescan requests first (_RescanRequests.consume), then
\* connects the receivers that are down.
BeginIteration ==
    /\ pc = "iterate"
    /\ iteration' = iteration + 1
    /\ asked' = (received # seen) /\ seen' = received
    /\ \/ Up # Slots /\ Go("spawn") /\ Spawn(Slots \ Up, "reconnect")
       \/ Up = Slots /\ Go("decide") /\ UNCHANGED phaseVars
    /\ UNCHANGED <<everywhere, acquiring, acquired, slotVars, threadVars, sharedVars, streamVars,
                   received, readerOpen, failures, interrupts>>

\* Mutant: a request is only polled.
EverywhereUnasked(due) == due \/ \A r \in Up : watch[r] = 0

Everywhere(due) == asked \/ due \/ \A r \in Up : watch[r] = 0

\* Which receivers check their stations: all when asked, when rescan_min elapsed
\* (any time after the first acquisition, always before it) or when none has a
\* station; otherwise those without stations, which have just connected again.
Decide ==
    /\ pc = "decide"
    /\ \E due \in BOOLEAN :
        /\ acquired \/ due
        /\ everywhere' = Everywhere(due)
    /\ acquiring' = IF everywhere' THEN Up ELSE {r \in Up : watch[r] = 0}
    /\ Go(IF acquiring' = {} THEN "maintain" ELSE "acquire")
    /\ UNCHANGED <<phaseVars, iteration, asked, acquired, slotVars, threadVars, sharedVars,
                   streamVars, worldVars>>

Acquire ==
    /\ pc = "acquire"
    /\ Publish("acquisition_started", "spawn")
    /\ IF readerOpen THEN Spawn(acquiring, "scan") ELSE UNCHANGED phaseVars
    /\ UNCHANGED <<cycleVars, slotVars, threadVars, sharedVars, reported, reason, listed, worldVars>>

PublishWatchlist ==
    /\ pc = "listed"
    /\ acquired' = (acquired \/ everywhere)
    /\ Publish("watchlist_updated", "maintain")
    /\ UNCHANGED <<phaseVars, iteration, asked, everywhere, acquiring, slotVars, threadVars,
                   sharedVars, reported, reason, listed, worldVars>>

Maintain ==
    /\ pc = "maintain"
    /\ Publish("maintenance_started", "spawn")
    /\ IF readerOpen THEN Spawn({r \in Up : watch[r] > 0}, "hop") ELSE UNCHANGED phaseVars
    /\ recorded' = IF readerOpen THEN <<>> ELSE recorded
    /\ UNCHANGED <<cycleVars, slotVars, threadVars, outbox, lock, reported, reason, listed,
                   worldVars>>

\* What the hop jobs counted in slot.new_obs, as pairs: one for each observation.
Observations(slots, counted) == UNION {{r} \X (1..counted[r]) : r \in slots}

\* _complete_cycle: evaluate the consensus once, publish what it says.
CompleteCycle ==
    /\ pc = "complete"
    /\ Publish("cycle_completed", "cycleEnd")
    /\ \/ ~readerOpen /\ UNCHANGED <<reported, listed>>
       \/ /\ readerOpen
          /\ reported' = Cardinality(Observations(running, newObs))
          /\ listed' = watch
    /\ UNCHANGED <<phaseVars, cycleVars, slotVars, threadVars, sharedVars, reason, worldVars>>

EndCycle ==
    /\ pc = "cycleEnd"
    /\ Go(IF iteration >= Iterations THEN "final" ELSE "iterate")
    /\ UNCHANGED <<phaseVars, cycleVars, slotVars, threadVars, sharedVars, streamVars, worldVars>>

PublishStopped(why, there) ==
    /\ Publish("recon_stopped", there)
    /\ reason' = IF readerOpen THEN why ELSE reason
    /\ UNCHANGED <<phaseVars, cycleVars, slotVars, threadVars, sharedVars, reported, listed, worldVars>>

\* The last step of _complete_cycle, still inside run()'s try block.
PublishFinished == pc = "final" /\ PublishStopped("iterations", "leave")

LeaveLoop ==
    /\ pc = "leave" /\ Raise
    /\ UNCHANGED <<phaseVars, cycleVars, slotVars, threadVars, sharedVars, streamVars, worldVars>>

-----------------------------------------------------------------------------
(* run and _stop                                                             *)

\* _stop, in the handler or the finally clause: under _slots_lock, and every
\* client is interrupted before the wait begins.
Stop ==
    /\ \/ pc = "handlerStop" /\ pc' = "handlerClose"
       \/ pc = "finalStop" /\ pc' = "finalClose"
    /\ stopping' = TRUE
    /\ UNCHANGED <<phaseVars, cycleVars, slotVars, threadVars, sharedVars, streamVars, worldVars>>

\* Mutant: the stop waits for every thread, however long.
StopCloseAfterAll ==
    /\ \A r \in Slots : thread[r] \in {"none", "ended"}
    /\ \/ pc = "handlerClose" /\ Go("say")
       \/ pc = "finalClose" /\ Go("over")
    /\ client' = [r \in Slots |-> FALSE]
    /\ UNCHANGED <<phaseVars, cycleVars, watch, newObs, threadVars, sharedVars, streamVars, worldVars>>

\* The wait for the threads ends with the last of them or at its deadline; then
\* the receivers are closed.
StopClose ==
    /\ \/ pc = "handlerClose" /\ Go("say")
       \/ pc = "finalClose" /\ Go("over")
    /\ client' = [r \in Slots |-> FALSE]
    /\ UNCHANGED <<phaseVars, cycleVars, watch, newObs, threadVars, sharedVars, streamVars, worldVars>>

PublishInterrupted == pc = "say" /\ PublishStopped("interrupted", "finalStop")

\* Ctrl+C in the try block, again in its handler, or in the finally clause.
Interrupt ==
    /\ interrupts < MaxInterrupts /\ interrupts' = interrupts + 1
    /\ \/ pc \in LoopPoints /\ Go("handlerStop")
       \/ pc \in HandlerPoints /\ Go("finalStop")
       \/ pc \in FinalPoints /\ Go("over")
    /\ UNCHANGED <<phaseVars, cycleVars, slotVars, threadVars, sharedVars, streamVars,
                   received, seen, readerOpen, failures>>

-----------------------------------------------------------------------------
(* The receiver threads.  Each reports through the outbox and, as its last   *)
(* act, queues the sentinel.                                                 *)

\* Mutant: the job's wrapper does not queue the sentinel.
FinishSilently(r) ==
    /\ thread' = [thread EXCEPT ![r] = "ended"]
    /\ UNCHANGED outbox

\* The job's wrapper: however the job ended, the sentinel is queued last.
Finish(r) ==
    /\ thread' = [thread EXCEPT ![r] = "ended"]
    /\ outbox' = Append(outbox, Finished)

\* _connect: a connection that completes after the stop is closed, not kept.
Connected(r) ==
    /\ thread[r] = "connecting"
    /\ client' = [client EXCEPT ![r] = ~stopping]
    /\ Finish(r)
    /\ UNCHANGED <<controlVars, phaseVars, cycleVars, watch, newObs, todo, lock, recorded,
                   streamVars, worldVars>>

\* _scan_listed: one capture per listed station; at the end those with RDS stay.
\* A stop makes the next capture fail, and one that was made before is reported.
ScanStation(r) ==
    /\ thread[r] = "scanning" /\ todo[r] > 0
    /\ todo' = [todo EXCEPT ![r] = @ - 1]
    /\ outbox' = Append(outbox, ScanStep)
    /\ UNCHANGED <<controlVars, phaseVars, cycleVars, slotVars, thread, lock, recorded,
                   streamVars, worldVars>>

ScanEnds(r) ==
    /\ thread[r] = "scanning" /\ todo[r] = 0
    /\ \E n \in 0..Listed[r] : watch' = [watch EXCEPT ![r] = n]
    /\ Finish(r)
    /\ UNCHANGED <<controlVars, phaseVars, cycleVars, client, newObs, todo, lock, recorded,
                   streamVars, worldVars>>

\* hop_collect_ct: capture and decode without the lock.
HopCapture(r) ==
    /\ thread[r] = "hopping" /\ todo[r] > 0
    /\ thread' = [thread EXCEPT ![r] = "captured"]
    /\ UNCHANGED <<controlVars, phaseVars, cycleVars, slotVars, todo, sharedVars, streamVars,
                   worldVars>>

\* Mutant: the consensus lock is not taken.
LockIgnored == TRUE
LockFree == lock = Nobody

\* With the lock: the result enters the consensus if its CT has an instant ...
HopRecord(r) ==
    /\ thread[r] = "captured" /\ LockFree
    /\ lock' = r
    /\ \E entered \in BOOLEAN : recorded' = Append(recorded, Result(r, entered))
    /\ thread' = [thread EXCEPT ![r] = "recording"]
    /\ UNCHANGED <<controlVars, phaseVars, cycleVars, slotVars, todo, outbox, streamVars,
                   worldVars>>

\* Mutant: every station reported counts as an observation.
CountReport(result) == 1
CountEntered(result) == IF result.entered THEN 1 ELSE 0

OfSlot(r) == [type : {"hop_result"}, slot : {r}, entered : BOOLEAN]
LatestOf(r) == recorded[SelectLastInSeq(recorded, LAMBDA result : result \in OfSlot(r))]

\* ... and is counted and queued before the lock is released.
HopReport(r) ==
    /\ thread[r] = "recording"
    /\ LET result == LatestOf(r) IN
        /\ outbox' = Append(outbox, result)
        /\ newObs' = [newObs EXCEPT ![r] = @ + CountEntered(result)]
    /\ lock' = Nobody
    /\ todo' = [todo EXCEPT ![r] = @ - 1]
    /\ thread' = [thread EXCEPT ![r] = "hopping"]
    /\ UNCHANGED <<controlVars, phaseVars, cycleVars, client, watch, recorded, streamVars,
                   worldVars>>

HopEnds(r) ==
    /\ thread[r] = "hopping" /\ todo[r] = 0
    /\ Finish(r)
    /\ UNCHANGED <<controlVars, phaseVars, cycleVars, slotVars, todo, lock, recorded,
                   streamVars, worldVars>>

\* A receiver can fail whenever its thread uses it; a stop makes it fail.
UsesReceiver(r) ==
    \/ thread[r] = "connecting"
    \/ thread[r] \in {"scanning", "hopping"} /\ todo[r] > 0

\* An OSError is kept for the report, any other error ends the run.
Failure(r) ==
    \/ failed' = failed \cup {r} /\ UNCHANGED crashed
    \/ crashed' = TRUE /\ UNCHANGED failed

JobFails(r) ==
    /\ UsesReceiver(r)
    /\ \/ stopping /\ UNCHANGED failures
       \/ failures < MaxFailures /\ failures' = failures + 1
    /\ Failure(r)
    /\ Finish(r)
    /\ UNCHANGED <<controlVars, phase, running, toStart, remaining, cycleVars, slotVars, todo,
                   lock, recorded, streamVars, received, seen, readerOpen, interrupts>>

-----------------------------------------------------------------------------
(* The world.                                                                *)

\* SIGUSR1: _RescanRequests.handle.
RequestRescan ==
    /\ received < MaxRescans /\ received' = received + 1
    /\ UNCHANGED <<controlVars, phaseVars, cycleVars, slotVars, threadVars, sharedVars,
                   streamVars, seen, readerOpen, failures, interrupts>>

ReaderCloses ==
    /\ readerOpen /\ readerOpen' = FALSE
    /\ UNCHANGED <<controlVars, phaseVars, cycleVars, slotVars, threadVars, sharedVars,
                   streamVars, received, seen, failures, interrupts>>

-----------------------------------------------------------------------------

RunStep ==
    \/ ConnectAll \/ StartThread \/ AllStarted \/ WriteQueued \/ Joined
    \/ ReportFailure \/ AllReported \/ Require \/ PublishStarted
    \/ BeginIteration \/ Decide \/ Acquire \/ PublishWatchlist \/ Maintain
    \/ CompleteCycle \/ EndCycle \/ PublishFinished \/ LeaveLoop
    \/ Stop \/ StopClose \/ PublishInterrupted

ThreadStep(r) ==
    \/ Connected(r) \/ ScanStation(r) \/ ScanEnds(r) \/ HopCapture(r)
    \/ HopRecord(r) \/ HopReport(r) \/ HopEnds(r) \/ JobFails(r)

World == Interrupt \/ RequestRescan \/ ReaderCloses

Next == RunStep \/ World \/ \E r \in Slots : ThreadStep(r)

Init0 == Init /\ [][Next]_vars

\* The loop's thread runs; the receivers may hang for ever.
Spec == Init0 /\ WF_vars(RunStep)

\* Every read and connect is bounded by a timeout or the capture grace, and the
\* consensus lock is held only for steps that do not block.
ReceiversAnswer == \A r \in Slots : WF_vars(ThreadStep(r))

-----------------------------------------------------------------------------

EnteredResults == [type : {"hop_result"}, slot : Slots, entered : {TRUE}]

\* The stream of records is one that ReconStream allows: in order, with the
\* iterations of the cycle they belong to, and cycle_completed counts exactly the
\* hop_results before it that entered the consensus, even when a receiver failed
\* after some of them.
Stream == INSTANCE ReconStream WITH entered <- Count(told, EnteredResults)
StreamInOrder == Stream!Spec

\* "The reports follow the consensus order": the hop_results that have been written, and
\* then those queued, are what entered the consensus, in that order, but for the one being
\* reported.
HopsUpTo(i) == Count(SubSeq(outbox, 1, i), Results)
Entered == IF lock = Nobody THEN recorded ELSE Front(recorded)

\* The place of a report in the stream is its place in the consensus (_record_station under
\* the consensus lock, _Outbox).
ReportsFollowConsensus ==
    readerOpen =>
        /\ Len(told) + Count(outbox, Results) = Len(Entered)
        /\ \A i \in DOMAIN told : told[i] = Entered[i]
        /\ \A i \in DOMAIN outbox :
            outbox[i] \in Results => outbox[i] = Entered[Len(told) + HopsUpTo(i)]

\* Phases do not overlap: between them no thread runs and nothing is queued, so
\* no record of a phase is written after it and no sentinel is left over.
PhasesDoNotOverlap ==
    pc \in LoopPoints \ {"spawn", "wait"} =>
        outbox = <<>> /\ lock = Nobody /\ \A r \in Slots : thread[r] \in {"none", "ended"}

\* A receiver that failed leaves the watchlist with its stations: the loop never
\* plans, and never uses, stations of a receiver that is not connected.
StationsHaveReceiver ==
    pc \in LoopPoints =>
        \A r \in Slots : watch[r] > 0 => client[r]

\* cycle_completed lists a station only if its receiver got through all of its
\* stations in this pass: each of them has its hop_result in the stream.
ListedStationsWereHopped ==
    stage = "cycle_completed" =>
        \A r \in Slots : listed[r] > 0 => Count(told, OfSlot(r)) = listed[r]

\* A receiver that connected again has its stations checked before the pass of
\* that iteration, and a rescan request consumed has those of every receiver.
CheckedBeforeHopping ==
    pc = "maintain" =>
        \A r \in Up : watch[r] = 0 \/ asked => r \in acquiring

\* However a receiver fails and comes back, the watchlist holds what connected
\* receivers can hop, checked when it must be, and a cycle lists what they did hop.
WatchlistFollowsReceivers ==
    StationsHaveReceiver /\ ListedStationsWereHopped /\ CheckedBeforeHopping

\* A stop ends, whatever the receivers do: it waits a bounded time for them.
StopIsBounded == (pc \in HandlerPoints \cup FinalPoints) ~> pc = "over"

\* A run with a number of iterations ends, whatever fails in it, if no receiver
\* hangs for ever.
RunEnds == ReceiversAnswer => <>(pc = "over")

=============================================================================
