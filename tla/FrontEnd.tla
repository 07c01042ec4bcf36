------------------------------ MODULE FrontEnd ------------------------------
(***************************************************************************)
(* The browser dashboard (web.run_web, web.WebDashboard) with the child    *)
(* `recon --jsonl' it follows (dashboard.ReceiverProcess).                 *)
(*                                                                         *)
(* The main thread starts the child, serves, and on Ctrl+C or SIGTERM      *)
(* closes.  A reader thread applies the child's lines and judges its exit. *)
(* One thread per open page streams the view and sleeps on the condition   *)
(* variable `changed'; a thread per rescan request signals the child.      *)
(* What happens under the lock of `changed' is one step, except a rescan   *)
(* request: it holds the lock while the child may move under it.           *)
(*                                                                         *)
(* The child is ReconLoop seen from outside: its lines, and what a signal  *)
(* does to it at each stage of its life.                                   *)
(***************************************************************************)
EXTENDS Naturals, Sequences

CONSTANTS
    Streams,        \* open pages
    Requesters,     \* threads that may request a rescan
    NoOne,          \* the lock is free
    PipeSize,       \* lines the child's stdout pipe holds
    MaxEvents,      \* bound: lines between recon_started and recon_stopped
    MaxRescans,     \* bound: rescans sent
    MaxInterrupts   \* bound: Ctrl+C and SIGTERM deliveries

ASSUME NumbersAssumption ==
    PipeSize \in Nat \ {0} /\ MaxEvents \in Nat /\ MaxRescans \in Nat /\ MaxInterrupts \in Nat
ASSUME NoOneAssumption == NoOne \notin Requesters

VARIABLES
    main,                         \* control point of run_web
    status,                       \* its exit status, or the traceback or signal it ends with
    process, threads,             \* receiver.process is set; receiver._threads
    reader,                       \* the thread of ReceiverProcess._follow
    closing, stopRequested, failed,
    lock, version,                \* the condition variable's lock; the state's version
    ready, stopped, phase,        \* DashboardState
    stream, seen, sent, notified, \* each page's thread: point, version taken, version sent
    rescans, interrupts,
    child, sigint,                \* stage of the child; SIGINT waits for it
    pipe, readEnd,                \* its stdout, and whether our end is open
    said, events,                 \* it wrote recon_stopped; lines written
    cause, late                   \* why it ended, and whether after stopRequested

mainVars   == <<main, status, process, threads>>
closeVars  == <<closing, stopRequested>>
stateVars  == <<ready, stopped, phase>>
streamVars == <<stream, seen, sent>>
childVars  == <<child, sigint, said, events, cause, late>>
pipeVars   == <<pipe, readEnd>>
counters   == <<rescans, interrupts>>
vars == <<mainVars, reader, closeVars, failed, lock, version, stateVars, streamVars, notified,
          childVars, pipeVars, counters>>

Starting == {"popen", "spawned", "listed"}
Closing == {"close", "stop", "wait", "join"}

\* A rescan request, a line, an exit and a failed start each publish once.
MaxVersion == MaxEvents + MaxRescans + 4

TypeOK ==
    /\ main \in Starting \cup Closing \cup {"serving", "over"}
    /\ status \in {"none", "0", "1", "traceback", "signal"}
    /\ process \in BOOLEAN /\ threads \in {"none", "listed", "started"}
    /\ reader \in {"none", "reading", "done", "dead"}
    /\ closing \in BOOLEAN /\ stopRequested \in BOOLEAN /\ failed \in BOOLEAN
    /\ lock \in Requesters \cup {NoOne} /\ version \in 0..MaxVersion
    /\ ready \in BOOLEAN /\ stopped \in BOOLEAN
    /\ phase \in {"STARTING", "ACQUISITION", "STOPPED"}
    /\ stream \in [Streams -> {"none", "check", "snapshot", "write", "enter", "waiting", "done"}]
    /\ seen \in [Streams -> 0..version] /\ sent \in [Streams -> 0..version]
    /\ notified \in [Streams -> BOOLEAN]
    /\ rescans \in 0..MaxRescans /\ interrupts \in 0..MaxInterrupts
    /\ child \in {"unstarted", "loading", "armed", "running", "stopping", "said", "unarmed",
                  "failing", "ended"}
    /\ sigint \in BOOLEAN /\ said \in BOOLEAN /\ events \in 0..MaxEvents
    /\ pipe \in Seq({"recon_started", "event", "recon_stopped"}) /\ Len(pipe) <= PipeSize
    /\ readEnd \in BOOLEAN
    /\ cause \in {"none", "clean", "crash", "interrupted", "signal", "killed"}
    /\ late \in BOOLEAN

Init ==
    /\ main = "popen" /\ status = "none" /\ process = FALSE /\ threads = "none"
    /\ reader = "none" /\ closing = FALSE /\ stopRequested = FALSE /\ failed = FALSE
    /\ lock = NoOne /\ version = 0
    /\ ready = FALSE /\ stopped = FALSE /\ phase = "STARTING"
    /\ stream = [s \in Streams |-> "none"]
    /\ seen = [s \in Streams |-> 0] /\ sent = [s \in Streams |-> 0]
    /\ notified = [s \in Streams |-> FALSE]
    /\ rescans = 0 /\ interrupts = 0
    /\ child = "unstarted" /\ sigint = FALSE /\ said = FALSE /\ events = 0
    /\ pipe = <<>> /\ readEnd = TRUE /\ cause = "none" /\ late = FALSE

Free == lock = NoOne

\* ReceiverProcess.running
Running == process /\ child # "ended"

NotifyAll == notified' = [s \in Streams |-> notified[s] \/ stream[s] = "waiting"]
Publish == version' = version + 1 /\ NotifyAll

-----------------------------------------------------------------------------
(* The child.  It restores the default SIGUSR1 action when run_recon has     *)
(* returned or raised, and its interpreter then takes a while to exit.       *)

HandlesUsr1 == child \in {"armed", "running", "stopping", "said"}

Ends(why) ==
    /\ child' = "ended" /\ cause' = why /\ late' = stopRequested
    /\ sigint' = FALSE

\* A line written to the pipe; it waits while the pipe is full.
Write(line, then) ==
    /\ readEnd /\ Len(pipe) < PipeSize
    /\ pipe' = Append(pipe, line) /\ child' = then
    /\ UNCHANGED <<readEnd, cause>>

\* Mutant: BrokenPipeError is swallowed and the run goes on.
WriteUnheeded ==
    /\ ~readEnd
    /\ UNCHANGED <<child, cause, pipeVars>>
\* A line written when nobody can read it.
WriteBroken ==
    /\ ~readEnd /\ child' = "failing" /\ cause' = "crash"
    /\ UNCHANGED pipeVars

ChildArms ==
    /\ child = "loading" /\ child' = "armed"
    /\ UNCHANGED <<sigint, said, events, cause, late, pipeVars>>

ChildStarted ==
    /\ child = "armed"
    /\ Write("recon_started", "running") \/ WriteBroken
    /\ UNCHANGED <<sigint, said, events, late>>

ChildEvent ==
    /\ child = "running"
    /\ \/ events < MaxEvents /\ Write("event", "running") /\ events' = events + 1
       \/ WriteBroken /\ UNCHANGED events
    /\ UNCHANGED <<sigint, said, late>>

\* The last iteration is over, or KeyboardInterrupt reached the handler.
ChildSaysStopped ==
    /\ child \in {"running", "stopping"}
    /\ \/ Write("recon_stopped", "said") /\ said' = TRUE
       \/ WriteBroken /\ UNCHANGED said
    /\ UNCHANGED <<sigint, events, late>>

ChildDisarms ==
    /\ child = "said" /\ child' = "unarmed"
    /\ UNCHANGED <<sigint, said, events, cause, late, pipeVars>>

\* The connection, a command or a capture fails; or the arguments do.
ChildFails ==
    /\ child \in {"loading", "armed", "running"} /\ child' = "failing" /\ cause' = "crash"
    /\ UNCHANGED <<sigint, said, events, late, pipeVars>>

\* KeyboardInterrupt: handled where run_recon has its try block, and only once.
ChildTakesSigInt ==
    /\ sigint /\ sigint' = FALSE
    /\ \/ child \in {"armed", "running"} /\ child' = "stopping" /\ UNCHANGED cause
       \/ child \in {"loading", "armed", "stopping", "said", "unarmed"}
             /\ child' = "failing" /\ cause' = "interrupted"
       \/ child \in {"unarmed", "failing"} /\ UNCHANGED <<child, cause>>
    /\ UNCHANGED <<said, events, late, pipeVars>>

ChildExits ==
    /\ \/ child = "unarmed" /\ Ends("clean")
       \/ child = "failing" /\ Ends(cause)
    /\ UNCHANGED <<said, events, pipeVars>>

ChildStep ==
    /\ \/ ChildArms \/ ChildStarted \/ ChildEvent \/ ChildSaysStopped \/ ChildDisarms
       \/ ChildFails \/ ChildTakesSigInt \/ ChildExits
    /\ UNCHANGED <<mainVars, reader, closeVars, failed, lock, version, stateVars, streamVars,
                   notified, counters>>

-----------------------------------------------------------------------------
(* The reader thread                                                         *)

\* DashboardState.apply_line, for the fields a rescan depends on.
Apply(line) ==
    /\ ready' = (ready \/ line = "recon_started")
    /\ stopped' = (stopped \/ line = "recon_stopped")
    /\ phase' = CASE line = "event" -> "ACQUISITION"
                  [] line = "recon_stopped" -> "STOPPED"
                  [] OTHER -> phase

OnLine ==
    /\ reader = "reading" /\ pipe # <<>> /\ Free
    /\ Apply(Head(pipe)) /\ pipe' = Tail(pipe)
    /\ Publish
    /\ UNCHANGED <<mainVars, reader, closeVars, failed, lock, streamVars, childVars, readEnd,
                   counters>>

\* Mutant: `and' for `or'.
ExitFailedBoth == ~stopRequested /\ cause # "clean" /\ ~stopped
\* exit_failed: the exit status is 0 only after a clean end.
ExitFailed == ~stopRequested /\ (cause # "clean" \/ ~stopped)

\* Mutant: the exit is noticed without reading the pipe to its end.
AtExit == child = "ended"
\* _follow reads to the end of the stream, then waits for the process.
AtEof == pipe = <<>> /\ child = "ended"

OnExit ==
    /\ reader = "reading" /\ AtEof /\ Free
    /\ reader' = "done"
    /\ failed' = ExitFailed
    /\ phase' = "STOPPED"
    /\ Publish
    /\ UNCHANGED <<mainVars, closeVars, lock, ready, stopped, streamVars, childVars, pipeVars,
                   counters>>

-----------------------------------------------------------------------------
(* A rescan request, from a page or from SIGUSR1 to the front end            *)

\* Mutant: a started process is taken for a ready receiver.
CanRescanStarted == ~stopped /\ phase # "STOPPED"
CanRescan == ready /\ ~stopped /\ phase # "STOPPED"

\* Refused requests change nothing.
RequestRescan(r) ==
    /\ main # "over" /\ Free /\ CanRescan /\ Running /\ rescans < MaxRescans
    /\ lock' = r /\ rescans' = rescans + 1
    /\ UNCHANGED <<mainVars, reader, closeVars, failed, version, stateVars, streamVars, notified,
                   childVars, pipeVars, interrupts>>

SendRescan(r) ==
    /\ lock = r /\ lock' = NoOne
    /\ IF HandlesUsr1 \/ child = "ended" THEN UNCHANGED <<child, sigint, cause, late>>
       ELSE Ends("signal")
    /\ Publish
    /\ UNCHANGED <<mainVars, reader, closeVars, failed, stateVars, streamVars, said, events,
                   pipeVars, counters>>

-----------------------------------------------------------------------------
(* A page's event stream                                                     *)

Goto(s, point) == stream' = [stream EXCEPT ![s] = point]

Connect(s) ==
    /\ main = "serving" /\ stream[s] = "none" /\ Goto(s, "check")
    /\ UNCHANGED <<seen, sent, notified>>

CheckClosing(s) ==
    /\ stream[s] = "check"
    /\ Goto(s, IF closing THEN "done" ELSE "snapshot")
    /\ UNCHANGED <<seen, sent, notified>>

Snapshot(s) ==
    /\ stream[s] = "snapshot" /\ Free
    /\ seen' = [seen EXCEPT ![s] = version] /\ Goto(s, "write")
    /\ UNCHANGED <<sent, notified>>

WriteView(s) ==
    /\ stream[s] = "write"
    /\ sent' = [sent EXCEPT ![s] = seen[s]] /\ Goto(s, "enter")
    /\ UNCHANGED <<seen, notified>>

\* The page is closed: BrokenPipeError or ConnectionResetError.
Disconnect(s) ==
    /\ stream[s] = "write" /\ Goto(s, "done")
    /\ UNCHANGED <<seen, sent, notified>>

\* wait_for evaluates its predicate on entry and after every notification.
Changed(s) == version # seen[s] \/ closing
\* Mutant: the predicate is not evaluated before waiting.
WaitFirst(s) ==
    /\ stream[s] = "enter" \/ (stream[s] = "waiting" /\ notified[s])
    /\ Free
    /\ Goto(s, IF stream[s] = "waiting" /\ Changed(s) THEN "check" ELSE "waiting")
    /\ notified' = [notified EXCEPT ![s] = FALSE]
    /\ UNCHANGED <<seen, sent>>

WaitForChange(s) ==
    /\ stream[s] = "enter" \/ (stream[s] = "waiting" /\ notified[s])
    /\ Free
    /\ Goto(s, IF Changed(s) THEN "check" ELSE "waiting")
    /\ notified' = [notified EXCEPT ![s] = FALSE]
    /\ UNCHANGED <<seen, sent>>

\* wait_for gives up after TICK_S.
Tick(s) ==
    /\ stream[s] = "waiting" /\ Free /\ Goto(s, "check")
    /\ notified' = [notified EXCEPT ![s] = FALSE]
    /\ UNCHANGED <<seen, sent>>

StreamProgress(s) ==
    /\ CheckClosing(s) \/ Snapshot(s) \/ WriteView(s) \/ WaitForChange(s)
    /\ UNCHANGED <<mainVars, reader, closeVars, failed, lock, version, stateVars, childVars,
                   pipeVars, counters>>

StreamOutside(s) ==
    /\ Connect(s) \/ Disconnect(s) \/ Tick(s)
    /\ UNCHANGED <<mainVars, reader, closeVars, failed, lock, version, stateVars, childVars,
                   pipeVars, counters>>

-----------------------------------------------------------------------------
(* The main thread                                                           *)

PopenSucceeds ==
    /\ main = "popen" /\ main' = "spawned"
    /\ process' = TRUE /\ child' = "loading"
    /\ UNCHANGED <<status, threads, reader, closeVars, failed, lock, version, stateVars,
                   streamVars, notified, sigint, said, events, cause, late, pipeVars, counters>>

\* OSError: shown on the page, and the page is served all the same.
PopenFails ==
    /\ main = "popen" /\ Free /\ main' = "serving"
    /\ failed' = TRUE /\ phase' = "STOPPED" /\ Publish
    /\ UNCHANGED <<status, process, threads, reader, closeVars, lock, ready, stopped,
                   streamVars, childVars, pipeVars, counters>>

ListThreads ==
    /\ main = "spawned" /\ main' = "listed" /\ threads' = "listed"
    /\ UNCHANGED <<status, process, reader, closeVars, failed, lock, version, stateVars,
                   streamVars, notified, childVars, pipeVars, counters>>

StartThreads ==
    /\ main = "listed" /\ main' = "serving" /\ threads' = "started" /\ reader' = "reading"
    /\ UNCHANGED <<status, process, closeVars, failed, lock, version, stateVars, streamVars,
                   notified, childVars, pipeVars, counters>>

\* The process of the front end ends: its threads die and its pipes close.
Over(how) ==
    /\ main' = "over" /\ status' = how
    /\ reader' = IF reader = "done" THEN "done" ELSE "dead"
    /\ stream' = [s \in Streams |-> "done"]
    /\ lock' = NoOne /\ readEnd' = FALSE /\ pipe' = <<>>

\* Ctrl+C in a terminal also reaches the child.  A child whose Popen is interrupted
\* is left without a reader and without a handle.
Interrupted ==
    /\ main \in Starting \cup {"serving"} /\ main' = "close"
    /\ interrupts < MaxInterrupts /\ interrupts' = interrupts + 1
    /\ \/ UNCHANGED <<child, readEnd>> /\ sigint' \in {sigint, child \notin {"unstarted", "ended"}}
       \/ main = "popen" /\ child' = "loading" /\ readEnd' = FALSE /\ sigint' \in BOOLEAN
    /\ UNCHANGED <<status, process, threads, reader, closeVars, failed, lock, version, stateVars,
                   streamVars, notified, said, events, cause, late, pipe, rescans>>

\* A second one leaves the clean-up where it is: Ctrl+C with a traceback, while SIGTERM
\* (or SIGUSR1), whose handlers run_web has restored by then, ends the process outright.
InterruptedAgain ==
    /\ main \in Closing
    /\ interrupts < MaxInterrupts /\ interrupts' = interrupts + 1
    /\ \/ Over("traceback") /\ sigint' \in {sigint, child \notin {"unstarted", "ended"}}
       \/ Over("signal") /\ UNCHANGED sigint
    /\ UNCHANGED <<process, threads, closeVars, failed, version, stateVars, seen, sent, notified,
                   child, said, events, cause, late, rescans>>

\* Mutant: the pages are not told.
CloseQuietly ==
    /\ main = "close" /\ Free /\ main' = "stop"
    /\ closing' = TRUE /\ stopRequested' = TRUE /\ UNCHANGED notified
    /\ UNCHANGED <<status, process, threads, reader, failed, lock, version, stateVars, streamVars,
                   childVars, pipeVars, counters>>

Close ==
    /\ main = "close" /\ Free /\ main' = "stop"
    /\ closing' = TRUE /\ stopRequested' = TRUE /\ NotifyAll
    /\ UNCHANGED <<status, process, threads, reader, failed, lock, version, stateVars, streamVars,
                   childVars, pipeVars, counters>>

\* ReceiverProcess.stop: SIGINT while the child runs.
StopReceiver ==
    /\ main = "stop"
    /\ main' = IF Running THEN "wait" ELSE "join"
    /\ sigint' = (sigint \/ Running)
    /\ UNCHANGED <<status, process, threads, reader, closeVars, failed, lock, version, stateVars,
                   streamVars, notified, child, said, events, cause, late, pipeVars, counters>>

\* Mutant: wait without a limit.
WaitForever ==
    /\ main = "wait" /\ main' = "join" /\ child = "ended"
    /\ UNCHANGED <<status, process, threads, reader, closeVars, failed, lock, version, stateVars,
                   streamVars, notified, childVars, pipeVars, counters>>
\* Mutant: the child is not killed when the wait is over.
WaitAndLeave ==
    /\ main = "wait" /\ main' = "join"
    /\ UNCHANGED <<status, process, threads, reader, closeVars, failed, lock, version, stateVars,
                   streamVars, notified, childVars, pipeVars, counters>>

\* The child ended in time, or it is killed.
WaitOrKill ==
    /\ main = "wait" /\ main' = "join"
    /\ \/ child = "ended" /\ UNCHANGED <<child, sigint, cause, late>>
       \/ child # "ended" /\ Ends("killed")
    /\ UNCHANGED <<status, process, threads, reader, closeVars, failed, lock, version, stateVars,
                   streamVars, notified, said, events, pipeVars, counters>>

\* ReceiverProcess.join: a thread that was listed but not started cannot be joined.
JoinReaders ==
    /\ main = "join"
    /\ Over(IF threads = "listed" THEN "traceback" ELSE IF failed THEN "1" ELSE "0")
    /\ UNCHANGED <<process, threads, closeVars, failed, version, stateVars, seen, sent, notified,
                   childVars, counters>>

MainProgress ==
    \/ PopenSucceeds \/ PopenFails \/ ListThreads \/ StartThreads
    \/ Close \/ StopReceiver \/ WaitOrKill \/ JoinReaders

Next ==
    \/ MainProgress \/ Interrupted \/ InterruptedAgain
    \/ OnLine \/ OnExit
    \/ ChildStep
    \/ \E r \in Requesters: RequestRescan(r) \/ SendRescan(r)
    \/ \E s \in Streams: StreamProgress(s) \/ StreamOutside(s)

\* The threads of the front end run, and open pages read what they are sent.
\* Nothing obliges the child to go on, a page to stay, or wait_for to give up.
Fairness ==
    /\ WF_vars(MainProgress) /\ WF_vars(OnLine) /\ WF_vars(OnExit)
    /\ \A r \in Requesters: WF_vars(SendRescan(r))
    /\ \A s \in Streams: WF_vars(StreamProgress(s))

Spec == Init /\ [][Next]_vars /\ Fairness

-----------------------------------------------------------------------------
(* Properties                                                                *)

\* A page that sleeps has taken the current version, and nothing is being closed: neither
\* a change nor the end slips in between the snapshot and the wait (WebDashboard.snapshot,
\* _publish, close, wait_for_change).
NoWakeUpIsLost ==
    \A s \in Streams: stream[s] = "waiting" /\ ~notified[s] => seen[s] = version /\ ~closing

\* A forwarded SIGUSR1 ends only a child that is already on its way out: one that starts or
\* receives has its handler by the time the front end may send it
\* (DashboardState.can_rescan, WebDashboard.request_rescan, cli._rescan_on_sigusr1).
RescanSparesTheRun ==
    [][cause' = "signal" /\ cause # "signal" => child \in {"unarmed", "failing"}]_vars

\* What is reported as a failure is a child that did not start, or one that ended uncleanly
\* before the front end asked it to stop, never one whose recon_stopped was still in the pipe
\* (ReceiverProcess._follow, close).  Not every unclean end is the child's own: a rescan's
\* SIGUSR1 may hit a child that has written recon_stopped and kill it.
OnlyUncleanEnds ==
    failed => \/ child = "unstarted"
              \/ child = "ended" /\ ~late /\ cause \in {"crash", "interrupted"}
              \/ child = "ended" /\ ~late /\ cause = "signal" /\ ready

\* An unclean end is reported, also when recon_stopped had already arrived (exit_failed):
\* if it is judged while nobody has asked for a stop.  One that is judged later is not.
JudgedUncleanEnds ==
    reader = "done" /\ cause # "clean" /\ ~stopRequested => failed

\* However the end of the child, its last lines, a rescan and a stop interleave, a failure
\* stands for an unclean end before the stop, and an unclean end judged before it for one.
FailureIsUncleanEnd == OnlyUncleanEnds /\ JudgedUncleanEnds

\* A front end that returns an exit status has ended the child whose handle it has, whatever
\* the child was doing when it was interrupted (ReceiverProcess.stop).  A child whose Popen was
\* interrupted has no handle, and outlives the front end until it next writes
\* (ChildDoesNotOutlive).
NoKnownChildIsLeft == status \in {"0", "1"} /\ process => child = "ended"

\* Closing ends, even with a child that is stuck, and with readers that cannot finish
\* (WebDashboard.close).
CloseIsBounded == main \in Closing ~> main = "over"

\* An open page is sent every version or a later one, without help from the one-second
\* timeout of wait_for (WebDashboard._publish, _Handler._stream).
EveryChangeIsShown ==
    \A s \in Streams, v \in 1..MaxVersion:
        version = v /\ stream[s] \notin {"none", "done"}
            ~> sent[s] >= v \/ stream[s] = "done" \/ closing

\* A child that is not stuck ends after its front end, even when the front end was torn
\* away from its clean-up or lost the child's handle (cli._write_event_line: BrokenPipeError).
ChildDoesNotOutlive ==
    WF_vars(ChildStep) => (main = "over" ~> child \in {"unstarted", "ended"})

\* What run_web says: it serves until Ctrl+C or SIGTERM and returns the exit status.
OneInterruptReturns == interrupts <= 1 => status # "traceback"

=============================================================================
