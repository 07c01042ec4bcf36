------------------------------- MODULE Desktop -------------------------------
(***************************************************************************)
(* The desktop window (gui.py) and the terminal dashboard (tui.py) over a  *)
(* `recon --jsonl' child.  Both run in one thread.  In the window a reader *)
(* thread queues the child's lines, a signal only counts, and a poll takes *)
(* what has come; in the terminal a coroutine applies the lines, also      *)
(* while another one stops the child.  Either view can be paused.          *)
(***************************************************************************)
EXTENDS Naturals, Sequences

CONSTANTS
    Fronts,                  \* which of {"window", "terminal"}
    LogLines,                \* LOG_LINES
    PipeSize,                \* lines the child's stdout pipe holds
    MaxEvents, MaxSignals, MaxKeys      \* bounds of a behaviour

ASSUME FrontsAssumption == Fronts \subseteq {"window", "terminal"}
ASSUME BoundsAssumption ==
    /\ LogLines \in Nat \ {0} /\ PipeSize \in Nat \ {0}
    /\ MaxEvents \in Nat /\ MaxSignals \in Nat /\ MaxKeys \in Nat

VARIABLES
    front, ui,               \* which dashboard, and what its thread does
    paused, log, held,       \* messages by their number
    count, applied, shown,   \* messages so far; records applied, and those in the view
    received, handled,       \* _signals, _handled
    stopRequested, failed,
    ready, stopped, exited,  \* DashboardState, and that its exit was judged
    inbox, reader,           \* the window's queue and the thread that fills it
    child, cause, sigint, pipe, events,
    keys,                    \* p and r pressed
    pausedAt, late           \* history: messages before the pause; the child ended after a stop

logVars == <<paused, log, held, count, pausedAt>>
viewVars == <<applied, shown, ready, stopped, exited, failed>>
signalVars == <<received, handled>>
readerVars == <<inbox, reader>>
childVars == <<child, cause, sigint, events, late>>
vars == <<front, ui, keys, logVars, viewVars, signalVars, stopRequested, readerVars, childVars, pipe>>

Signals == {"int", "usr1"}

TypeOK ==
    /\ front \in Fronts
    /\ ui \in {"start", "loop", "drain", "int", "usr1", "stop", "join", "over"}
    /\ paused \in BOOLEAN /\ count \in Nat /\ pausedAt \in 0..count /\ keys \in 0..MaxKeys
    /\ log \in Seq(1..count) /\ Len(log) <= LogLines
    /\ held \in Seq(1..count) /\ Len(held) <= LogLines
    /\ applied \in Nat /\ shown \in 0..applied
    /\ received \in [Signals -> 0..MaxSignals] /\ handled \in [Signals -> 0..MaxSignals]
    /\ {stopRequested, failed, ready, stopped, exited, sigint, late} \subseteq BOOLEAN
    /\ inbox \in Seq({"recon_started", "event", "recon_stopped", "exit"})
    /\ reader \in {"none", "reading", "done"}
    /\ child \in {"none", "loading", "running", "said", "ended"} /\ events \in 0..MaxEvents
    /\ cause \in {"none", "clean", "crash", "interrupted", "signal", "killed"}
    /\ pipe \in Seq({"recon_started", "event", "recon_stopped"}) /\ Len(pipe) <= PipeSize

Init ==
    /\ front \in Fronts /\ ui = "start"
    /\ paused = FALSE /\ log = <<>> /\ held = <<>> /\ count = 0 /\ pausedAt = 0 /\ keys = 0
    /\ applied = 0 /\ shown = 0
    /\ ready = FALSE /\ stopped = FALSE /\ exited = FALSE /\ failed = FALSE
    /\ received = [s \in Signals |-> 0] /\ handled = [s \in Signals |-> 0]
    /\ stopRequested = FALSE
    /\ inbox = <<>> /\ reader = "none"
    /\ child = "none" /\ cause = "none" /\ sigint = FALSE /\ events = 0 /\ late = FALSE
    /\ pipe = <<>>

-----------------------------------------------------------------------------
(* The child: ReconLoop from outside.                                        *)

Running == child \notin {"none", "ended"}

Write(line) == Len(pipe) < PipeSize /\ pipe' = Append(pipe, line)

Ends(why) ==
    /\ child' = "ended" /\ cause' = why /\ sigint' = FALSE
    /\ late' = (ui \in {"stop", "join", "over"})

\* It starts, reports, says how its run ended (also on SIGINT) and exits; or it fails.
\* A SIGINT during the start or after the last record is a traceback.
ChildStep ==
    /\ \/ child = "loading" /\ Write("recon_started") /\ child' = "running"
          /\ UNCHANGED <<cause, sigint, events, late>>
       \/ child = "running" /\ events < MaxEvents /\ Write("event") /\ events' = events + 1
          /\ UNCHANGED <<child, cause, sigint, late>>
       \/ child = "running" /\ Write("recon_stopped") /\ child' = "said" /\ sigint' = FALSE
          /\ UNCHANGED <<cause, events, late>>
       \/ child = "said" /\ Ends("clean") /\ UNCHANGED <<pipe, events>>
       \/ child \in {"loading", "said"} /\ sigint /\ Ends("interrupted") /\ UNCHANGED <<pipe, events>>
       \/ child \in {"loading", "running"} /\ Ends("crash") /\ UNCHANGED <<pipe, events>>
    /\ UNCHANGED <<front, ui, keys, logVars, viewVars, signalVars, stopRequested, readerVars>>

\* Mutant: the end is reported before the last lines are read.
AtExit == child = "ended"

\* The lines are read to the end of the stream before the exit status is.
AtEof == pipe = <<>> /\ child = "ended"

QueueLine ==
    /\ reader = "reading" /\ pipe # <<>>
    /\ inbox' = Append(inbox, Head(pipe)) /\ pipe' = Tail(pipe)
    /\ UNCHANGED <<front, ui, keys, logVars, viewVars, signalVars, stopRequested, reader, childVars>>

QueueExit ==
    /\ reader = "reading" /\ AtEof
    /\ inbox' = Append(inbox, "exit") /\ reader' = "done"
    /\ UNCHANGED <<front, ui, keys, logVars, viewVars, signalVars, stopRequested, childVars, pipe>>

-----------------------------------------------------------------------------
(* Messages and the view                                                     *)

Latest(messages) ==
    IF Len(messages) <= LogLines THEN messages
    ELSE SubSeq(messages, Len(messages) - LogLines + 1, Len(messages))

\* _log: n new messages, which a paused view holds.
Log(n) ==
    LET new == [i \in 1..n |-> count + i]
    IN  /\ count' = count + n
        /\ IF paused THEN held' = Latest(held \o new) /\ UNCHANGED log
           ELSE log' = Latest(log \o new) /\ UNCHANGED held
        /\ UNCHANGED <<paused, pausedAt>>

Refresh(version) == shown' = IF paused THEN shown ELSE version

\* exit_failed
ExitFailed == ~stopRequested /\ (cause # "clean" \/ ~stopped)

\* apply_line; exit_failed and receiver_exited, which is quiet after a clean stop.
Apply(item) ==
    /\ ready' = (ready \/ item = "recon_started")
    /\ stopped' = (stopped \/ item = "recon_stopped")
    /\ exited' = (exited \/ item = "exit")
    /\ failed' = IF item = "exit" THEN ExitFailed ELSE failed
    /\ Log(IF item = "exit" /\ cause = "clean" THEN 0 ELSE 1)
    /\ applied' = applied + 1

CanRescan == ready /\ ~stopped /\ ~exited

\* SIGUSR1 ends a child that has restored its default action.  The terminal has no
\* message for a child that has just ended.
Rescan ==
    /\ \/ UNCHANGED <<child, cause, sigint, late>>
       \/ CanRescan /\ child = "said" /\ Ends("signal")
    /\ Log(IF front = "terminal" /\ CanRescan /\ ~Running THEN 0 ELSE 1)
    /\ UNCHANGED <<stopRequested, readerVars, pipe, events>>

\* Mutant: the held messages are logged while the view is still paused.
ResumePaused == held' = <<>> /\ UNCHANGED log

\* What was held is logged.
Resume == held' = <<>> /\ log' = Latest(log \o held)

TogglePause ==
    /\ ui = "loop" /\ paused' = ~paused
    /\ IF paused THEN Resume /\ shown' = applied /\ UNCHANGED pausedAt
       ELSE pausedAt' = count /\ UNCHANGED <<log, held, shown>>
    /\ UNCHANGED <<front, ui, count, applied, ready, stopped, exited, failed, signalVars,
                   stopRequested, readerVars, childVars, pipe>>

-----------------------------------------------------------------------------
(* Starting and stopping                                                     *)

Start ==
    /\ ui = "start" /\ ui' = "loop"
    /\ \/ child' = "loading" /\ reader' = (IF front = "window" THEN "reading" ELSE "none")
          /\ UNCHANGED <<failed, exited, logVars>>
       \/ failed' = TRUE /\ exited' = TRUE /\ Log(1) /\ UNCHANGED <<child, reader>>
    /\ UNCHANGED <<front, keys, applied, shown, ready, stopped, signalVars, stopRequested, inbox,
                   cause, sigint, events, late, pipe>>

\* Mutant: the request is not noted.
Unrequested(runs) == stopRequested

\* The window asks in any case, the terminal only a child that runs.
Requested(runs) == stopRequested \/ front = "window" \/ runs

\* WM_DELETE_WINDOW, q, or SIGINT: close(), or _stop_receiver.  The terminal's event
\* loop may learn later than the system that the child has ended.
BeginStop ==
    /\ \E runs \in {Running, Running \/ (front = "terminal" /\ child = "ended" /\ ~exited)} :
          ui' = (IF runs THEN "stop" ELSE "join") /\ stopRequested' = Requested(runs)
    /\ sigint' = (sigint \/ Running)
    /\ UNCHANGED <<front, logVars, viewVars, readerVars, child, cause, events, late, pipe>>

\* The child ends within stop_timeout_s, or it is killed, which the terminal reports.
StopEnds ==
    /\ ui = "stop" /\ ui' = "join"
    /\ \/ ~Running /\ UNCHANGED <<child, cause, sigint, late, logVars>>
       \/ Running /\ Ends("killed") /\ Log(IF front = "window" THEN 0 ELSE 1)
    /\ UNCHANGED <<front, keys, viewVars, signalVars, stopRequested, readerVars, events, pipe>>

\* The readers are given time, but nothing that they queue is applied any more.
Leave ==
    /\ ui = "join" /\ ui' = "over"
    /\ UNCHANGED <<front, keys, logVars, viewVars, signalVars, stopRequested, readerVars, childVars, pipe>>

-----------------------------------------------------------------------------
(* The window                                                                *)

Poll ==
    /\ front = "window" /\ ui = "loop" /\ ui' = "drain"
    /\ UNCHANGED <<front, keys, logVars, viewVars, signalVars, stopRequested, readerVars, childVars, pipe>>

Drain ==
    /\ ui = "drain" /\ inbox # <<>>
    /\ inbox' = Tail(inbox) /\ Apply(Head(inbox))
    /\ UNCHANGED <<front, ui, keys, shown, signalVars, stopRequested, reader, childVars, pipe>>

\* Mutant: a poll that found no record ends there.
AfterDrain == IF shown = applied THEN "loop" ELSE "int"

Drained == "int"
DrainEnds ==
    /\ ui = "drain" /\ inbox = <<>> /\ ui' = Drained
    /\ UNCHANGED <<front, keys, logVars, viewVars, signalVars, stopRequested, readerVars, childVars, pipe>>

\* _take_signal marks the count that it read.
Pending(s) == received[s] # handled[s]
Take(s) == handled' = [handled EXCEPT ![s] = received[s]] /\ UNCHANGED received

TakeSigInt ==
    /\ ui = "int" /\ UNCHANGED keys
    /\ IF Pending("int") THEN Take("int") /\ BeginStop
       ELSE /\ ui' = "usr1"
            /\ UNCHANGED <<front, logVars, viewVars, signalVars, stopRequested, readerVars,
                           childVars, pipe>>

TakeSigUsr1 ==
    /\ ui = "usr1" /\ ui' = "loop" /\ Refresh(applied)
    /\ IF Pending("usr1") THEN Take("usr1") /\ Rescan
       ELSE UNCHANGED <<signalVars, logVars, stopRequested, readerVars, childVars, pipe>>
    /\ UNCHANGED <<front, keys, applied, ready, stopped, exited, failed>>

-----------------------------------------------------------------------------
(* The terminal                                                              *)

InTerminal == front = "terminal" /\ ui \in {"start", "loop", "stop", "join"}

FollowLine ==
    /\ InTerminal /\ pipe # <<>> /\ pipe' = Tail(pipe)
    /\ Apply(Head(pipe)) /\ Refresh(applied + 1)
    /\ UNCHANGED <<front, ui, keys, signalVars, stopRequested, readerVars, childVars>>

FollowExit ==
    /\ InTerminal /\ child # "none" /\ AtEof /\ ~exited
    /\ Apply("exit") /\ Refresh(applied + 1)
    /\ UNCHANGED <<front, ui, keys, signalVars, stopRequested, readerVars, childVars, pipe>>

\* The loop's handler of SIGUSR1 is the action of the key.
LoopSigUsr1 ==
    /\ InTerminal /\ Pending("usr1") /\ Take("usr1") /\ Rescan
    /\ UNCHANGED <<front, ui, keys, viewVars>>

-----------------------------------------------------------------------------

\* A signal to the dashboard; Ctrl+C in the window's terminal also reaches the child.
Signal(s) ==
    /\ ui # "over" /\ received[s] < MaxSignals
    /\ s = "int" => front = "window"
    /\ received' = [received EXCEPT ![s] = @ + 1]
    /\ sigint' \in {sigint, sigint \/ (s = "int" /\ Running)}
    /\ UNCHANGED <<front, ui, keys, logVars, viewVars, handled, stopRequested, readerVars, child, cause,
                   events, late, pipe>>

Keys ==
    /\ keys < MaxKeys /\ keys' = keys + 1
    /\ \/ TogglePause
       \/ ui = "loop" /\ Rescan /\ UNCHANGED <<front, ui, viewVars, signalVars>>
KeyQuit == ui = "loop" /\ BeginStop /\ UNCHANGED <<keys, signalVars>>

Ui == \/ Start \/ StopEnds \/ Leave
      \/ Poll \/ Drain \/ DrainEnds \/ TakeSigInt \/ TakeSigUsr1
      \/ FollowLine \/ FollowExit \/ LoopSigUsr1
User == Keys \/ KeyQuit \/ \E s \in Signals : Signal(s)

Next == Ui \/ User \/ ChildStep \/ QueueLine \/ QueueExit

\* The dashboard's thread runs.  The child, the reader and the user may stop for ever.
Fairness == WF_vars(Ui) /\ WF_vars(LoopSigUsr1)

Spec == Init /\ [][Next]_vars /\ Fairness

-----------------------------------------------------------------------------
(* Properties                                                                *)

Numbers(from, to) == [i \in 1..(to - from) |-> from + i]

\* The log shows the latest messages and only those, in their order, whatever a pause
\* held back and however it overflowed, and a view that is not paused is up to date
\* between polls (_log, toggle_pause, action_pause, _poll).
ScreenIsLatest ==
    IF paused THEN /\ log = Latest(Numbers(0, pausedAt))
                   /\ held = Latest(Numbers(pausedAt, count))
    ELSE /\ held = <<>> /\ log = Latest(Numbers(0, count))
         /\ ui = "loop" => shown = applied

\* What makes the exit status 1 is a child that did not start, or that ended uncleanly before
\* the user asked it to stop, never one whose recon_stopped was still queued (exit_failed).
\* Not every such end is the child's own: a rescan's SIGUSR1 may hit a child that has written
\* recon_stopped.  An unclean end that is judged before a stop is a failure; a stop drops the
\* ones that are still queued, or not judged yet (close, _stop_receiver).
FailureIsUncleanEnd ==
    /\ failed /\ child # "none" =>
          /\ child = "ended" /\ ~late
          /\ cause \in {"crash", "interrupted"} \/ (cause = "signal" /\ ready)
    /\ exited /\ cause # "clean" /\ ~stopRequested => failed

\* The queue gives out from time to time: a child that always writes faster than a poll
\* applies its records would keep _poll in its loop over get_nowait, away from the signals.
QueueGivesOut == []<>(inbox = <<>> \/ ui = "over")

\* If it does, a SIGUSR1 is taken up and a SIGINT closes the window, whether or not the child
\* still writes or ever ends, and whatever else was counted (_count_signal, _poll, close).
SignalsAreServed ==
    QueueGivesOut =>
        /\ \A s \in Signals : received[s] # handled[s] ~> received[s] = handled[s] \/ ui = "over"
        /\ received["int"] > 0 ~> ui = "over"

=============================================================================
