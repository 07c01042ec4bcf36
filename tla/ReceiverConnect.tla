--------------------------- MODULE ReceiverConnect ---------------------------
(***************************************************************************)
(* How a run with several receivers owns its rtl_tcp connections.          *)
(*                                                                         *)
(* Every receiver has one client object at a time (RtlTcpClient), which a  *)
(* receiver thread connects (_MultiReceiverRun._connect, RtlTcpClient.     *)
(* connect) and later reads from (a scan or a hop).  The thread that runs  *)
(* the loop may stop at any moment (_MultiReceiverRun._stop): it collects  *)
(* the clients under _slots_lock, interrupts each one (RtlTcpClient.       *)
(* interrupt, under the client's own lock), waits a bounded time for the   *)
(* threads and closes what the slots still hold.  A connection may finish  *)
(* before, during or after any of these steps.                             *)
(*                                                                         *)
(* Each action is one critical section or one blocking call of the code.   *)
(* A client object is the fields it holds for its slot's current attempt;  *)
(* its socket is known by what the operating system sees of it: open or    *)
(* not, shut down or not.                                                  *)
(***************************************************************************)
EXTENDS Naturals, FiniteSets

CONSTANT Receivers   \* the slots of the run, one per rtl_tcp server

ASSUME ReceiversAssumption == Receivers # {} /\ IsFiniteSet(Receivers)

VARIABLES
    main,         \* control point of the thread that runs the loop
    stopsLeft,    \* how many more times run() calls _stop()
    toStart,      \* slots whose thread _in_parallel has yet to start
    failed,       \* slots whose job raised OSError in this phase
    stopping,     \* _MultiReceiverRun._stopping
    toInterrupt,  \* clients that _stop collected and has yet to interrupt
    toShut,       \* sockets that interrupt() collected and has yet to shut down
    thread,       \* control point of each receiver thread
    slotClient,   \* slot.client is set
    connecting,   \* slot.connecting is set
    sock,         \* client._sock is set
    handshake,    \* client._handshake is set
    interrupted,  \* client._interrupted
    info,         \* client.info is set
    live,         \* slots whose current socket is open in the operating system
    shut          \* slots whose current socket was shut down

mainVars   == <<main, stopsLeft, toStart, failed>>
stopVars   == <<stopping, toInterrupt, toShut>>
slotVars   == <<slotClient, connecting>>
clientVars == <<sock, handshake, interrupted, info>>
osVars     == <<live, shut>>
connectVars == <<mainVars, stopVars, thread, slotVars, clientVars, osVars>>

LoopPoints == {"between", "spawn", "wait", "report"}
StopPoints == {"collect", "wake", "shutdown", "join", "disconnect"}

\* The control points of a connecting thread, of a reading one, and "ended".
ConnectPoints == {"begin", "create", "own", "header", "adopt", "info",
                  "drop", "hand", "orphan"}
ReadPoints == {"read", "recv"}
Ended == "ended"

ConnectTypeOK ==
    /\ main \in LoopPoints \cup StopPoints \cup {"over"}
    /\ stopsLeft \in 0..2
    /\ toStart \in SUBSET Receivers
    /\ failed \in SUBSET Receivers
    /\ stopping \in BOOLEAN
    /\ toInterrupt \in SUBSET Receivers
    /\ toShut \in SUBSET Receivers
    /\ thread \in [Receivers -> ConnectPoints \cup ReadPoints \cup {Ended}]
    /\ slotClient \in [Receivers -> BOOLEAN]
    /\ connecting \in [Receivers -> BOOLEAN]
    /\ sock \in [Receivers -> BOOLEAN]
    /\ handshake \in [Receivers -> BOOLEAN]
    /\ interrupted \in [Receivers -> BOOLEAN]
    /\ info \in [Receivers -> BOOLEAN]
    /\ live \in SUBSET Receivers
    /\ shut \in SUBSET Receivers

Nobody == [r \in Receivers |-> FALSE]

ConnectInit ==
    /\ main = "between" /\ stopsLeft = 0
    /\ toStart = {} /\ failed = {}
    /\ stopping = FALSE /\ toInterrupt = {} /\ toShut = {}
    /\ thread = [r \in Receivers |-> Ended]
    /\ slotClient = Nobody /\ connecting = Nobody
    /\ sock = Nobody /\ handshake = Nobody
    /\ interrupted = Nobody /\ info = Nobody
    /\ live = {} /\ shut = {}

Up == {r \in Receivers : slotClient[r]}

-----------------------------------------------------------------------------
(* The thread that runs the loop: phases of receiver threads, one after the  *)
(* other (_in_parallel), and the report of the receivers that failed.        *)

\* _loop connects the slots that are down (all of them at first) or lets the
\* connected ones scan and hop; acquisitions may leave some of them out.
BeginPhase ==
    /\ main = "between"
    /\ \/ toStart' = Receivers \ Up
       \/ toStart' \in SUBSET Up
    /\ toStart' # {}
    /\ failed' = {}
    /\ main' = "spawn"
    /\ UNCHANGED <<stopsLeft, stopVars, thread, slotVars, clientVars, osVars>>

StartThread(r) ==
    /\ main = "spawn" /\ r \in toStart
    /\ toStart' = toStart \ {r}
    /\ thread' = [thread EXCEPT ![r] = IF slotClient[r] THEN "read" ELSE "begin"]
    /\ UNCHANGED <<main, stopsLeft, failed, stopVars, slotVars, clientVars, osVars>>

AllStarted ==
    /\ main = "spawn" /\ toStart = {}
    /\ main' = "wait"
    /\ UNCHANGED <<stopsLeft, toStart, failed, stopVars, thread, slotVars, clientVars, osVars>>

\* write_until_finished and the joins return: every thread of the phase ended.
AllFinished ==
    /\ main = "wait" /\ \A r \in Receivers : thread[r] = Ended
    /\ main' = "report"
    /\ UNCHANGED <<stopsLeft, toStart, failed, stopVars, thread, slotVars, clientVars, osVars>>

\* _disconnect: the slot gives up its client, and the client its socket.
Disconnected(r) ==
    /\ slotClient' = [slotClient EXCEPT ![r] = FALSE]
    /\ sock' = [sock EXCEPT ![r] = @ /\ ~slotClient[r]]
    /\ live' = IF slotClient[r] /\ sock[r] THEN live \ {r} ELSE live

\* _report, for one receiver that failed.
Report(r) ==
    /\ main = "report" /\ r \in failed
    /\ failed' = failed \ {r}
    /\ Disconnected(r)
    /\ UNCHANGED <<main, stopsLeft, toStart, stopVars, thread, connecting,
                   handshake, interrupted, info, shut>>

AllReported ==
    /\ main = "report" /\ failed = {}
    /\ main' = "between"
    /\ UNCHANGED <<stopsLeft, toStart, failed, stopVars, thread, slotVars, clientVars, osVars>>

\* run() leaves the loop: by Ctrl+C, wherever the loop is (stop in the handler
\* and again in the finally clause), by an error or after its last iteration
\* (only the finally clause).
LeaveLoop(stops) ==
    /\ main \in LoopPoints
    /\ main' = "collect" /\ stopsLeft' = stops
    /\ UNCHANGED <<toStart, failed, stopVars, thread, slotVars, clientVars, osVars>>

-----------------------------------------------------------------------------
(* _stop, in the thread that runs the loop.                                  *)

\* Mutant: clients that are still connecting are overlooked.
InSlotsOnly == Up

\* The clients that _stop interrupts.
InSlotsOrConnecting == {r \in Receivers : slotClient[r] \/ connecting[r]}

\* Under _slots_lock.
StopCollect ==
    /\ main = "collect"
    /\ stopping' = TRUE
    /\ toInterrupt' = InSlotsOrConnecting
    /\ main' = "wake"
    /\ UNCHANGED <<stopsLeft, toStart, failed, toShut, thread, slotVars, clientVars, osVars>>

\* interrupt(), the part under the client's lock.
StopInterrupt(r) ==
    /\ main = "wake" /\ r \in toInterrupt
    /\ toInterrupt' = toInterrupt \ {r}
    /\ interrupted' = [interrupted EXCEPT ![r] = TRUE]
    /\ toShut' = IF sock[r] \/ handshake[r] THEN {r} ELSE {}
    /\ main' = "shutdown"
    /\ UNCHANGED <<stopsLeft, toStart, failed, stopping, thread, slotVars,
                   sock, handshake, info, osVars>>

\* interrupt(), the shutdown after the lock; on a closed socket it does nothing.
StopShutdown ==
    /\ main = "shutdown"
    /\ shut' = shut \cup (toShut \cap live)
    /\ toShut' = {}
    /\ main' = "wake"
    /\ UNCHANGED <<stopsLeft, toStart, failed, stopping, toInterrupt, thread,
                   slotVars, clientVars, live>>

AllInterrupted ==
    /\ main = "wake" /\ toInterrupt = {}
    /\ main' = "join"
    /\ UNCHANGED <<stopsLeft, toStart, failed, stopVars, thread, slotVars, clientVars, osVars>>

\* The wait for the threads ends with the last of them or at its deadline.
StopJoin ==
    /\ main = "join"
    /\ main' = "disconnect"
    /\ UNCHANGED <<stopsLeft, toStart, failed, stopVars, thread, slotVars, clientVars, osVars>>

StopDisconnect(r) ==
    /\ main = "disconnect" /\ slotClient[r]
    /\ Disconnected(r)
    /\ UNCHANGED <<mainVars, stopVars, thread, connecting, handshake, interrupted, info, shut>>

\* Ctrl+C stops twice: in run()'s handler and in its finally clause.
AfterStop == IF stopsLeft > 1 THEN "collect" ELSE "over"

StopReturns ==
    /\ main = "disconnect" /\ Up = {}
    /\ stopsLeft' = stopsLeft - 1
    /\ main' = AfterStop
    /\ UNCHANGED <<toStart, failed, stopVars, thread, slotVars, clientVars, osVars>>

-----------------------------------------------------------------------------
(* A receiver thread that connects.                                          *)

Goto(r, here, there) ==
    /\ thread[r] = here
    /\ thread' = [thread EXCEPT ![r] = there]

\* Mutant: of the receivers that fail in a phase only the last is remembered.
FailsLast(r) == failed' = {r}

\* _in_parallel keeps the error of every job that raised OSError.
Fails(r) == failed' = failed \cup {r}

\* _connect: a new client, registered under _slots_lock unless the run stops.
ConnectBegin(r) ==
    /\ Goto(r, "begin", IF stopping THEN Ended ELSE "create")
    /\ connecting' = [connecting EXCEPT ![r] = ~stopping]
    /\ sock' = [sock EXCEPT ![r] = FALSE]
    /\ handshake' = [handshake EXCEPT ![r] = FALSE]
    /\ interrupted' = [interrupted EXCEPT ![r] = FALSE]
    /\ info' = [info EXCEPT ![r] = FALSE]
    /\ UNCHANGED <<mainVars, stopVars, slotClient, osVars>>

\* socket.create_connection, before connect() enters its try block.
CreateConnection(r) ==
    /\ \/ /\ Goto(r, "create", "own")
          /\ live' = live \cup {r}
          /\ shut' = shut \ {r}
       \/ /\ Goto(r, "create", "hand")
          /\ UNCHANGED osVars
    /\ UNCHANGED <<mainVars, stopVars, slotVars, clientVars>>

OwnHandshake(r) ==
    /\ Goto(r, "own", IF interrupted[r] THEN "drop" ELSE "header")
    /\ handshake' = [handshake EXCEPT ![r] = ~interrupted[r]]
    /\ UNCHANGED <<mainVars, stopVars, slotVars, sock, interrupted, info, osVars>>

\* The twelve header bytes arrive (also from a socket that was shut down after
\* it had received them), or the read fails or shows another protocol.
ReadHeader(r) ==
    /\ Goto(r, "header", "adopt") \/ Goto(r, "header", "drop")
    /\ UNCHANGED <<mainVars, stopVars, slotVars, clientVars, osVars>>

\* Under the client's lock: the socket becomes the client's, unless interrupted.
AdoptSocket(r) ==
    /\ Goto(r, "adopt", IF interrupted[r] THEN "drop" ELSE "info")
    /\ handshake' = [handshake EXCEPT ![r] = FALSE]
    /\ sock' = [sock EXCEPT ![r] = ~interrupted[r]]
    /\ UNCHANGED <<mainVars, stopVars, slotVars, interrupted, info, osVars>>

SetInfo(r) ==
    /\ Goto(r, "info", "hand")
    /\ info' = [info EXCEPT ![r] = TRUE]
    /\ UNCHANGED <<mainVars, stopVars, slotVars, sock, handshake, interrupted, osVars>>

\* Mutant: the except clause does not close the socket.
DropSocketOpen(r) ==
    /\ Goto(r, "drop", "hand")
    /\ handshake' = [handshake EXCEPT ![r] = FALSE]
    /\ UNCHANGED <<mainVars, stopVars, slotVars, sock, interrupted, info, osVars>>

\* The except clause of connect().
DropSocket(r) ==
    /\ Goto(r, "drop", "hand")
    /\ handshake' = [handshake EXCEPT ![r] = FALSE]
    /\ live' = live \ {r}
    /\ UNCHANGED <<mainVars, stopVars, slotVars, sock, interrupted, info, shut>>

\* The slot takes the connected client, unless the run stops ...
Kept(r) == info[r] /\ ~stopping

\* Mutant: ... and then nobody closes it.
LeftOpen(r) == FALSE

\* ... and then the thread closes it.
Orphan(r) == info[r] /\ stopping

\* The finally clause of _connect, under _slots_lock, and its way out: the
\* error of connect(), or the connection that is handed over or belongs to no one.
HandOver(r) ==
    /\ Goto(r, "hand", IF Orphan(r) THEN "orphan" ELSE Ended)
    /\ connecting' = [connecting EXCEPT ![r] = FALSE]
    /\ slotClient' = [slotClient EXCEPT ![r] = @ \/ Kept(r)]
    /\ IF info[r] THEN UNCHANGED failed ELSE Fails(r)
    /\ UNCHANGED <<main, stopsLeft, toStart, stopVars, clientVars, osVars>>

\* Mutant: the client forgets its socket without closing it.
Forgotten(r) ==
    /\ sock' = [sock EXCEPT ![r] = FALSE]
    /\ UNCHANGED live

\* RtlTcpClient.close
Closed(r) ==
    /\ sock' = [sock EXCEPT ![r] = FALSE]
    /\ live' = IF sock[r] THEN live \ {r} ELSE live

CloseOrphan(r) ==
    /\ Goto(r, "orphan", Ended)
    /\ Closed(r)
    /\ UNCHANGED <<mainVars, stopVars, slotVars, handshake, interrupted, info, shut>>

-----------------------------------------------------------------------------
(* A receiver thread that scans or hops.                                     *)

\* The job takes slot.client; a run that stops may have taken it away already,
\* and the job then ends with an error that nobody reports any more.
TakeClient(r) ==
    /\ Goto(r, "read", IF slotClient[r] THEN "recv" ELSE Ended)
    /\ UNCHANGED <<mainVars, stopVars, slotVars, clientVars, osVars>>

\* Also after a stop: what was captured before it is still decoded.
FinishReading(r) ==
    /\ Goto(r, "recv", Ended)
    /\ UNCHANGED <<mainVars, stopVars, slotVars, clientVars, osVars>>

\* A command that cannot be sent leaves the socket as it is; a capture that
\* fails after draining starts closes it (capture_fresh).
FailReading(r) ==
    /\ Goto(r, "recv", Ended)
    /\ Fails(r)
    /\ Closed(r) \/ UNCHANGED <<sock, live>>
    /\ UNCHANGED <<main, stopsLeft, toStart, stopVars, slotVars, handshake,
                   interrupted, info, shut>>

-----------------------------------------------------------------------------

ThreadStep(r) ==
    \/ ConnectBegin(r) \/ CreateConnection(r) \/ OwnHandshake(r) \/ ReadHeader(r)
    \/ AdoptSocket(r) \/ SetInfo(r) \/ DropSocket(r) \/ HandOver(r) \/ CloseOrphan(r)
    \/ TakeClient(r) \/ FinishReading(r) \/ FailReading(r)

LoopStep ==
    \/ BeginPhase \/ AllStarted \/ AllFinished \/ AllReported
    \/ \E r \in Receivers : StartThread(r) \/ Report(r)

StopStep ==
    \/ StopCollect \/ StopShutdown \/ AllInterrupted \/ StopJoin \/ StopReturns
    \/ \E r \in Receivers : StopInterrupt(r) \/ StopDisconnect(r)

ConnectNext ==
    \/ LoopStep
    \/ StopStep
    \/ \E stops \in 1..2 : LeaveLoop(stops)
    \/ \E r \in Receivers : ThreadStep(r)

\* The loop and _stop block on nothing without a bound, and neither does a thread:
\* connects have connect_timeout, reads read_timeout and the capture grace.
Fairness ==
    /\ WF_connectVars(LoopStep)
    /\ WF_connectVars(StopStep)
    /\ \A r \in Receivers : WF_connectVars(ThreadStep(r))

ConnectSpec == ConnectInit /\ [][ConnectNext]_connectVars /\ Fairness

-----------------------------------------------------------------------------

\* No connection is ever lost: an open socket belongs to the thread that is
\* still connecting it, or to the client that its slot holds and will close.
\* (A reconnection replaces the client object: a socket it still held would
\* stay open for good, and an rtl_tcp server serves one client at a time.)
NoAbandonedSocket ==
    \A r \in live :
        \/ thread[r] \in {"own", "header", "adopt", "info", "drop", "hand", "orphan"}
        \/ slotClient[r] /\ sock[r]

\* Once run() has returned and the threads have ended, every receiver is closed,
\* also those whose connection completed while or after _stop ran.
ClosedInTheEnd ==
    (main = "over" /\ \A r \in Receivers : thread[r] = Ended) => live = {}

\* "A stop can wake it": when _stop waits for the threads, no thread blocks in a
\* read of a socket that is open and not shut down, whatever it did meanwhile.
BlockedReadersAreWoken ==
    main \in {"join", "disconnect", "over"} =>
        \A r \in Receivers : thread[r] \in {"header", "recv"} => r \notin live \ shut

\* No phase begins with a dead client, however many receivers failed in the one before
\* it and whichever thread closed their sockets: a slot that has a client has its device
\* information (_loop reads client.info), and while the run goes on an open connection,
\* unless it is on the list of failures that _report disconnects before the next phase.
HandedIsUsable ==
    \A r \in Receivers :
        slotClient[r] =>
            /\ info[r]
            /\ main \in LoopPoints => (sock[r] /\ r \in live) \/ r \in failed
            /\ main = "between" => r \notin failed

\* A stop ends with every receiver thread gone and every connection closed, even
\* if a thread outlives the bounded wait.
StopReleasesEverything ==
    stopping ~> (main = "over" /\ live = {} /\ \A r \in Receivers : thread[r] = Ended)

=============================================================================
