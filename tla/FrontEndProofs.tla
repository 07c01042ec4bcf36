--------------------------- MODULE FrontEndProofs ---------------------------
(***************************************************************************)
(* The safety properties of FrontEnd for any number of pages, requesters,  *)
(* events, rescans and signals.                                            *)
(***************************************************************************)
EXTENDS FrontEnd, SequenceTheorems, TLAPS

Stages == {"unstarted", "loading", "armed", "running", "stopping", "said", "unarmed", "failing",
           "ended"}
Points == {"none", "check", "snapshot", "write", "enter", "waiting", "done"}
Lines == {"recon_started", "event", "recon_stopped"}

\* The types that the safety properties need; the bounds of TypeOK follow at the end.
Flags ==
    /\ stopped \in BOOLEAN /\ ready \in BOOLEAN /\ failed \in BOOLEAN /\ late \in BOOLEAN
    /\ closing \in BOOLEAN /\ stopRequested \in BOOLEAN
    /\ said \in BOOLEAN /\ readEnd \in BOOLEAN /\ process \in BOOLEAN
Types ==
    /\ version \in Nat
    /\ stream \in [Streams -> Points] /\ seen \in [Streams -> Nat]
    /\ notified \in [Streams -> BOOLEAN]
    /\ pipe \in Seq(Lines) /\ child \in Stages
    /\ Flags

\* What the control point of the main thread implies.
Main ==
    /\ main = "popen" => child = "unstarted" /\ ~failed /\ reader = "none"
    /\ main \in Starting => readEnd /\ ~stopRequested
    /\ reader = "reading" => readEnd
    /\ status # "none" => main = "over"
    /\ main \in {"stop", "wait", "join"} => stopRequested
    /\ process => child # "unstarted"
    /\ main = "wait" => process
    /\ main = "join" /\ process => child = "ended"
    /\ status \in {"0", "1"} /\ process => child = "ended"

\* How the child's stage, its lines and the causes of its end go together.
Life ==
    /\ pipe # <<>> \/ ready => child \notin {"unstarted", "loading", "armed"}
    /\ lock \in Requesters => ready
    /\ child \in {"said", "unarmed"} => said
    /\ child = "failing" => cause \in {"crash", "interrupted"}
    /\ child \notin {"failing", "ended"} => cause = "none"
    /\ child = "ended" => cause \in {"clean", "crash", "interrupted", "signal", "killed"}
    /\ cause = "clean" => said
    /\ cause = "killed" => stopRequested
    /\ cause = "signal" => ready
    /\ late => stopRequested
    /\ said /\ readEnd => stopped \/ \E i \in 1..Len(pipe): pipe[i] = "recon_stopped"

\* What the reader concluded.
Judged ==
    /\ reader = "done" => child = "ended"
    /\ OnlyUncleanEnds
    /\ JudgedUncleanEnds

IInv == Types /\ Main /\ Life /\ Judged /\ NoWakeUpIsLost

-----------------------------------------------------------------------------

\* At first there is no child, no page and nothing to tell.
LEMMA InitIInv == Init => IInv
<1> SUFFICES ASSUME Init PROVE IInv
  OBVIOUS
<1> USE DEF Init
<1>1. Types
  <2>1. Flags
    BY Zenon DEF Flags
  <2> QED
    BY <2>1 DEF Types, Stages, Points, Lines
<1>2. Main /\ Judged /\ NoWakeUpIsLost
  BY DEF Main, Starting, Judged, OnlyUncleanEnds, JudgedUncleanEnds, NoWakeUpIsLost
<1>3. Life
  BY NoOneAssumption DEF Life
<1> QED
  BY <1>1, <1>2, <1>3 DEF IInv

\* NoWakeUpIsLost depends on the pages, the version and `closing' only.
LEMMA PagesUntouched ==
    ASSUME NoWakeUpIsLost, UNCHANGED <<streamVars, notified, version, closing>>
    PROVE  NoWakeUpIsLost'
  BY DEF NoWakeUpIsLost, streamVars

\* After notify_all no page sleeps without being notified.
LEMMA AllNotified ==
    ASSUME Types, NotifyAll, UNCHANGED stream
    PROVE  NoWakeUpIsLost' /\ notified' \in [Streams -> BOOLEAN]
  BY DEF Types, Flags, NotifyAll, NoWakeUpIsLost

\* A child that moves leaves the front end alone, and ends only once.
LEMMA ChildKeepsIInv == ASSUME IInv, ChildStep PROVE IInv'
<1> USE DEF IInv
<1>0. /\ UNCHANGED <<mainVars, reader, closeVars, failed, lock, version, stateVars, streamVars,
                     notified>>
      /\ child \notin {"unstarted", "ended"} /\ main # "popen"
  BY DEF ChildStep, ChildArms, ChildStarted, ChildEvent, ChildSaysStopped, ChildDisarms, ChildFails,
         ChildTakesSigInt, ChildExits, Main
<1>1. NoWakeUpIsLost'
  BY <1>0, PagesUntouched DEF closeVars
<1> USE DEF mainVars, closeVars, stateVars, streamVars, pipeVars, Stages, Lines
<1>2. CASE ChildStarted \/ ChildEvent \/ ChildSaysStopped
  <2> DEFINE Written(line) == readEnd /\ pipe' = Append(pipe, line) /\ UNCHANGED <<readEnd, cause>>
  <2>1. CASE \E line \in Lines: Written(line) /\ child' \in {"running", "said"}
                 /\ (child' = "said" => said') /\ (said' => said \/ line = "recon_stopped")
                 /\ said' \in BOOLEAN /\ (said => said') /\ child # "failing" /\ late' = late
    <3> PICK line \in Lines: Written(line) /\ child' \in {"running", "said"}
                 /\ (child' = "said" => said') /\ (said' => said \/ line = "recon_stopped")
                 /\ said' \in BOOLEAN /\ (said => said') /\ child # "failing" /\ late' = late
      BY <2>1
    <3>1. /\ pipe' \in Seq(Lines) /\ Len(pipe') = Len(pipe) + 1
          /\ pipe'[Len(pipe) + 1] = line
          /\ \A i \in 1..Len(pipe): pipe'[i] = pipe[i]
      BY DEF Types, Flags
    <3>2. Types'
      BY <1>0, <3>1 DEF Types, Flags
    <3>3. Main' /\ Judged'
      BY <1>0 DEF Main, Judged, OnlyUncleanEnds, JudgedUncleanEnds, Starting
    <3>4. (said /\ readEnd => stopped \/ \E i \in 1..Len(pipe): pipe[i] = "recon_stopped")'
      BY <1>0, <3>1 DEF Life, Types, Flags
    <3>5. Life'
      BY <1>0, <3>4 DEF Life
    <3> QED
      BY <1>1, <3>2, <3>3, <3>5
  <2>2. CASE WriteBroken /\ UNCHANGED said /\ late' = late /\ child # "failing"
    <3>1. Types' /\ Main'
      BY <1>0, <2>2 DEF Types, Flags, Main, WriteBroken, Starting
    <3>2. Life' /\ Judged'
      BY <1>0, <2>2 DEF Life, Judged, OnlyUncleanEnds, JudgedUncleanEnds, WriteBroken
    <3> QED
      BY <1>1, <3>1, <3>2
  <2>3. CASE ChildStarted
    BY <2>1, <2>2, <2>3 DEF ChildStarted, Write, Types, Flags
  <2>4. CASE ChildEvent
    BY <2>1, <2>2, <2>4 DEF ChildEvent, Write, Types, Flags
  <2>5. CASE ChildSaysStopped
    BY <2>1, <2>2, <2>5 DEF ChildSaysStopped, Write, Types, Flags
  <2> QED
    BY <1>2, <2>3, <2>4, <2>5
<1>3. CASE ChildArms \/ ChildDisarms \/ ChildFails \/ ChildTakesSigInt \/ ChildExits
  <2> USE DEF ChildArms, ChildDisarms, ChildFails, ChildTakesSigInt, ChildExits, Ends
  <2>1. Types' /\ Main'
    BY <1>0, <1>3 DEF Types, Flags, Main, Starting
  <2>2. Life'
    BY <1>0, <1>3 DEF Types, Flags, Life
  <2>3. Judged'
    BY <1>0, <1>3 DEF Judged, OnlyUncleanEnds, JudgedUncleanEnds
  <2> QED
    BY <1>1, <2>1, <2>2, <2>3
<1> QED
  BY <1>2, <1>3 DEF ChildStep

\* A page goes to sleep only after it has compared the versions under the lock.
LEMMA PagesKeepIInv ==
    ASSUME IInv, NEW s \in Streams, StreamProgress(s) \/ StreamOutside(s)
    PROVE  IInv'
<1> USE DEF IInv, StreamProgress, StreamOutside
<1>0. UNCHANGED <<mainVars, reader, closeVars, failed, lock, version, stateVars, childVars,
                  pipeVars, counters>>
  OBVIOUS
<1>1. /\ stream' \in [Streams -> Points] /\ seen' \in [Streams -> Nat]
      /\ notified' \in [Streams -> BOOLEAN]
  BY DEF Types, Points, Goto, Connect, CheckClosing, Snapshot, WriteView, WaitForChange, Disconnect,
         Tick
<1>2. Types'
  BY <1>0, <1>1 DEF Types, Flags, mainVars, closeVars, stateVars, childVars, pipeVars
<1>3. Main' /\ Judged'
  BY <1>0 DEF Main, Judged, OnlyUncleanEnds, JudgedUncleanEnds, mainVars, closeVars, childVars,
              stateVars, pipeVars
<1>4. Life'
  BY <1>0 DEF Life, closeVars, stateVars, childVars, pipeVars
<1>5. NoWakeUpIsLost'
  <2> SUFFICES ASSUME NEW t \in Streams, stream'[t] = "waiting", ~notified'[t]
               PROVE  seen'[t] = version' /\ ~closing'
    BY DEF NoWakeUpIsLost
  <2>1. version' = version /\ closing' = closing
    BY <1>0 DEF closeVars
  <2>2. CASE t # s
    <3>1. stream'[t] = stream[t] /\ seen'[t] = seen[t] /\ notified'[t] = notified[t]
      BY <2>2 DEF Types, Goto, Connect, CheckClosing, Snapshot, WriteView, WaitForChange,
                  Disconnect, Tick
    <3> QED
      BY <2>1, <3>1 DEF NoWakeUpIsLost
  <2>3. CASE t = s
    <3>1. WaitForChange(s) /\ ~Changed(s)
      BY <2>3 DEF Types, Goto, Connect, CheckClosing, Snapshot, WriteView, WaitForChange,
                  Disconnect, Tick
    <3>2. seen'[s] = seen[s]
      BY <3>1 DEF WaitForChange
    <3> QED
      BY <2>1, <2>3, <3>1, <3>2 DEF Changed, Types
  <2> QED
    BY <2>2, <2>3
<1> QED
  BY <1>2, <1>3, <1>4, <1>5

\* A line is applied in the order in which it was written.
LEMMA OnLineKeepsIInv == ASSUME IInv, OnLine PROVE IInv'
<1> USE DEF IInv, OnLine, Apply, Publish, Stages, Lines
<1>0. UNCHANGED <<mainVars, reader, closeVars, failed, lock, streamVars, childVars, readEnd,
                  counters>>
  OBVIOUS
<1>1. /\ pipe # <<>> /\ pipe' = Tail(pipe) /\ Head(pipe) \in Lines
      /\ pipe' \in Seq(Lines) /\ Len(pipe') = Len(pipe) - 1 /\ Len(pipe) \in Nat \ {0}
      /\ pipe[1] = Head(pipe) /\ \A i \in 1..Len(pipe'): pipe'[i] = pipe[i + 1]
  BY DEF Types
<1>2. /\ ready' = (ready \/ Head(pipe) = "recon_started")
      /\ stopped' = (stopped \/ Head(pipe) = "recon_stopped")
  OBVIOUS
<1>3. NoWakeUpIsLost' /\ notified' \in [Streams -> BOOLEAN]
  BY <1>0, AllNotified DEF streamVars
<1>4. Flags'
  <2>1. stopped' \in BOOLEAN /\ ready' \in BOOLEAN
    BY <1>2 DEF Types, Flags
  <2> QED
    BY <1>0, <2>1 DEF Types, Flags, mainVars, closeVars, childVars
<1>5. Types'
  BY <1>0, <1>1, <1>3, <1>4 DEF Types, streamVars, childVars
<1>6. Main' /\ Judged'
  BY <1>0, <1>2 DEF Types, Flags, Main, Judged, OnlyUncleanEnds, JudgedUncleanEnds, mainVars,
                    closeVars, childVars
<1>7. child \notin {"unstarted", "loading", "armed"}
  BY <1>1 DEF Life
<1>8. (said /\ readEnd => stopped \/ \E i \in 1..Len(pipe): pipe[i] = "recon_stopped")'
  <2> SUFFICES ASSUME said, readEnd, ~stopped' PROVE \E i \in 1..Len(pipe'): pipe'[i] = "recon_stopped"
    BY <1>0 DEF childVars
  <2>1. PICK i \in 1..Len(pipe): pipe[i] = "recon_stopped"
    BY <1>2 DEF Life
  <2>2. i # 1
    BY <1>1, <1>2, <2>1
  <2>3. i - 1 \in 1..Len(pipe') /\ pipe'[i - 1] = pipe[i]
    BY <1>1, <2>2
  <2> QED
    BY <2>1, <2>3
<1>9. ready => ready'
  BY <1>2 DEF Types, Flags
<1>10. Life'
  BY <1>0, <1>7, <1>8, <1>9 DEF Life, closeVars, childVars
<1> QED
  BY <1>3, <1>5, <1>6, <1>10

\* At the end of the stream every line has been applied, recon_stopped too.
LEMMA OnExitKeepsIInv == ASSUME IInv, OnExit PROVE IInv'
<1> USE DEF IInv, OnExit, Publish
<1>0. UNCHANGED <<mainVars, closeVars, lock, ready, stopped, streamVars, childVars, pipeVars,
                  counters>>
  OBVIOUS
<1>1. child = "ended" /\ pipe = <<>> /\ Len(pipe) = 0 /\ readEnd
  BY DEF AtEof, Main
<1>2. cause = "clean" => stopped
  BY <1>1 DEF Life
<1>3. failed' = (~stopRequested /\ cause # "clean")
  BY <1>2 DEF ExitFailed, Types, Flags
<1>4. NoWakeUpIsLost' /\ notified' \in [Streams -> BOOLEAN]
  BY <1>0, AllNotified DEF streamVars
<1>5. Types'
  BY <1>0, <1>3, <1>4 DEF Types, Flags, mainVars, closeVars, streamVars, childVars, pipeVars
<1>6. main # "popen"
  BY DEF Main
<1>7. Main'
  BY <1>0, <1>6 DEF Main, mainVars, closeVars, childVars, pipeVars
<1>8. Life'
  BY <1>0 DEF Life, closeVars, childVars, pipeVars
<1>9. Judged'
  <2>1. failed' <=> ~stopRequested /\ cause # "clean"
    BY <1>3 DEF Types, Flags
  <2> QED
    BY <1>0, <1>1, <2>1 DEF Judged, OnlyUncleanEnds, JudgedUncleanEnds, Life, closeVars, childVars
<1> QED
  BY <1>4, <1>5, <1>7, <1>8, <1>9

\* A rescan is requested only of a child whose recon_started has been applied.
LEMMA RescanKeepsIInv ==
    ASSUME IInv, NEW r \in Requesters, RequestRescan(r) \/ SendRescan(r)
    PROVE  IInv'
<1> USE DEF IInv
<1>1. CASE RequestRescan(r)
  <2>0. UNCHANGED <<mainVars, reader, closeVars, failed, version, stateVars, streamVars, notified,
                    childVars, pipeVars, interrupts>>
        /\ lock' = r /\ ready
    BY <1>1 DEF RequestRescan, CanRescan
  <2>1. Types' /\ NoWakeUpIsLost'
    BY <2>0, PagesUntouched DEF Types, Flags, mainVars, closeVars, stateVars, streamVars, childVars,
                                pipeVars
  <2>2. Main' /\ Judged'
    BY <2>0 DEF Main, Judged, OnlyUncleanEnds, JudgedUncleanEnds, mainVars, closeVars, childVars,
                stateVars, pipeVars
  <2>3. Life'
    BY <2>0 DEF Life, closeVars, stateVars, childVars, pipeVars
  <2> QED
    BY <2>1, <2>2, <2>3
<1>2. CASE SendRescan(r)
  <2> USE DEF SendRescan, Publish
  <2>0. /\ UNCHANGED <<mainVars, reader, closeVars, failed, stateVars, streamVars, said, events,
                       pipeVars, counters>>
        /\ lock' = NoOne /\ lock = r
        /\ \/ UNCHANGED <<child, cause, late>>
           \/ child # "ended" /\ child' = "ended" /\ cause' = "signal" /\ late' = stopRequested
    BY <1>2 DEF Ends
  <2>1. child \notin {"unstarted", "loading", "armed"} /\ main # "popen"
    BY <2>0 DEF Life, Main
  <2>2. NoWakeUpIsLost' /\ notified' \in [Streams -> BOOLEAN]
    BY <1>2, <2>0, AllNotified DEF streamVars
  <2>3. Types'
    BY <1>2, <2>0, <2>2 DEF Types, Flags, Stages, mainVars, closeVars, stateVars, streamVars,
                            pipeVars
  <2>4. Main'
    BY <2>0, <2>1 DEF Main, mainVars, closeVars, pipeVars
  <2>5. Life'
    BY <2>0, <2>1, NoOneAssumption DEF Life, closeVars, stateVars, pipeVars
  <2>6. Judged'
    BY <2>0, <2>1 DEF Judged, OnlyUncleanEnds, JudgedUncleanEnds, closeVars, stateVars
  <2> QED
    BY <2>2, <2>3, <2>4, <2>5, <2>6
<1> QED
  BY <1>1, <1>2

\* Starting the child and its readers.
LEMMA StartKeepsIInv ==
    ASSUME IInv, PopenSucceeds \/ PopenFails \/ ListThreads \/ StartThreads
    PROVE  IInv'
<1> USE DEF IInv, Starting, mainVars, closeVars, stateVars, streamVars, childVars, pipeVars
<1>1. CASE PopenSucceeds
  <2> USE DEF PopenSucceeds
  <2>1. Types' /\ NoWakeUpIsLost'
    BY <1>1, PagesUntouched DEF Types, Flags, Stages
  <2>2. Main' /\ Judged'
    BY <1>1 DEF Main, Judged, OnlyUncleanEnds, JudgedUncleanEnds
  <2>3. Life'
    BY <1>1 DEF Main, Life
  <2> QED
    BY <2>1, <2>2, <2>3
<1>2. CASE PopenFails
  <2> USE DEF PopenFails, Publish
  <2>1. NoWakeUpIsLost' /\ notified' \in [Streams -> BOOLEAN]
    BY <1>2, AllNotified
  <2>2. Types'
    BY <1>2, <2>1 DEF Types, Flags
  <2>3. Main' /\ Judged'
    BY <1>2 DEF Main, Judged, OnlyUncleanEnds, JudgedUncleanEnds
  <2>4. Life'
    BY <1>2 DEF Life
  <2> QED
    BY <2>1, <2>2, <2>3, <2>4
<1>3. CASE ListThreads \/ StartThreads
  <2> USE DEF ListThreads, StartThreads
  <2>1. Types' /\ NoWakeUpIsLost'
    BY <1>3, PagesUntouched DEF Types, Flags
  <2>2. Main' /\ Judged'
    BY <1>3 DEF Main, Judged, OnlyUncleanEnds, JudgedUncleanEnds
  <2>3. Life'
    BY <1>3 DEF Life
  <2> QED
    BY <2>1, <2>2, <2>3
<1> QED
  BY <1>1, <1>2, <1>3

\* Closing: the pages are told, the child is interrupted and perhaps killed.
LEMMA CloseKeepsIInv ==
    ASSUME IInv, Close \/ StopReceiver \/ WaitOrKill
    PROVE  IInv'
<1> USE DEF IInv, Starting, mainVars, closeVars, stateVars, streamVars, childVars, pipeVars
<1>1. CASE Close
  <2> USE DEF Close
  <2>1. NoWakeUpIsLost' /\ notified' \in [Streams -> BOOLEAN]
    BY <1>1, AllNotified
  <2>2. Types'
    BY <1>1, <2>1 DEF Types, Flags
  <2>3. Main' /\ Judged'
    BY <1>1 DEF Main, Judged, OnlyUncleanEnds, JudgedUncleanEnds
  <2>4. Life'
    BY <1>1 DEF Life
  <2> QED
    BY <2>1, <2>2, <2>3, <2>4
<1>2. CASE StopReceiver
  <2> USE DEF StopReceiver, Running
  <2>1. Types' /\ NoWakeUpIsLost'
    BY <1>2, PagesUntouched DEF Types, Flags
  <2>2. Main' /\ Judged'
    BY <1>2 DEF Main, Judged, OnlyUncleanEnds, JudgedUncleanEnds
  <2>3. Life'
    BY <1>2 DEF Life
  <2> QED
    BY <2>1, <2>2, <2>3
<1>3. CASE WaitOrKill
  <2> USE DEF WaitOrKill, Ends
  <2>1. Types' /\ NoWakeUpIsLost'
    BY <1>3, PagesUntouched DEF Types, Flags, Stages
  <2>2. stopRequested /\ child # "unstarted"
    BY <1>3 DEF Main
  <2>3. child' = "ended" /\ (child # "ended" => cause' = "killed" /\ late' = stopRequested)
    BY <1>3
  <2>4. Main'
    BY <1>3, <2>3 DEF Main
  <2>5. Judged'
    <3>1. failed => child = "ended"
      BY <2>2 DEF Judged, OnlyUncleanEnds
    <3>2. CASE child = "ended"
      BY <1>3, <3>2 DEF Judged, OnlyUncleanEnds, JudgedUncleanEnds
    <3>3. CASE child # "ended"
      BY <1>3, <2>2, <2>3, <3>1, <3>3 DEF Judged, OnlyUncleanEnds, JudgedUncleanEnds
    <3> QED
      BY <3>2, <3>3
  <2>6. Life'
    BY <1>3, <2>2, <2>3 DEF Life
  <2> QED
    BY <2>1, <2>4, <2>5, <2>6
<1> QED
  BY <1>1, <1>2, <1>3

\* The end of the front end, and signals.
LEMMA EndKeepsIInv ==
    ASSUME IInv, JoinReaders \/ Interrupted \/ InterruptedAgain
    PROVE  IInv'
<1> USE DEF IInv, Starting, mainVars, closeVars, stateVars, streamVars, childVars, pipeVars
<1>1. CASE JoinReaders \/ InterruptedAgain
  <2>1. /\ UNCHANGED <<process, threads, closeVars, failed, version, stateVars, seen, sent,
                       notified, child, said, events, cause, late>>
        /\ main \in Closing /\ main' = "over" /\ reader' \in {"done", "dead"}
        /\ reader' = "done" => reader = "done"
        /\ stream' = [s \in Streams |-> "done"] /\ lock' = NoOne /\ readEnd' = FALSE /\ pipe' = <<>>
        /\ status' \in {"0", "1"} => main = "join"
    BY <1>1 DEF JoinReaders, InterruptedAgain, Over, Closing
  <2>2. Flags'
    BY <2>1, Zenon DEF Types, Flags
  <2>3. Types' /\ NoWakeUpIsLost'
    BY <2>1, <2>2 DEF Types, Points, NoWakeUpIsLost, Lines
  <2>4. Main' /\ Judged'
    BY <2>1 DEF Main, Judged, OnlyUncleanEnds, JudgedUncleanEnds, Closing
  <2>5. Life'
    BY <2>1, NoOneAssumption DEF Life
  <2> QED
    BY <2>3, <2>4, <2>5
<1>2. CASE Interrupted
  <2> USE DEF Interrupted
  <2>1. Types' /\ NoWakeUpIsLost'
    BY <1>2, PagesUntouched DEF Types, Flags, Stages
  <2>2. Main' /\ Judged'
    BY <1>2 DEF Main, Judged, OnlyUncleanEnds, JudgedUncleanEnds
  <2>3. Life'
    BY <1>2 DEF Main, Life
  <2> QED
    BY <2>1, <2>2, <2>3
<1> QED
  BY <1>1, <1>2

\* Nothing moves.
LEMMA StutterKeepsIInv == ASSUME IInv, UNCHANGED vars PROVE IInv'
<1> USE DEF IInv, vars, mainVars, closeVars, stateVars, streamVars, childVars, pipeVars
<1>1. Types' /\ NoWakeUpIsLost'
  BY PagesUntouched DEF Types, Flags
<1>2. Main' /\ Judged'
  BY DEF Main, Judged, OnlyUncleanEnds, JudgedUncleanEnds
<1>3. Life'
  BY DEF Life
<1> QED
  BY <1>1, <1>2, <1>3

\* Every step keeps the inductive invariant.
LEMMA NextIInv == IInv /\ [Next]_vars => IInv'
<1> SUFFICES ASSUME IInv, [Next]_vars PROVE IInv'
  OBVIOUS
<1>1. CASE MainProgress
  <2>1. CASE PopenSucceeds \/ PopenFails \/ ListThreads \/ StartThreads
    BY <2>1, StartKeepsIInv
  <2>2. CASE Close \/ StopReceiver \/ WaitOrKill
    BY <2>2, CloseKeepsIInv
  <2>3. CASE JoinReaders
    BY <2>3, EndKeepsIInv
  <2> QED
    BY <1>1, <2>1, <2>2, <2>3 DEF MainProgress
<1>2. CASE Interrupted \/ InterruptedAgain
  BY <1>2, EndKeepsIInv
<1>3. CASE OnLine
  BY <1>3, OnLineKeepsIInv
<1>4. CASE OnExit
  BY <1>4, OnExitKeepsIInv
<1>5. CASE ChildStep
  BY <1>5, ChildKeepsIInv
<1>6. ASSUME NEW r \in Requesters, RequestRescan(r) \/ SendRescan(r) PROVE IInv'
  BY <1>6, RescanKeepsIInv
<1>7. ASSUME NEW s \in Streams, StreamProgress(s) \/ StreamOutside(s) PROVE IInv'
  BY <1>7, PagesKeepIInv
<1>8. CASE UNCHANGED vars
  BY <1>8, StutterKeepsIInv
<1> QED
  BY <1>1, <1>2, <1>3, <1>4, <1>5, <1>6, <1>7, <1>8 DEF Next

\* The inductive invariant holds of every reachable state.
LEMMA Invariant == Spec => []IInv
<1>1. Init => IInv
  BY InitIInv
<1>2. IInv /\ [Next]_vars => IInv'
  BY NextIInv
<1> QED
  BY <1>1, <1>2, PTL DEF Spec

-----------------------------------------------------------------------------

\* No page of WebDashboard sleeps through a change or through the end.
THEOREM PagesAreWoken == Spec => []NoWakeUpIsLost
<1>1. IInv => NoWakeUpIsLost
  BY DEF IInv
<1> QED
  BY <1>1, Invariant, PTL

\* However the child's exit, its last lines, a rescan and a stop interleave, a failure that
\* run_web reports is a child that did not start or ended uncleanly before the stop, and
\* every unclean end that is judged before the stop is reported.
THEOREM FailuresAreUncleanEnds == Spec => []FailureIsUncleanEnd
<1>1. IInv => FailureIsUncleanEnd
  BY DEF IInv, Judged, FailureIsUncleanEnd
<1> QED
  BY <1>1, Invariant, PTL

\* run_web returns a status only when the child it can name has ended.
THEOREM KnownChildIsStopped == Spec => []NoKnownChildIsLeft
<1>1. IInv => NoKnownChildIsLeft
  BY DEF IInv, Main, NoKnownChildIsLeft
<1> QED
  BY <1>1, Invariant, PTL

\* The only step that kills by SIGUSR1 is a forwarded rescan, and its child has said
\* recon_started.
THEOREM RescanIsHarmless == Spec => RescanSparesTheRun
<1>1. IInv /\ [Next]_vars
        => [cause' = "signal" /\ cause # "signal" => child \in {"unarmed", "failing"}]_vars
  <2> SUFFICES ASSUME IInv, Next, cause' = "signal", cause # "signal"
               PROVE  child \in {"unarmed", "failing"}
    OBVIOUS
  <2>1. ~ChildStep
    BY DEF ChildStep, ChildArms, ChildStarted, ChildEvent, ChildSaysStopped, ChildDisarms,
           ChildFails, ChildTakesSigInt, ChildExits, Ends, Write, WriteBroken
  <2>2. UNCHANGED cause \/ cause' = "killed" \/ \E r \in Requesters: SendRescan(r)
    BY <2>1 DEF Next, MainProgress, PopenSucceeds, PopenFails, ListThreads, StartThreads, Close,
       StopReceiver, WaitOrKill, JoinReaders, Interrupted, InterruptedAgain, OnLine, OnExit,
       RequestRescan, StreamProgress, StreamOutside, Ends, childVars
  <2>3. PICK r \in Requesters: SendRescan(r)
    BY <2>2
  <2>4. child \notin {"unstarted", "loading", "armed"}
    BY <2>3 DEF SendRescan, IInv, Life
  <2>5. ~HandlesUsr1 /\ child # "ended"
    BY <2>3 DEF SendRescan
  <2> QED
    BY <2>4, <2>5 DEF HandlesUsr1, IInv, Types, Stages
<1> QED
  BY <1>1, Invariant, PTL DEF Spec, RescanSparesTheRun

-----------------------------------------------------------------------------
(* The full type invariant, with its bounds                                  *)

\* The control points and causes, as TypeOK enumerates them.
Ranges ==
    /\ main \in Starting \cup Closing \cup {"serving", "over"}
    /\ status \in {"none", "0", "1", "traceback", "signal"}
    /\ threads \in {"none", "listed", "started"}
    /\ reader \in {"none", "reading", "done", "dead"} /\ lock \in Requesters \cup {NoOne}
    /\ phase \in {"STARTING", "ACQUISITION", "STOPPED"} /\ sigint \in BOOLEAN
    /\ cause \in {"none", "clean", "crash", "interrupted", "signal", "killed"}

\* No page has taken, or was sent, a version that does not exist yet.
Numbers ==
    /\ seen \in [Streams -> 0..version] /\ sent \in [Streams -> 0..version]
    /\ rescans \in 0..MaxRescans /\ interrupts \in 0..MaxInterrupts
    /\ events \in 0..MaxEvents /\ Len(pipe) <= PipeSize

One(p) == IF p THEN 1 ELSE 0

\* The versions, the lines that wait and the request under way, against what was written,
\* asked for and ended: a child says recon_started and recon_stopped once each.
Budget ==
    /\ main \in Starting => reader = "none"
    /\ said => child \in {"said", "unarmed", "failing", "ended"}
    /\ version + Len(pipe) + One(lock # NoOne)
         <= events + rescans + One(child \notin {"unstarted", "loading", "armed"}) + One(said)
            + One(reader = "done") + One(main # "popen")

BInv == Ranges /\ Numbers /\ Budget

\* At first nothing was published.
LEMMA InitBInv == Init => BInv
<1> SUFFICES ASSUME Init PROVE BInv
  OBVIOUS
<1> USE DEF Init
<1>1. Ranges
  BY DEF Ranges, Starting
<1>2. Numbers
  BY NumbersAssumption DEF Numbers
<1>3. Budget
  BY NoOneAssumption DEF Budget, One
<1> QED
  BY <1>1, <1>2, <1>3 DEF BInv

\* Every line a child writes is an event or its first or its last.
LEMMA ChildKeepsBInv == ASSUME IInv, BInv, ChildStep PROVE BInv'
<1> USE DEF BInv
<1>0. UNCHANGED <<mainVars, reader, closeVars, failed, lock, version, stateVars, streamVars,
                  notified, counters>>
  BY DEF ChildStep
<1> USE DEF mainVars, stateVars, streamVars, counters, pipeVars
<1>1. pipe \in Seq(Lines) /\ Len(pipe) \in Nat /\ version \in Nat /\ said \in BOOLEAN
  BY DEF IInv, Types, Flags
<1>2. CASE ChildStarted \/ ChildEvent \/ ChildSaysStopped
  <2>1. PICK line \in Lines: \/ Len(pipe) < PipeSize /\ pipe' = Append(pipe, line)
                             \/ pipe' = pipe
    BY <1>2 DEF ChildStarted, ChildEvent, ChildSaysStopped, Write, WriteBroken, Lines
  <2>2. Len(pipe') = Len(pipe) \/ (Len(pipe') = Len(pipe) + 1 /\ Len(pipe) < PipeSize)
    <3>1. pipe' = Append(pipe, line) => Len(pipe') = Len(pipe) + 1
      BY <1>1, AppendProperties
    <3> QED
      BY <2>1, <3>1
  <2>3. Ranges'
    BY <1>0, <1>2 DEF Ranges, ChildStarted, ChildEvent, ChildSaysStopped, Write, WriteBroken
  <2>4. Numbers'
    BY <1>0, <1>1, <1>2, <2>2, NumbersAssumption
       DEF Numbers, ChildStarted, ChildEvent, ChildSaysStopped, Write, WriteBroken
  <2>5. CASE ChildStarted
    <3>1. Len(pipe') <= Len(pipe) + 1 /\ UNCHANGED <<said, events>> /\ child = "armed"
          /\ child' \in {"running", "failing"}
      BY <2>2, <2>5 DEF ChildStarted, Write, WriteBroken
    <3>2. Len(pipe') \in Nat
      BY <1>1, <2>2
    <3> QED
      BY <1>0, <1>1, <2>4, <3>1, <3>2, <2>3 DEF Budget, One, Numbers
  <2>6. CASE ChildEvent
    <3>1. /\ UNCHANGED said /\ child = "running" /\ child' \in {"running", "failing"}
          /\ \/ Len(pipe') <= Len(pipe) + 1 /\ events' = events + 1
             \/ Len(pipe') = Len(pipe) /\ UNCHANGED events
      BY <1>1, <2>2, <2>6 DEF ChildEvent, Write, WriteBroken
    <3>2. Len(pipe') \in Nat
      BY <1>1, <2>2
    <3> QED
      BY <1>0, <1>1, <2>4, <3>1, <3>2, <2>3 DEF Budget, One, Numbers
  <2>7. CASE ChildSaysStopped
    <3>1. /\ UNCHANGED events /\ child \in {"running", "stopping"} /\ child' \in {"said", "failing"}
          /\ \/ Len(pipe') <= Len(pipe) + 1 /\ said' = TRUE /\ child' = "said"
             \/ Len(pipe') = Len(pipe) /\ UNCHANGED said
      BY <1>1, <2>2, <2>7 DEF ChildSaysStopped, Write, WriteBroken
    <3>2. Len(pipe') \in Nat
      BY <1>1, <2>2
    <3> QED
      BY <1>0, <1>1, <2>4, <3>1, <3>2, <2>3 DEF Budget, One, Numbers
  <2> QED
    BY <1>2, <2>3, <2>4, <2>5, <2>6, <2>7
<1>3. CASE ChildArms \/ ChildDisarms \/ ChildFails \/ ChildTakesSigInt \/ ChildExits
  <2> USE DEF ChildArms, ChildDisarms, ChildFails, ChildTakesSigInt, ChildExits, Ends
  <2>1. UNCHANGED <<said, events, pipe>>
    BY <1>3
  <2>2. Ranges'
    <3>1. sigint' \in {sigint, FALSE} /\ cause' \in {cause, "crash", "interrupted", "clean"}
      BY <1>3
    <3>2. sigint' \in BOOLEAN
      BY <3>1 DEF Ranges
    <3> QED
      BY <1>0, <3>1, <3>2 DEF Ranges
  <2>3. Numbers'
    BY <1>0, <2>1 DEF Numbers
  <2>4. child' \in {"unstarted", "loading", "armed"} => child \in {"unstarted", "loading", "armed"}
    BY <1>3
  <2>5. said => child' \in {"said", "unarmed", "failing", "ended"}
    BY <1>3 DEF Budget
  <2>6. Budget'
    BY <1>0, <1>1, <2>1, <2>4, <2>5 DEF Budget, One, Numbers
  <2> QED
    BY <2>2, <2>3, <2>6
<1> QED
  BY <1>2, <1>3 DEF ChildStep

\* A page takes the version that is, and is sent the one it took.
LEMMA PagesKeepBInv ==
    ASSUME IInv, BInv, NEW s \in Streams, StreamProgress(s) \/ StreamOutside(s)
    PROVE  BInv'
<1> USE DEF BInv, StreamProgress, StreamOutside
<1>0. UNCHANGED <<mainVars, reader, closeVars, failed, lock, version, stateVars, childVars,
                  pipeVars, counters>>
  OBVIOUS
<1>1. Ranges' /\ Budget'
  BY <1>0 DEF Ranges, Budget, One, mainVars, stateVars, childVars, pipeVars, counters
<1>2. seen' \in [Streams -> 0..version] /\ sent' \in [Streams -> 0..version]
  <2>1. version \in 0..version
    BY DEF IInv, Types
  <2> QED
    BY <2>1 DEF Numbers, Connect, CheckClosing, Snapshot, WriteView, WaitForChange, Disconnect, Tick
<1>3. Numbers'
  BY <1>0, <1>2 DEF Numbers, childVars, pipeVars, counters
<1> QED
  BY <1>1, <1>3

\* A line that is applied and an exit that is noticed publish one version each.
LEMMA ReaderKeepsBInv == ASSUME IInv, BInv, OnLine \/ OnExit PROVE BInv'
<1> USE DEF BInv
<1>0. UNCHANGED <<mainVars, closeVars, lock, streamVars, childVars, readEnd, counters>>
      /\ version' = version + 1
  BY DEF OnLine, OnExit, Publish, pipeVars
<1> USE DEF mainVars, streamVars, childVars, pipeVars, counters
<1>1. pipe \in Seq(Lines) /\ Len(pipe) \in Nat /\ version \in Nat
  BY DEF IInv, Types
<1>2. Ranges'
  BY <1>0 DEF Ranges, OnLine, OnExit, Apply
<1>3. Len(pipe') \in Nat /\ Len(pipe') <= Len(pipe)
  BY <1>1 DEF OnLine, OnExit
<1>4. Numbers'
  BY <1>0, <1>1, <1>3, NumbersAssumption DEF Numbers
<1>5. CASE OnLine
  <2>1. Len(pipe') + 1 = Len(pipe) /\ reader' = reader
    BY <1>1, <1>5 DEF OnLine
  <2> QED
    BY <1>0, <1>1, <1>2, <1>3, <1>4, <2>1 DEF Budget, One, Numbers
<1>6. CASE OnExit
  <2>1. pipe' = pipe /\ reader' = "done" /\ reader = "reading" /\ main \notin Starting
    BY <1>6 DEF OnExit, Budget
  <2> QED
    BY <1>0, <1>1, <1>2, <1>3, <1>4, <2>1 DEF Budget, One, Numbers
<1> QED
  BY <1>5, <1>6

\* A request holds the lock until it is published.
LEMMA RescanKeepsBInv ==
    ASSUME IInv, BInv, NEW r \in Requesters, RequestRescan(r) \/ SendRescan(r)
    PROVE  BInv'
<1> USE DEF BInv
<1>0. UNCHANGED <<mainVars, reader, closeVars, failed, stateVars, streamVars, said, events,
                  pipeVars, interrupts>>
  BY DEF RequestRescan, SendRescan, childVars, counters
<1> USE DEF mainVars, stateVars, streamVars, pipeVars, counters
<1>1. Len(pipe) \in Nat /\ version \in Nat
  BY DEF IInv, Types
<1>2. CASE RequestRescan(r)
  <2>1. /\ UNCHANGED <<version, childVars>> /\ rescans' = rescans + 1 /\ rescans < MaxRescans
        /\ lock = NoOne /\ lock' = r
    BY <1>2 DEF RequestRescan, Free
  <2>2. Ranges' /\ Numbers'
    BY <1>0, <2>1, NumbersAssumption DEF Ranges, Numbers, childVars
  <2>3. Budget'
    BY <1>0, <1>1, <2>1, NoOneAssumption DEF Budget, One, Numbers, childVars
  <2> QED
    BY <2>2, <2>3
<1>3. CASE SendRescan(r)
  <2>1. /\ version' = version + 1 /\ UNCHANGED rescans /\ lock = r /\ lock' = NoOne
        /\ \/ UNCHANGED <<child, sigint, cause>>
           \/ child' = "ended" /\ sigint' = FALSE /\ cause' = "signal"
    BY <1>3 DEF SendRescan, Publish, Ends
  <2>2. Ranges'
    BY <1>0, <2>1 DEF Ranges
  <2>3. Numbers'
    BY <1>0, <1>1, <2>1 DEF Numbers
  <2>4. Budget'
    BY <1>0, <1>1, <2>1, NoOneAssumption DEF Budget, One, Numbers
  <2> QED
    BY <2>2, <2>3, <2>4
<1> QED
  BY <1>2, <1>3

\* The end of the front end takes the pipe and the lock with it.
LEMMA EndKeepsBInv ==
    ASSUME IInv, BInv, JoinReaders \/ Interrupted \/ InterruptedAgain
    PROVE  BInv'
<1> USE DEF BInv, childVars, closeVars, mainVars, streamVars, pipeVars, stateVars, counters
<1>1. Len(pipe) \in Nat /\ version \in Nat /\ child \in Stages
      /\ (main = "popen" => child = "unstarted")
  BY DEF IInv, Types, Main
<1>2. interrupts' \in 0..MaxInterrupts
  BY NumbersAssumption DEF Numbers, JoinReaders, Interrupted, InterruptedAgain
<1>3. CASE JoinReaders \/ InterruptedAgain
  <2>1. /\ UNCHANGED <<threads, phase, version, seen, sent, child, said, events, cause, rescans>>
        /\ main' = "over" /\ main \in Closing /\ lock' = NoOne /\ pipe' = <<>>
        /\ reader' = IF reader = "done" THEN "done" ELSE "dead"
        /\ status' \in {"0", "1", "traceback", "signal"} /\ sigint' \in {sigint, TRUE, FALSE}
    BY <1>3 DEF JoinReaders, InterruptedAgain, Over, Closing
  <2>2. Ranges'
    BY <2>1 DEF Ranges
  <2>3. Numbers'
    BY <1>2, <2>1, NumbersAssumption DEF Numbers
  <2>4. Budget'
    BY <1>1, <2>1 DEF Budget, One, Numbers, Starting, Closing
  <2> QED
    BY <2>2, <2>3, <2>4
<1>4. CASE Interrupted
  <2>1. /\ UNCHANGED <<status, threads, reader, phase, lock, version, seen, sent, said, events,
                       cause, pipe, rescans>>
        /\ main' = "close" /\ sigint' \in {sigint, TRUE, FALSE}
    BY <1>4 DEF Interrupted
  <2>5. child' = child \/ (child = "unstarted" /\ child' = "loading")
    BY <1>1, <1>4 DEF Interrupted
  <2>2. Ranges'
    BY <2>1 DEF Ranges, Closing
  <2>3. Numbers'
    BY <1>2, <2>1 DEF Numbers
  <2>4. Budget'
    BY <1>1, <2>1, <2>5 DEF Budget, One, Numbers, Starting
  <2> QED
    BY <2>2, <2>3, <2>4
<1> QED
  BY <1>3, <1>4

\* The main thread publishes at most once itself, when there is no child to start.
LEMMA MainKeepsBInv == ASSUME IInv, BInv, MainProgress PROVE BInv'
<1> USE DEF BInv, MainProgress, mainVars, closeVars, stateVars, streamVars, childVars, pipeVars,
            counters
<1>1. Len(pipe) \in Nat /\ version \in Nat /\ (process => child # "unstarted")
      /\ (main = "popen" => child = "unstarted") /\ readEnd \in BOOLEAN /\ pipe \in Seq(Lines)
      /\ process \in BOOLEAN
  BY DEF IInv, Types, Main, Flags
<1>2. CASE PopenSucceeds \/ ListThreads \/ StartThreads \/ Close \/ StopReceiver
  <2>1. /\ UNCHANGED <<said, events, pipe, rescans, interrupts, version, seen, sent, lock>>
        /\ main' # "popen"
    BY <1>2 DEF PopenSucceeds, ListThreads, StartThreads, Close, StopReceiver
  <2>2. /\ child' = child \/ (child = "unstarted" /\ child' = "loading")
        /\ reader' = reader \/ (reader' = "reading" /\ main = "listed")
    <3>1. CASE PopenSucceeds
      BY <1>1, <3>1 DEF PopenSucceeds
    <3>2. CASE ~PopenSucceeds
      BY <1>2, <3>2 DEF ListThreads, StartThreads, Close, StopReceiver
    <3> QED
      BY <3>1, <3>2
  <2>3. Ranges'
    BY <1>1, <1>2 DEF Ranges, PopenSucceeds, ListThreads, StartThreads, Close, StopReceiver,
                      Starting, Closing, Running
  <2>4. Numbers'
    BY <2>1 DEF Numbers
  <2>5. main = "listed" => reader # "done"
    BY DEF Budget, Starting
  <2>6. Budget'
    <3>1. (main \in Starting => reader = "none")'
      BY <1>1, <1>2 DEF Budget, PopenSucceeds, ListThreads, StartThreads, Close, StopReceiver, Starting
    <3>2. (said => child \in {"said", "unarmed", "failing", "ended"})'
      BY <2>1, <2>2 DEF Budget
    <3> QED
      BY <1>1, <2>1, <2>2, <2>5, <3>1, <3>2 DEF Budget, One, Numbers
  <2> QED
    BY <2>3, <2>4, <2>6
<1>3. CASE PopenFails
  <2>1. /\ UNCHANGED <<said, events, pipe, rescans, interrupts, seen, sent, lock, child, reader>>
        /\ version' = version + 1 /\ main = "popen" /\ main' = "serving"
    BY <1>3 DEF PopenFails, Publish
  <2>2. Ranges'
    BY <1>3 DEF Ranges, PopenFails
  <2>3. Numbers'
    BY <1>1, <2>1 DEF Numbers
  <2>4. Budget'
    BY <1>1, <2>1 DEF Budget, One, Numbers, Starting
  <2> QED
    BY <2>2, <2>3, <2>4
<1>4. CASE WaitOrKill
  <2>1. /\ UNCHANGED <<said, events, pipe, rescans, interrupts, seen, sent, lock, reader, version>>
        /\ child' = "ended" /\ main' = "join" /\ main = "wait"
    BY <1>4 DEF WaitOrKill, Ends
  <2>2. Ranges'
    BY <1>4 DEF Ranges, WaitOrKill, Ends, Closing
  <2>3. Numbers'
    BY <2>1 DEF Numbers
  <2>4. child # "unstarted"
    BY <1>4 DEF WaitOrKill, IInv, Main
  <2>5. Budget'
    BY <1>1, <2>1, <2>4 DEF Budget, One, Numbers, Starting
  <2> QED
    BY <2>2, <2>3, <2>5
<1>5. CASE JoinReaders
  BY <1>5, EndKeepsBInv
<1> QED
  BY <1>2, <1>3, <1>4, <1>5

\* Every step keeps the bounds.
LEMMA NextBInv == IInv /\ BInv /\ [Next]_vars => BInv'
<1> SUFFICES ASSUME IInv, BInv, [Next]_vars PROVE BInv'
  OBVIOUS
<1>1. CASE MainProgress
  BY <1>1, MainKeepsBInv
<1>2. CASE Interrupted \/ InterruptedAgain
  BY <1>2, EndKeepsBInv
<1>3. CASE OnLine \/ OnExit
  BY <1>3, ReaderKeepsBInv
<1>4. CASE ChildStep
  BY <1>4, ChildKeepsBInv
<1>5. ASSUME NEW r \in Requesters, RequestRescan(r) \/ SendRescan(r) PROVE BInv'
  BY <1>5, RescanKeepsBInv
<1>6. ASSUME NEW s \in Streams, StreamProgress(s) \/ StreamOutside(s) PROVE BInv'
  BY <1>6, PagesKeepBInv
<1>7. CASE UNCHANGED vars
  BY <1>7 DEF BInv, Ranges, Numbers, Budget, One, vars, mainVars, stateVars, streamVars, childVars,
              pipeVars, counters
<1> QED
  BY <1>1, <1>2, <1>3, <1>4, <1>5, <1>6, <1>7 DEF Next

\* Every variable keeps its type and its bounds: run_web publishes once for each line, for
\* each rescan request, for the exit of its child and for a failed start, and for nothing
\* else, and no page is sent a version that was not published
\* (WebDashboard._publish, on_line, on_exit, request_rescan, wait_for_change).
THEOREM TypesAreKept == Spec => []TypeOK
<1>1. IInv /\ BInv => TypeOK
  <2> SUFFICES ASSUME IInv, BInv PROVE TypeOK
    OBVIOUS
  <2>1. version \in Nat /\ Len(pipe) \in Nat /\ pipe \in Seq(Lines)
    BY DEF IInv, Types
  <2>2. version <= MaxVersion
    BY <2>1, NumbersAssumption DEF BInv, Budget, Numbers, One, MaxVersion
  <2>3. version \in 0..MaxVersion
    BY <2>1, <2>2, NumbersAssumption DEF MaxVersion
  <2>4. Flags /\ stream \in [Streams -> Points] /\ notified \in [Streams -> BOOLEAN] /\ child \in Stages
    BY DEF IInv, Types
  <2> QED
    BY <2>1, <2>3, <2>4 DEF TypeOK, BInv, Ranges, Numbers, Flags, Points, Stages, Lines
<1>2. Init => BInv
  BY InitBInv
<1>3. IInv /\ BInv /\ [Next]_vars => BInv'
  BY NextBInv
<1> QED
  BY <1>1, <1>2, <1>3, Invariant, PTL DEF Spec

=============================================================================
