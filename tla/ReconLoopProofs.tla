---------------------------- MODULE ReconLoopProofs ----------------------------
(***************************************************************************)
(* What holds of every live run with one receiver, for every length of the *)
(* scan, the watchlist and the run, and any number of signals: its records *)
(* are those that ReconStream allows, none is torn, no SIGUSR1 is lost,    *)
(* and they say how the run ended.                                         *)
(*                                                                         *)
(* The argument: a record is written at one place of the loop only, so the *)
(* control point says what the reader already has; an exception leaves the *)
(* loop for good, and a record that is cut short never counts as written.  *)
(***************************************************************************)
EXTENDS ReconLoop, TLAPS

\* What the reader has when the loop gets to each of its points.
AtPoint ==
    /\ pc \in {"connect", "started"} => stage = "none" /\ iteration = 0 /\ cycles = 0
    /\ pc = "iterate" =>
        /\ stage \in {"recon_started", "cycle_completed"}
        /\ iteration = cycles /\ iteration < Iterations
    /\ pc \in {"poll", "decide", "acquire"} =>
        stage \in {"recon_started", "cycle_completed"} /\ iteration = cycles + 1
    /\ pc \in {"scan", "ranked"} => stage = "acquisition_started" /\ iteration = cycles + 1
    /\ pc = "maintain" =>
        stage \in {"watchlist_updated", "cycle_completed"} /\ iteration = cycles + 1
    /\ pc \in {"hop", "complete"} =>
        stage = "maintenance_started" /\ iteration = cycles + 1 /\ newObs = entered
    /\ pc \in {"cycleEnd", "final"} => stage = "cycle_completed" /\ iteration = cycles
    /\ pc = "leave" => stage = "recon_stopped"

\* The record that the loop is writing, and what the reader has before it.
Sends ==
    \/ /\ record = [type |-> "recon_started"] /\ next = "iterate"
       /\ stage = "none" /\ iteration = 0 /\ cycles = 0
    \/ /\ record = [type |-> "acquisition_started"] /\ next = "scan"
       /\ stage \in {"recon_started", "cycle_completed"} /\ iteration = cycles + 1
    \/ /\ record = [type |-> "scan_step"] /\ next = "scan"
       /\ stage = "acquisition_started" /\ iteration = cycles + 1
    \/ /\ record = [type |-> "watchlist_updated"] /\ next = "maintain"
       /\ stage = "acquisition_started" /\ iteration = cycles + 1
    \/ /\ record = [type |-> "maintenance_started"] /\ next = "hop"
       /\ stage \in {"watchlist_updated", "cycle_completed"} /\ iteration = cycles + 1
       /\ newObs = 0
    \/ /\ \E e \in BOOLEAN : /\ record = [type |-> "hop_result", entered |-> e]
                             /\ newObs = entered + CountEntered(e)
       /\ next = "hop" /\ stage = "maintenance_started" /\ iteration = cycles + 1
    \/ /\ record = [type |-> "cycle_completed"] /\ next = "cycleEnd"
       /\ stage = "maintenance_started" /\ iteration = cycles + 1 /\ newObs = entered
    \/ /\ record = [type |-> "recon_stopped", reason |-> "iterations"] /\ next = "leave"
       /\ stage = "cycle_completed" /\ iteration = cycles

Flow ==
    /\ cycles \in Nat /\ entered \in Nat /\ iteration \in {cycles, cycles + 1}
    /\ AtPoint
    /\ pc = "writing" => Sends
    /\ pc = "saying" =>
        record = [type |-> "recon_stopped", reason |-> "interrupted"] /\ next = "over"
    /\ reason = "interrupted" => pc = "over"

\* SIGINT is held exactly while a record is written, and only then half a line is out.
Masking ==
    /\ masked <=> Writing
    /\ pending => masked
    /\ readerOpen /\ ~Writing => ~torn

\* A request that came and has not been served can still be seen, or has been.
Requests ==
    owed /\ pc \in InWith \cup {"connect"} =>
        received # seen \/ (asked /\ pc \in {"decide", "acquire"})

\* What has ended a loop that is no longer in its body, and after how many interrupts.
Ends ==
    /\ pc \in InWith \cup {"connect"} =>
        exc = "none" /\ (interrupts # 0 => pc = "writing" /\ pending)
    /\ pc = "closing" /\ exc # "interrupt" =>
        interrupts = 0 /\ (exc = "none" => stage = "recon_stopped")
    /\ pc = "closing" /\ exc = "interrupt" => interrupts >= 1
    /\ pc \in {"handler", "saying"} => exc = "interrupt" /\ interrupts >= 1
    /\ pending => interrupts >= 1 /\ (pc = "saying" => interrupts >= 2)
    /\ RunsSayHowTheyEnd

IInv == TypeOK /\ Flow /\ Masking

-----------------------------------------------------------------------------

\* The watchlist that a scan yields is no longer than the scan.
LEMMA WatchlistFits ==
    ASSUME TypeOK
    PROVE  NextWatchlist \in 0..Tunings
<1>1. withRds \in 0..Tunings /\ withCt \in 0..Tunings
  BY NumbersAssumption DEF TypeOK
<1>2. ASSUME NEW j \in 0..Tunings PROVE Min({MaxWatchlist, j}) \in 0..Tunings
  <2> DEFINE m == Min({MaxWatchlist, j})
  <2>1. MaxWatchlist \in Nat /\ j \in 0..Tunings /\ Tunings \in Nat
    BY NumbersAssumption
  <2>2. \E x \in {MaxWatchlist, j} : \A y \in {MaxWatchlist, j} : x <= y
    BY <2>1
  <2>3. m \in {MaxWatchlist, j} /\ \A y \in {MaxWatchlist, j} : m <= y
    BY <2>2, Zenon DEF Min
  <2> HIDE DEF m
  <2>4. m <= j /\ (m = MaxWatchlist \/ m = j)
    BY <2>3
  <2>5. m \in 0..Tunings
    BY <2>1, <2>4
  <2> QED BY <2>5 DEF m
<1> QED BY <1>1, <1>2 DEF NextWatchlist

\* A record that is begun at a point where it is due, in the loop or in the handler.
LEMMA WriteBegins ==
    ASSUME NEW rec, NEW there \in Points, IInv, Write(rec, there),
           pc \in InWith \cup {"handler"}, pc # "writing"
    PROVE  /\ record' = rec /\ next' = there
           /\ pc' = IF pc = "handler" THEN "saying" ELSE "writing"
           /\ pc' \in Points /\ next' \in Points
           /\ masked' = TRUE /\ torn' = readerOpen /\ pending' = pending /\ exc' = exc
           /\ Masking'
<1>1. /\ record' = rec /\ next' = there
      /\ pc' = (IF pc = "handler" THEN "saying" ELSE "writing")
      /\ masked' = TRUE /\ torn' = readerOpen /\ pending' = pending /\ exc' = exc
  BY DEF Write
<1>2. pc' \in {"writing", "saying"} /\ Writing'
  BY <1>1 DEF Writing
<1>3. Masking'
  BY <1>1, <1>2, Zenon DEF Masking
<1> QED BY <1>1, <1>2, <1>3 DEF Points, InWith

\* Every record is begun where it is due.
LEMMA RecordsBegin ==
    ASSUME IInv, UNCHANGED mode,
           \/ PublishStarted \/ Acquire \/ ScanOne \/ PublishWatchlist \/ Maintain
           \/ HopOne \/ CompleteCycle \/ PublishFinished \/ PublishInterrupted
    PROVE  IInv'
<1> USE DEF IInv
<1>1. CASE PublishStarted
  <2>1. /\ record' = [type |-> "recon_started"] /\ next' = "iterate" /\ pc = "started"
        /\ pc' = "writing" /\ next' \in Points /\ pc' \in Points
        /\ masked' = TRUE /\ torn' = readerOpen /\ pending' = pending /\ exc' = exc /\ Masking'
    BY <1>1, WriteBegins DEF PublishStarted, Milestone, InWith, Points
  <2>2. UNCHANGED <<streamVars, readerOpen, interrupts, cycleVars, askVars>>
    BY <1>1 DEF PublishStarted, Milestone
  <2>3. TypeOK'
    BY <2>1, <2>2, Zenon DEF TypeOK, cycleVars, askVars
  <2>4. Flow'
    BY <2>1, <2>2 DEF Flow, AtPoint, Sends, streamVars, cycleVars
  <2> QED BY <2>1, <2>3, <2>4
<1>2. CASE Acquire
  <2>1. /\ record' = [type |-> "acquisition_started"] /\ next' = "scan" /\ pc = "acquire"
        /\ pc' = "writing" /\ next' \in Points /\ pc' \in Points
        /\ masked' = TRUE /\ torn' = readerOpen /\ pending' = pending /\ exc' = exc /\ Masking'
    BY <1>2, WriteBegins DEF Acquire, Milestone, InWith, Points
  <2>2. UNCHANGED <<streamVars, readerOpen, interrupts, iteration, watchlist, hopped, newObs, received, seen, got, asked>>
    BY <1>2 DEF Acquire, Milestone
  <2>3. scanned' = 0 /\ withCt' = 0 /\ withRds' = 0 /\ owed' \in BOOLEAN
    BY <1>2 DEF Acquire
  <2>4. /\ scanned' \in 0..Tunings /\ withRds' \in 0..scanned' /\ withCt' \in 0..withRds'
    BY <2>3, NumbersAssumption
  <2>5. TypeOK'
    BY <2>1, <2>2, <2>3, <2>4, Zenon DEF TypeOK
  <2>6. Flow'
    BY <2>1, <2>2 DEF Flow, AtPoint, Sends, streamVars
  <2> QED BY <2>1, <2>5, <2>6
<1>3. CASE ScanOne
  <2>1. /\ record' = [type |-> "scan_step"] /\ next' = "scan" /\ pc = "scan"
        /\ pc' = "writing" /\ next' \in Points /\ pc' \in Points
        /\ masked' = TRUE /\ torn' = readerOpen /\ pending' = pending /\ exc' = exc /\ Masking'
    BY <1>3, WriteBegins DEF ScanOne, InWith, Points
  <2>2. UNCHANGED <<streamVars, readerOpen, interrupts, iteration, watchlist, hopped, newObs, askVars>>
    BY <1>3 DEF ScanOne
  <2>3. /\ scanned' \in 0..Tunings /\ withRds' \in 0..scanned' /\ withCt' \in 0..withRds'
    BY <1>3, NumbersAssumption DEF ScanOne, TypeOK
  <2>4. TypeOK'
    BY <2>1, <2>2, <2>3, Zenon DEF TypeOK, askVars
  <2>5. Flow'
    BY <2>1, <2>2 DEF Flow, AtPoint, Sends, streamVars
  <2> QED BY <2>1, <2>4, <2>5
<1>4. CASE PublishWatchlist
  <2>1. /\ record' = [type |-> "watchlist_updated"] /\ next' = "maintain" /\ pc = "ranked"
        /\ pc' = "writing" /\ next' \in Points /\ pc' \in Points
        /\ masked' = TRUE /\ torn' = readerOpen /\ pending' = pending /\ exc' = exc /\ Masking'
    BY <1>4, WriteBegins DEF PublishWatchlist, Milestone, InWith, Points
  <2>2. UNCHANGED <<streamVars, readerOpen, interrupts, cycleVars, askVars>>
    BY <1>4 DEF PublishWatchlist, Milestone
  <2>3. TypeOK'
    BY <2>1, <2>2, Zenon DEF TypeOK, cycleVars, askVars
  <2>4. Flow'
    BY <2>1, <2>2 DEF Flow, AtPoint, Sends, streamVars, cycleVars
  <2> QED BY <2>1, <2>3, <2>4
<1>5. CASE Maintain
  <2>1. /\ record' = [type |-> "maintenance_started"] /\ next' = "hop" /\ pc = "maintain"
        /\ pc' = "writing" /\ next' \in Points /\ pc' \in Points
        /\ masked' = TRUE /\ torn' = readerOpen /\ pending' = pending /\ exc' = exc /\ Masking'
    BY <1>5, WriteBegins DEF Maintain, Milestone, InWith, Points
  <2>2. UNCHANGED <<streamVars, readerOpen, interrupts, iteration, scanned, withCt, withRds, watchlist, askVars>>
    BY <1>5 DEF Maintain, Milestone
  <2>3. hopped' = 0 /\ newObs' = 0
    BY <1>5 DEF Maintain
  <2>4. hopped' \in 0..watchlist' /\ newObs' \in 0..hopped'
    BY <2>2, <2>3, NumbersAssumption DEF TypeOK
  <2>5. TypeOK'
    BY <2>1, <2>2, <2>4, Zenon DEF TypeOK, askVars
  <2>6. Flow'
    BY <2>1, <2>2, <2>3 DEF Flow, AtPoint, Sends, streamVars
  <2> QED BY <2>1, <2>5, <2>6
<1>6. CASE HopOne
  <2>0. PICK e \in BOOLEAN : /\ Write([type |-> "hop_result", entered |-> e], "hop")
                             /\ newObs' = newObs + CountEntered(e)
    BY <1>6 DEF HopOne
  <2>1. /\ record' = [type |-> "hop_result", entered |-> e] /\ next' = "hop" /\ pc = "hop"
        /\ pc' = "writing" /\ next' \in Points /\ pc' \in Points
        /\ masked' = TRUE /\ torn' = readerOpen /\ pending' = pending /\ exc' = exc /\ Masking'
    BY <1>6, <2>0, WriteBegins DEF HopOne, InWith, Points
  <2>2. UNCHANGED <<streamVars, readerOpen, interrupts, iteration, scanned, withCt, withRds, watchlist, askVars>>
    BY <1>6 DEF HopOne
  <2>3. hopped' \in 0..watchlist /\ newObs' \in 0..hopped'
    BY <1>6, <2>0, NumbersAssumption DEF HopOne, TypeOK, CountEntered
  <2>4. TypeOK'
    BY <2>1, <2>2, <2>3, Zenon DEF TypeOK, askVars
  <2>5. Flow'
    <3>1. entered' = entered /\ newObs = entered
      BY <2>1, <2>2 DEF Flow, AtPoint, streamVars
    <3>2. newObs' = entered' + CountEntered(e)
      BY <2>0, <3>1
    <3> QED BY <2>1, <2>2, <3>2 DEF Flow, AtPoint, Sends, streamVars
  <2> QED BY <2>1, <2>4, <2>5
<1>7. CASE CompleteCycle
  <2>1. /\ record' = [type |-> "cycle_completed"] /\ next' = "cycleEnd" /\ pc = "complete"
        /\ pc' = "writing" /\ next' \in Points /\ pc' \in Points
        /\ masked' = TRUE /\ torn' = readerOpen /\ pending' = pending /\ exc' = exc /\ Masking'
    BY <1>7, WriteBegins DEF CompleteCycle, Milestone, InWith, Points
  <2>2. UNCHANGED <<streamVars, readerOpen, interrupts, cycleVars, askVars>>
    BY <1>7 DEF CompleteCycle, Milestone
  <2>3. TypeOK'
    BY <2>1, <2>2, Zenon DEF TypeOK, cycleVars, askVars
  <2>4. Flow'
    BY <2>1, <2>2 DEF Flow, AtPoint, Sends, streamVars, cycleVars
  <2> QED BY <2>1, <2>3, <2>4
<1>8. CASE PublishFinished
  <2>1. /\ record' = [type |-> "recon_stopped", reason |-> "iterations"] /\ next' = "leave" /\ pc = "final"
        /\ pc' = "writing" /\ next' \in Points /\ pc' \in Points
        /\ masked' = TRUE /\ torn' = readerOpen /\ pending' = pending /\ exc' = exc /\ Masking'
    BY <1>8, WriteBegins DEF PublishFinished, InWith, Points
  <2>2. UNCHANGED <<streamVars, readerOpen, interrupts, cycleVars, askVars>>
    BY <1>8 DEF PublishFinished
  <2>3. TypeOK'
    BY <2>1, <2>2, Zenon DEF TypeOK, cycleVars, askVars
  <2>4. Flow'
    BY <2>1, <2>2 DEF Flow, AtPoint, Sends, streamVars, cycleVars
  <2> QED BY <2>1, <2>3, <2>4
<1>9. CASE PublishInterrupted
  <2>1. /\ record' = [type |-> "recon_stopped", reason |-> "interrupted"] /\ next' = "over" /\ pc = "handler"
        /\ pc' = "saying" /\ next' \in Points /\ pc' \in Points
        /\ masked' = TRUE /\ torn' = readerOpen /\ pending' = pending /\ exc' = exc /\ Masking'
    <3>1. pc = "handler" /\ Write([type |-> "recon_stopped", reason |-> "interrupted"], "over")
      BY <1>9 DEF PublishInterrupted
    <3>2. "over" \in Points /\ pc \in InWith \cup {"handler"} /\ pc # "writing"
      BY <3>1 DEF Points
    <3> QED BY <3>1, <3>2, WriteBegins
  <2>2. UNCHANGED <<streamVars, readerOpen, interrupts, cycleVars, askVars>>
    BY <1>9 DEF PublishInterrupted
  <2>3. TypeOK'
    BY <2>1, <2>2, Zenon DEF TypeOK, cycleVars, askVars
  <2>4. Flow'
    BY <2>1, <2>2 DEF Flow, AtPoint, Sends, streamVars, cycleVars
  <2> QED BY <2>1, <2>3, <2>4
<1> QED BY <1>1, <1>2, <1>3, <1>4, <1>5, <1>6, <1>7, <1>8, <1>9

\* The steps of the loop that write nothing.
LEMMA LoopMoves ==
    ASSUME IInv, UNCHANGED mode,
           \/ Connect \/ BeginIteration \/ Consume \/ Decide \/ Rank \/ HopsDone
           \/ EndCycle \/ Leave \/ Close
    PROVE  IInv'
<1> USE DEF IInv
<1>1. /\ UNCHANGED <<writeVars, streamVars, readerOpen, interrupts, exc>>
      /\ pc \notin {"writing", "saying"} /\ pc' \notin {"writing", "saying"}
  BY DEF Connect, BeginIteration, Consume, Decide, Rank, HopsDone, EndCycle, Leave, Close
<1>2. Masking'
  <2>1. ~Writing /\ ~Writing'
    BY <1>1 DEF Writing
  <2>2. UNCHANGED <<masked, pending, torn, readerOpen>>
    BY <1>1 DEF writeVars
  <2> QED BY <2>1, <2>2, Zenon DEF Masking
<1>3. pc' \in Points
  BY DEF Connect, BeginIteration, Consume, Decide, Rank, HopsDone, EndCycle, Leave, Close,
         Points, InWith
<1>4. /\ iteration' \in 0..Iterations /\ watchlist' \in 0..Tunings /\ hopped' \in 0..watchlist'
      /\ newObs' \in 0..hopped' /\ seen' \in 0..received /\ got' \in 0..received
      /\ asked' \in BOOLEAN
  <2>1. CASE BeginIteration
    BY <2>1, NumbersAssumption DEF BeginIteration, TypeOK, Flow, AtPoint
  <2>2. CASE Consume
    BY <2>2 DEF Consume, TypeOK, cycleVars
  <2>3. CASE Rank
    BY <2>3, WatchlistFits DEF Rank, TypeOK, askVars
  <2>4. CASE UNCHANGED <<cycleVars, askVars>>
    BY <2>4, Zenon DEF TypeOK, cycleVars, askVars
  <2> QED BY <2>1, <2>2, <2>3, <2>4 DEF Connect, Decide, HopsDone, EndCycle, Leave, Close
<1>5. UNCHANGED <<scanned, withCt, withRds, received, owed>>
  BY DEF Connect, BeginIteration, Consume, Decide, Rank, HopsDone, EndCycle, Leave, Close,
         cycleVars, askVars
<1>6. TypeOK'
  BY <1>1, <1>3, <1>4, <1>5, Zenon DEF TypeOK, writeVars
<1>7. Flow'
  <2>1. CASE BeginIteration
    BY <1>1, <2>1 DEF BeginIteration, Flow, AtPoint, streamVars
  <2>2. CASE Rank
    BY <1>1, <2>2 DEF Rank, Flow, AtPoint, streamVars
  <2>3. CASE Decide
    <3>1. UNCHANGED cycleVars
      BY <2>3 DEF Decide
    <3>2. pc = "decide" /\ pc' \in {"acquire", "maintain"}
      BY <2>3 DEF Decide
    <3>3. pc' = "maintain" => stage # "recon_started"
      BY <2>3 DEF Decide, Acquires
    <3> QED BY <1>1, <3>1, <3>2, <3>3 DEF Flow, AtPoint, streamVars, cycleVars
  <2>4. CASE EndCycle
    BY <1>1, <2>4, NumbersAssumption DEF EndCycle, Flow, AtPoint, streamVars, cycleVars, TypeOK
  <2>5. CASE Connect \/ Consume \/ HopsDone \/ Leave \/ Close
    BY <1>1, <2>5 DEF Connect, Consume, HopsDone, Leave, Close, Flow, AtPoint, streamVars, cycleVars
  <2> QED BY <2>1, <2>2, <2>3, <2>4, <2>5
<1> QED BY <1>2, <1>6, <1>7

\* An exception outside a record leaves the loop, wherever it comes.
LEMMA ExceptionsLeave ==
    ASSUME IInv, NEW kind \in {"error", "reader", "interrupt"}, NEW from \in Points,
           Raised(kind, from)
    PROVE  /\ pc' \in {"closing", "handler", "over"} /\ pc' \in Points
           /\ exc' \in {"none", "error", "reader", "interrupt"}
           /\ pc' \notin {"writing", "saying"}
           /\ from \notin InWith /\ from \notin TryOutsideWith => pc' = "over"
<1>1. pc' = CASE from \in InWith -> "closing"
              [] from \in TryOutsideWith /\ kind = "interrupt" -> "handler"
              [] OTHER -> "over"
  BY DEF Raised
<1>2. exc' = kind
  BY DEF Raised
<1> QED BY <1>1, <1>2 DEF Points

\* What happens to the loop from outside it.
LEMMA OutsideHappens ==
    ASSUME IInv, UNCHANGED mode, ReceiverFails \/ SigInt \/ SigUsr1 \/ ReaderCloses
    PROVE  IInv'
<1> USE DEF IInv
<1>1. UNCHANGED <<record, next, masked, torn, cycleVars, streamVars, seen, got, asked>>
  BY DEF ReceiverFails, SigInt, SigUsr1, ReaderCloses, writeVars, askVars
<1>2. CASE ReceiverFails
  <2>1. UNCHANGED <<pending, askVars, readerOpen, interrupts>>
    BY <1>2 DEF ReceiverFails, writeVars
  <2>2. /\ pc' \in {"closing", "handler", "over"} /\ pc' \in Points
        /\ exc' \in {"none", "error", "reader", "interrupt"}
    BY <1>2, ExceptionsLeave DEF ReceiverFails, TypeOK
  <2>3. pc \in {"connect", "scan", "hop"}
    BY <1>2 DEF ReceiverFails
  <2>4. TypeOK'
    BY <1>1, <2>1, <2>2, Zenon DEF TypeOK, cycleVars, askVars
  <2>5. Flow'
    BY <1>1, <2>2, <2>3 DEF Flow, AtPoint, streamVars, cycleVars
  <2>6. ~Writing /\ ~Writing'
    BY <2>2, <2>3 DEF Writing
  <2>7. Masking'
    BY <1>1, <2>1, <2>6, Zenon DEF Masking
  <2> QED BY <2>4, <2>5, <2>7
<1>3. CASE SigInt /\ masked
  <2>0. interrupts' \in 0..MaxInterrupts
    BY <1>3, NumbersAssumption DEF SigInt, TypeOK
  <2>1. pending' = TRUE /\ UNCHANGED <<pc, exc, askVars, readerOpen>>
    BY <1>3, Zenon DEF SigInt
  <2>2. TypeOK'
    BY <1>1, <2>0, <2>1, Zenon DEF TypeOK, cycleVars, askVars
  <2>3. Flow'
    BY <1>1, <2>1 DEF Flow, AtPoint, Sends, streamVars, cycleVars
  <2>4. Writing' <=> Writing
    BY <2>1 DEF Writing
  <2>5. Masking'
    BY <1>1, <1>3, <2>1, <2>4, Zenon DEF Masking
  <2> QED BY <2>2, <2>3, <2>5
<1>4. CASE SigInt /\ ~masked
  <2>0. interrupts' \in 0..MaxInterrupts
    BY <1>4, NumbersAssumption DEF SigInt, TypeOK
  <2>1. Raised("interrupt", pc) /\ pc # "over" /\ UNCHANGED <<pending, askVars, readerOpen>>
    BY <1>4, Zenon DEF SigInt
  <2>2. /\ pc' \in {"closing", "handler", "over"} /\ pc' \in Points
        /\ exc' \in {"none", "error", "reader", "interrupt"}
    BY <2>1, ExceptionsLeave DEF TypeOK
  <2>3. ~Writing /\ ~Writing'
    BY <1>4, <2>2 DEF Writing, Masking
  <2>4. TypeOK'
    BY <1>1, <2>0, <2>1, <2>2, Zenon DEF TypeOK, cycleVars, askVars
  <2>5. Flow'
    BY <1>1, <2>1, <2>2 DEF Flow, AtPoint, streamVars, cycleVars
  <2>6. Masking'
    BY <1>1, <2>1, <2>3, Zenon DEF Masking
  <2> QED BY <2>4, <2>5, <2>6
<1>5. CASE SigUsr1
  <2>1. UNCHANGED <<pc, exc, pending, readerOpen, interrupts>>
    BY <1>5 DEF SigUsr1, writeVars
  <2>2. received' \in 0..MaxRescans /\ received' >= received /\ owed' = TRUE
    BY <1>5, NumbersAssumption DEF SigUsr1, TypeOK
  <2>3. seen' \in 0..received' /\ got' \in 0..received'
    BY <1>1, <2>2, NumbersAssumption DEF TypeOK
  <2>4. TypeOK'
    BY <1>1, <2>1, <2>2, <2>3, Zenon DEF TypeOK, cycleVars
  <2>5. Flow'
    BY <1>1, <2>1 DEF Flow, AtPoint, Sends, streamVars, cycleVars
  <2>6. Writing' <=> Writing
    BY <2>1 DEF Writing
  <2>7. Masking'
    BY <1>1, <2>1, <2>6, Zenon DEF Masking
  <2> QED BY <2>4, <2>5, <2>7
<1>6. CASE ReaderCloses
  <2>1. readerOpen' = FALSE /\ UNCHANGED <<pc, exc, pending, askVars, interrupts>>
    BY <1>6 DEF ReaderCloses, writeVars
  <2>2. TypeOK'
    BY <1>1, <2>1, Zenon DEF TypeOK, cycleVars, askVars
  <2>3. Flow'
    BY <1>1, <2>1 DEF Flow, AtPoint, Sends, streamVars, cycleVars
  <2>4. Writing' <=> Writing
    BY <2>1 DEF Writing
  <2>5. Masking'
    BY <1>1, <2>1, <2>4, Zenon DEF Masking
  <2> QED BY <2>2, <2>3, <2>5
<1> QED BY <1>2, <1>3, <1>4, <1>5, <1>6

\* A record that is written whole is what the reader has from then on.
LEMMA RecordsEnd ==
    ASSUME IInv, UNCHANGED mode, FinishWrite
    PROVE  IInv'
<1> USE DEF IInv
<1>1. /\ pc \in {"writing", "saying"} /\ masked' = FALSE /\ pending' = FALSE
      /\ UNCHANGED <<record, next, cycleVars, askVars, readerOpen, interrupts>>
  BY DEF FinishWrite
<1>2. torn' \in BOOLEAN /\ (readerOpen => ~torn')
  <2>1. torn' = FALSE \/ (torn' = torn /\ ~readerOpen)
    BY Zenon DEF FinishWrite
  <2> QED BY <2>1 DEF TypeOK
<1>3. /\ pc' \notin {"writing", "saying"} /\ pc' \in Points
      /\ exc' \in {"none", "error", "reader", "interrupt"}
      /\ \/ pc' \in {"closing", "handler"} /\ pc = "writing"
         \/ pc' = "over" /\ pc = "saying"
         \/ pc' = next /\ readerOpen
  <2>1. CASE pc' = next /\ exc' = exc /\ readerOpen
    <3>1. next \in Points \ {"writing", "saying"}
      BY <1>1 DEF Flow, Sends, Points, InWith
    <3> QED BY <2>1, <3>1 DEF TypeOK
  <2>2. CASE Raised("interrupt", pc) \/ Raised("reader", pc)
    BY <1>1, <2>2 DEF Raised, Points, InWith, TryOutsideWith
  <2> QED BY <2>1, <2>2 DEF FinishWrite
<1>4. TypeOK'
  <2>1. masked' \in BOOLEAN /\ pending' \in BOOLEAN
    BY <1>1
  <2> QED BY <1>1, <1>2, <1>3, <2>1, Zenon DEF TypeOK, cycleVars, askVars
<1>5. Masking'
  <2>1. ~Writing'
    BY <1>3 DEF Writing
  <2> QED BY <1>1, <1>2, <2>1, Zenon DEF Masking
<1>6. Flow'
  <2>1. CASE readerOpen
    <3>1. Appended
      BY <2>1 DEF FinishWrite
    <3>2. /\ cycles \in Nat /\ entered \in Nat /\ reason # "interrupted"
          /\ iteration \in {cycles, cycles + 1}
      BY <1>1 DEF Flow
    <3>3. CASE pc = "saying"
      BY <1>1, <1>3, <3>1, <3>2, <3>3 DEF Flow, AtPoint, Appended, cycleVars
    <3>4. CASE pc = "writing"
      <4>1. Sends /\ pc' \in {next, "closing", "handler"}
        BY <1>3, <3>4 DEF Flow
      <4>2. /\ cycles' \in Nat /\ entered' \in Nat /\ iteration' \in {cycles', cycles' + 1}
            /\ reason' # "interrupted"
        BY <1>1, <3>1, <3>2, <4>1 DEF Sends, Appended, cycleVars, CountEntered
      <4>3. CASE pc' \in {"closing", "handler"}
        BY <4>2, <4>3 DEF Flow, AtPoint
      <4>4. CASE pc' = next
        <5>1. AtPoint'
          BY <1>1, <3>1, <3>2, <4>1, <4>4, NumbersAssumption DEF Sends, Appended, AtPoint, cycleVars, CountEntered
        <5> QED BY <1>3, <4>2, <5>1 DEF Flow
      <4> QED BY <4>1, <4>3, <4>4
    <3> QED BY <1>1, <3>3, <3>4
  <2>2. CASE ~readerOpen
    <3>1. UNCHANGED streamVars /\ pc' \in {"closing", "handler", "over"}
      BY <1>3, <2>2 DEF FinishWrite
    <3> QED BY <1>1, <1>3, <3>1 DEF Flow, AtPoint, streamVars, cycleVars
  <2> QED BY <2>1, <2>2
<1> QED BY <1>4, <1>5, <1>6

-----------------------------------------------------------------------------

\* The inductive invariant of every run with one receiver.
THEOREM LoopCorrect == Spec => []IInv
<1>1. Init => IInv
  <2> SUFFICES ASSUME Init PROVE IInv
    OBVIOUS
  <2>1. /\ masked \in BOOLEAN /\ pending \in BOOLEAN /\ torn \in BOOLEAN
        /\ asked \in BOOLEAN /\ owed \in BOOLEAN /\ readerOpen \in BOOLEAN
    BY Zenon DEF Init
  <2>2. TypeOK
    BY <2>1, NumbersAssumption DEF Init, TypeOK, Points
  <2>3. Flow
    BY DEF Init, Flow, AtPoint
  <2>4. ~Writing /\ ~masked /\ ~pending /\ ~torn
    BY DEF Init, Writing
  <2> QED BY <2>2, <2>3, <2>4, Zenon DEF IInv, Masking
<1>2. IInv /\ [Next]_vars => IInv'
  <2> SUFFICES ASSUME IInv, [Next]_vars PROVE IInv'
    OBVIOUS
  <2>1. CASE Next
    BY <2>1, RecordsBegin, LoopMoves, OutsideHappens, RecordsEnd DEF Next, Work
  <2>2. CASE UNCHANGED vars
    <3>1. UNCHANGED <<mode, pc, exc, readerOpen, interrupts, record, next, masked, pending, torn,
                      cycleVars, askVars, streamVars>>
      BY <2>2 DEF vars, writeVars
    <3>2. TypeOK'
      BY <3>1, Zenon DEF IInv, TypeOK, cycleVars, askVars
    <3>3. Flow'
      BY <3>1 DEF IInv, Flow, AtPoint, Sends, streamVars, cycleVars
    <3>4. Writing' <=> Writing
      BY <3>1 DEF Writing
    <3>5. Masking'
      BY <3>1, <3>4, Zenon DEF IInv, Masking
    <3> QED BY <3>2, <3>3, <3>5 DEF IInv
  <2> QED BY <2>1, <2>2
<1> QED BY <1>1, <1>2, PTL DEF Spec

\* One receiver's loop implements the stream of records that the readers rely on, for
\* every length of a scan, a watchlist and a run and wherever signals and failures come
\* (run_recon, _write_event_line).
THEOREM LoopWritesTheStream == Spec => StreamInOrder
<1>1. Init => Stream!Init
  BY DEF Init, Stream!Init
<1>2. IInv /\ [Next]_vars => [Stream!Next]_(Stream!streamVars)
  <2> SUFFICES ASSUME IInv, [Next]_vars PROVE Stream!Next \/ UNCHANGED streamVars
    BY DEF streamVars, Stream!streamVars
  <2>1. CASE FinishWrite /\ readerOpen
    <3>1. Appended /\ UNCHANGED cycleVars /\ pc \in {"writing", "saying"}
      BY <2>1 DEF FinishWrite
    <3>2. /\ cycles \in Nat /\ entered \in Nat /\ iteration \in {cycles, cycles + 1}
          /\ reason # "interrupted"
      BY <3>1 DEF IInv, Flow
    <3>3. CASE pc = "saying"
      <4>1. Stream!ReconStopped
        BY <3>1, <3>2, <3>3 DEF IInv, Flow, Appended, Stream!ReconStopped
      <4> QED BY <4>1 DEF Stream!Next
    <3>4. CASE pc = "writing"
      <4>1. Sends
        BY <3>4 DEF IInv, Flow
      <4>2. CASE record = [type |-> "recon_started"]
        <5>1. Stream!ReconStarted
          BY <3>1, <4>1, <4>2 DEF Sends, Appended, Stream!ReconStarted
        <5> QED BY <5>1 DEF Stream!Next
      <4>3. CASE record = [type |-> "acquisition_started"]
        <5>1. Stream!AcquisitionStarted
          BY <3>1, <4>1, <4>3 DEF Sends, Appended, Stream!AcquisitionStarted, Stream!InCycle
        <5> QED BY <5>1 DEF Stream!Next
      <4>4. CASE record = [type |-> "scan_step"]
        BY <3>1, <4>1, <4>4 DEF Sends, Appended, streamVars
      <4>5. CASE record = [type |-> "watchlist_updated"]
        <5>1. Stream!WatchlistUpdated
          BY <3>1, <4>1, <4>5 DEF Sends, Appended, Stream!WatchlistUpdated, Stream!InCycle
        <5> QED BY <5>1 DEF Stream!Next
      <4>6. CASE record = [type |-> "maintenance_started"]
        <5>1. Stream!MaintenanceStarted
          BY <3>1, <4>1, <4>6 DEF Sends, Appended, Stream!MaintenanceStarted, Stream!InCycle
        <5> QED BY <5>1 DEF Stream!Next
      <4>7. ASSUME NEW e \in BOOLEAN, record = [type |-> "hop_result", entered |-> e]
            PROVE  Stream!HopResult \/ UNCHANGED streamVars
        BY <3>1, <4>1, <4>7 DEF Sends, Appended, Stream!HopResult, streamVars
      <4>8. CASE record = [type |-> "cycle_completed"]
        <5>1. Stream!CycleCompleted
          BY <3>1, <3>2, <4>1, <4>8 DEF Sends, Appended, Stream!CycleCompleted, Stream!InCycle, cycleVars
        <5> QED BY <5>1 DEF Stream!Next
      <4>9. CASE record = [type |-> "recon_stopped", reason |-> "iterations"]
        <5>1. Stream!ReconStopped
          BY <3>1, <3>2, <4>1, <4>9 DEF Sends, Appended, Stream!ReconStopped
        <5> QED BY <5>1 DEF Stream!Next
      <4> QED BY <4>1, <4>2, <4>3, <4>4, <4>5, <4>6, <4>7, <4>8, <4>9 DEF Sends, Stream!Next
    <3> QED BY <3>1, <3>3, <3>4
  <2>2. CASE FinishWrite /\ ~readerOpen
    BY <2>2 DEF FinishWrite
  <2>3. CASE UNCHANGED streamVars
    BY <2>3
  <2> QED BY <2>1, <2>2, <2>3 DEF Next, Work, Connect, PublishStarted, BeginIteration, Consume,
      Decide, Acquire, ScanOne, Rank, PublishWatchlist, Maintain, HopOne, HopsDone,
      CompleteCycle, EndCycle, PublishFinished, Leave, Close, PublishInterrupted,
      Milestone, ReceiverFails, SigInt, SigUsr1, ReaderCloses, vars
<1> QED BY <1>1, <1>2, LoopCorrect, PTL DEF Spec, StreamInOrder, Stream!Spec

\* No signal tears a record, however many come (_write_event_line).
THEOREM RecordsAreWhole == Spec => NoRecordIsTorn
<1>1. IInv => (~Writing /\ readerOpen => ~torn)
  BY Zenon DEF IInv, Masking
<1>2. IInv /\ [Next]_vars => [~Writing /\ Writing' /\ readerOpen => ~torn]_vars
  BY <1>1
<1> QED BY <1>2, LoopCorrect, PTL DEF Spec, NoRecordIsTorn

\* No request for a scan is lost, for any number of them and wherever they fall
\* (_RescanRequests, run_recon).
THEOREM RequestsAreServed == Spec => []NoRescanIsLost
<1>1. Init => Requests
  BY Zenon DEF Init, Requests
<1>2. IInv /\ Requests /\ [Next]_vars => Requests'
  <2> SUFFICES ASSUME IInv, Requests, [Next]_vars PROVE Requests'
    OBVIOUS
  <2>0. received \in Nat /\ seen \in Nat /\ got \in Nat /\ seen <= received /\ asked \in BOOLEAN
    BY NumbersAssumption DEF IInv, TypeOK
  <2>1. CASE Consume
    <3>1. /\ pc = "poll" /\ pc' = "decide" /\ seen' = got /\ UNCHANGED <<received, owed>>
          /\ asked' <=> got # seen
      BY <2>1 DEF Consume
    <3> QED BY <2>0, <3>1 DEF Requests, InWith
  <2>2. CASE Decide
    <3>1. /\ pc = "decide" /\ UNCHANGED <<received, seen, owed, asked>>
          /\ asked => pc' = "acquire"
      BY <2>2 DEF Decide, Acquires, askVars
    <3> QED BY <3>1 DEF Requests, InWith
  <2>3. CASE Acquire
    <3>1. ~owed'
      BY <2>3 DEF Acquire
    <3> QED BY <3>1 DEF Requests
  <2>4. CASE SigUsr1
    <3>1. received' = received + 1 /\ seen' = seen
      BY <2>4 DEF SigUsr1
    <3> QED BY <2>0, <3>1 DEF Requests
  <2>5. CASE FinishWrite
    <3>1. UNCHANGED <<received, seen, owed, asked>> /\ pc \in {"writing", "saying"}
      BY <2>5 DEF FinishWrite, askVars
    <3>2. pc = "saying" => pc' = "over"
      BY <2>5 DEF FinishWrite, Raised, InWith, TryOutsideWith, IInv, Flow
    <3> QED BY <3>1, <3>2 DEF Requests, InWith
  <2>6. CASE ReceiverFails \/ (SigInt /\ ~masked) \/ Close
    <3>1. UNCHANGED <<received, seen, owed, asked>> /\ pc' \in {"closing", "handler", "over"}
      BY <2>6, Zenon DEF ReceiverFails, SigInt, Close, Raised, askVars
    <3> QED BY <3>1 DEF Requests, InWith
  <2>7. CASE (SigInt /\ masked) \/ ReaderCloses \/ UNCHANGED vars
    <3>1. UNCHANGED <<received, seen, owed, asked, pc>>
      BY <2>7 DEF SigInt, ReaderCloses, vars, askVars
    <3> QED BY <3>1 DEF Requests
  <2>8. CASE Connect \/ PublishStarted \/ BeginIteration \/ ScanOne \/ Rank \/ PublishWatchlist
             \/ Maintain \/ HopOne \/ HopsDone \/ CompleteCycle \/ EndCycle \/ PublishFinished
             \/ Leave \/ PublishInterrupted
    <3>1. UNCHANGED <<received, seen, owed, asked>>
      BY <2>8 DEF Connect, PublishStarted, BeginIteration, ScanOne, Rank, PublishWatchlist,
         Maintain, HopOne, HopsDone, CompleteCycle, EndCycle, PublishFinished, Leave,
         PublishInterrupted, Milestone, askVars
    <3>2. \/ pc \in (InWith \cup {"connect"}) \ {"decide", "acquire"}
          \/ PublishInterrupted
      BY <2>8 DEF Connect, PublishStarted, BeginIteration, ScanOne, Rank, PublishWatchlist,
         Maintain, HopOne, HopsDone, CompleteCycle, EndCycle, PublishFinished, Leave,
         Milestone, InWith
    <3>3. PublishInterrupted => pc' = "saying"
      BY DEF PublishInterrupted, Write
    <3> QED BY <3>1, <3>2, <3>3 DEF Requests, InWith
  <2> QED BY <2>1, <2>2, <2>3, <2>4, <2>5, <2>6, <2>7, <2>8 DEF Next, Work
<1>3. Requests => NoRescanIsLost
  BY DEF Requests, NoRescanIsLost
<1> QED BY <1>1, <1>2, <1>3, LoopCorrect, PTL DEF Spec

\* A run says how it ended, wherever the failures and the interrupts came (run_recon).
THEOREM EndsAreTold == Spec => []RunsSayHowTheyEnd
<1>1. Init => Ends
  BY DEF Init, Ends, RunsSayHowTheyEnd
<1>2. IInv /\ Ends /\ [Next]_vars => Ends'
  <2> SUFFICES ASSUME IInv, Ends, [Next]_vars PROVE Ends'
    OBVIOUS
  <2>0. interrupts \in Nat /\ (pending => masked) /\ (masked <=> Writing)
    BY NumbersAssumption DEF IInv, TypeOK, Masking
  <2>1. CASE SigInt /\ masked
    <3>1. /\ UNCHANGED <<pc, exc, stage, readerOpen>> /\ interrupts' = interrupts + 1
          /\ pending' /\ pc \in {"writing", "saying"}
      BY <2>0, <2>1 DEF SigInt, streamVars, Writing
    <3> QED BY <2>0, <3>1 DEF Ends, RunsSayHowTheyEnd, InWith
  <2>2. CASE SigInt /\ ~masked
    <3>1. /\ UNCHANGED <<stage, readerOpen>> /\ interrupts' = interrupts + 1
          /\ Raised("interrupt", pc) /\ pc \notin {"over", "writing", "saying"}
      BY <2>0, <2>2, Zenon DEF SigInt, streamVars, Writing
    <3>2. pc' \in {"closing", "handler", "over"} /\ exc' = "interrupt"
      BY <3>1 DEF Raised
    <3>3. pc' = "over" => pc = "handler"
      BY <3>1 DEF Raised, TryOutsideWith, IInv, TypeOK, Points
    <3> QED BY <2>0, <3>1, <3>2, <3>3 DEF Ends, RunsSayHowTheyEnd, InWith
  <2>3. CASE ReceiverFails
    <3>1. /\ UNCHANGED <<stage, readerOpen, interrupts, pending>> /\ pc \in {"connect", "scan", "hop"}
          /\ exc' = "error" /\ pc' \in {"closing", "over"}
      BY <2>3 DEF ReceiverFails, Raised, streamVars, writeVars
    <3> QED BY <2>0, <3>1 DEF Ends, RunsSayHowTheyEnd, InWith
  <2>4. CASE Close
    <3>1. /\ UNCHANGED <<stage, readerOpen, interrupts, exc, pending>> /\ pc = "closing"
          /\ pc' = IF exc = "interrupt" THEN "handler" ELSE "over"
      BY <2>4 DEF Close, streamVars, writeVars
    <3> QED BY <2>0, <3>1 DEF Ends, RunsSayHowTheyEnd, InWith
  <2>5. CASE FinishWrite
    <3>1. /\ UNCHANGED <<readerOpen, interrupts>> /\ pending' = FALSE
          /\ pc \in {"writing", "saying"}
      BY <2>5 DEF FinishWrite
    <3>2. CASE pending /\ Raised("interrupt", pc)
      <4>1. exc' = "interrupt" /\ pc' = IF pc = "writing" THEN "closing" ELSE "over"
        BY <3>1, <3>2 DEF Raised, InWith, TryOutsideWith
      <4>2. interrupts >= 1 /\ (pc = "saying" => interrupts >= 2)
        BY <2>0, <3>1, <3>2 DEF Ends, InWith
      <4> QED BY <2>0, <3>1, <4>1, <4>2 DEF Ends, RunsSayHowTheyEnd, InWith
    <3>3. CASE ~pending /\ ~readerOpen /\ Raised("reader", pc)
      <4>1. exc' = "reader" /\ pc' = IF pc = "writing" THEN "closing" ELSE "over"
        BY <3>1, <3>3 DEF Raised, InWith, TryOutsideWith
      <4>2. pc = "writing" => interrupts = 0
        BY <2>0, <3>3 DEF Ends, InWith
      <4> QED BY <2>0, <3>1, <3>3, <4>1, <4>2 DEF Ends, RunsSayHowTheyEnd, InWith
    <3>4. CASE ~pending /\ readerOpen /\ pc' = next /\ UNCHANGED exc
      <4>1. CASE pc = "writing"
        <5>1. next \in InWith /\ next \notin {"closing", "handler", "saying", "over", "connect"}
          BY <4>1 DEF IInv, Flow, Sends, InWith
        <5>2. interrupts = 0 /\ exc = "none"
          BY <2>0, <3>4, <4>1 DEF Ends, InWith
        <5> QED BY <3>1, <3>4, <5>1, <5>2 DEF Ends, RunsSayHowTheyEnd
      <4>2. CASE pc = "saying"
        <5>1. next = "over" /\ stage' = "recon_stopped"
          BY <2>5, <3>4, <4>2 DEF FinishWrite, Appended, IInv, Flow
        <5> QED BY <3>1, <3>4, <5>1 DEF Ends, RunsSayHowTheyEnd, InWith
      <4> QED BY <3>1, <4>1, <4>2
    <3> QED BY <2>5, <3>2, <3>3, <3>4 DEF FinishWrite
  <2>6. CASE SigUsr1 \/ UNCHANGED vars
    <3>1. UNCHANGED <<pc, exc, stage, readerOpen, interrupts, pending>>
      BY <2>6 DEF SigUsr1, vars, streamVars, writeVars
    <3> QED BY <3>1 DEF Ends, RunsSayHowTheyEnd
  <2>7. CASE ReaderCloses
    <3>1. UNCHANGED <<pc, exc, stage, interrupts, pending>> /\ ~readerOpen'
      BY <2>7 DEF ReaderCloses, streamVars, writeVars
    <3> QED BY <3>1 DEF Ends, RunsSayHowTheyEnd
  <2>8. CASE Connect \/ BeginIteration \/ Consume \/ Decide \/ Rank \/ HopsDone \/ EndCycle \/ Leave
    <3>1. /\ UNCHANGED <<exc, stage, readerOpen, interrupts, pending>>
          /\ pc \in InWith \cup {"connect"} /\ pc # "writing"
      BY <2>8 DEF Connect, BeginIteration, Consume, Decide, Rank, HopsDone, EndCycle, Leave,
         streamVars, writeVars, InWith
    <3>2. \/ pc' \in InWith /\ pc' \notin {"closing", "handler", "saying", "over"}
          \/ pc = "leave" /\ pc' = "closing"
      BY <2>8 DEF Connect, BeginIteration, Consume, Decide, Rank, HopsDone, EndCycle, Leave, InWith
    <3>3. interrupts = 0 /\ exc = "none" /\ (pc = "leave" => stage = "recon_stopped")
      BY <2>0, <3>1 DEF Ends, IInv, Flow, AtPoint
    <3> QED BY <3>1, <3>2, <3>3 DEF Ends, RunsSayHowTheyEnd
  <2>9. CASE PublishStarted \/ Acquire \/ ScanOne \/ PublishWatchlist \/ Maintain
             \/ HopOne \/ CompleteCycle \/ PublishFinished \/ PublishInterrupted
    <3>1. UNCHANGED <<exc, stage, readerOpen, interrupts, pending>>
      BY <2>9 DEF PublishStarted, Acquire, ScanOne, PublishWatchlist, Maintain, HopOne,
         CompleteCycle, PublishFinished, PublishInterrupted, Milestone, Write, streamVars
    <3>2. \/ pc \in InWith /\ pc # "writing" /\ pc' = "writing"
          \/ pc = "handler" /\ pc' = "saying"
      BY <2>9 DEF PublishStarted, Acquire, ScanOne, PublishWatchlist, Maintain, HopOne,
         CompleteCycle, PublishFinished, PublishInterrupted, Milestone, Write, InWith
    <3>3. ~pending
      BY <2>0, <3>2 DEF Writing, InWith
    <3> QED BY <2>0, <3>1, <3>2, <3>3 DEF Ends, RunsSayHowTheyEnd, InWith
  <2> QED BY <2>1, <2>2, <2>3, <2>4, <2>5, <2>6, <2>7, <2>8, <2>9 DEF Next, Work
<1>3. Ends => RunsSayHowTheyEnd
  BY DEF Ends
<1> QED BY <1>1, <1>2, <1>3, LoopCorrect, PTL DEF Spec

=============================================================================
