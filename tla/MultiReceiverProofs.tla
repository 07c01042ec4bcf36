------------------------- MODULE MultiReceiverProofs -------------------------
(***************************************************************************)
(* What holds of every live run with several receivers, for any number of  *)
(* receivers, stations and iterations, any failures and any signals: its   *)
(* phases do not overlap, the watchlist follows the receivers, and its     *)
(* records are those that ReconStream allows.                              *)
(*                                                                         *)
(* The argument: the loop leaves a phase when it has taken one sentinel    *)
(* for every thread, and a sentinel is the last thing a thread queues, so  *)
(* nothing is left behind; what is true of the slots at a control point    *)
(* then carries over a phase whose threads touch only their own slot.      *)
(***************************************************************************)
EXTENDS MultiReceiver, FiniteSetTheorems, SequenceTheorems, NaturalsInduction, TLAPS

InPhase == {"spawn", "wait"}
Afterwards == {"report", "require"}

Busy(r) == thread[r] \notin {"none", "ended"}

\* Where the loop is, and in which phase; what the reader has by then.
During(points, job) == pc \in points /\ phase = job
Connecting == During(InPhase \cup {"require"}, "connect")
Reconnecting == During(InPhase \cup Afterwards, "reconnect") \/ pc \in {"decide", "acquire"}
Scanning == During(InPhase \cup Afterwards, "scan") \/ pc = "listed"
Hopping == During(InPhase \cup Afterwards, "hop") \/ pc = "complete"

Flow ==
    /\ iteration \in {cycles, cycles + 1}
    /\ reason # "none" => pc \notin LoopPoints \ {"leave"}
    /\ reason = "interrupted" => pc \in FinalPoints \cup {"over"}
    /\ acquired => stage \notin {"none", "recon_started"}
    /\ pc \in LoopPoints => ~stopping
    /\ pc \in InPhase \cup Afterwards => phase # "none"
    /\ pc \in {"start", "started"} \/ Connecting => stage = "none" /\ iteration = 0
    /\ stage = "none" => cycles = 0
    /\ pc \in {"started"} => phase = "connect"
    /\ During({"report"}, "connect") => stage = "recon_started" /\ iteration = 0
    /\ stage = "recon_started" => cycles = 0
    /\ pc = "iterate" =>
        /\ stage \in {"recon_started", "cycle_completed"}
        /\ iteration = cycles /\ iteration < Iterations
    /\ Reconnecting => stage \in {"recon_started", "cycle_completed"} /\ iteration = cycles + 1
    /\ Scanning => stage = "acquisition_started" /\ iteration = cycles + 1
    /\ pc = "maintain" =>
        stage \in {"watchlist_updated", "cycle_completed"} /\ iteration = cycles + 1
    /\ Hopping => stage = "maintenance_started" /\ iteration = cycles + 1
    /\ pc \in {"cycleEnd", "final"} => stage = "cycle_completed" /\ iteration = cycles

\* The threads of a phase, and who holds the lock.
Threads ==
    /\ \A r \in Slots : Busy(r) => r \in running \ toStart
    /\ \A r \in Slots : lock = r <=> thread[r] = "recording"
    /\ \A r \in Slots :
        /\ thread[r] = "connecting" => phase \in {"connect", "reconnect"}
        /\ thread[r] = "scanning" => phase = "scan"
        /\ thread[r] \in {"hopping", "captured", "recording"} => phase = "hop"
        /\ thread[r] \in {"captured", "recording"} => todo[r] > 0
        /\ phase = "hop" /\ Busy(r) => newObs[r] + todo[r] <= Listed[r]
    /\ pc \in LoopPoints \ {"spawn"} => toStart = {}
    /\ lock # Nobody => recorded # <<>> /\ recorded[Len(recorded)] \in OfSlot(lock)

\* A sentinel is taken for every thread, and it is the last thing of its thread.
Open == {r \in running : r \in toStart \/ Busy(r)}
Sentinels ==
    /\ pc \in InPhase => remaining = Cardinality(Open) + Count(outbox, {Finished})
    /\ outbox # <<>> /\ outbox[Len(outbox)] # Finished => \E r \in Slots : Busy(r)
    /\ \A i \in DOMAIN outbox : outbox[i] \in Results => phase = "hop"
    /\ PhasesDoNotOverlap

\* Receivers come with the stations that were checked on them.
Checking ==
    \/ During(InPhase \cup Afterwards, "scan")
    \/ pc \in {"acquire", "listed", "maintain"}
Stations ==
    /\ StationsHaveReceiver
    /\ pc = "decide" => Up # {}
    /\ pc = "acquire" => acquiring \subseteq Up
    /\ During(InPhase, "scan") => running = acquiring /\ acquiring \subseteq Up
    /\ Checking => \A r \in Up : watch[r] = 0 \/ asked => r \in acquiring

\* Each station of a pass is to come, queued or written; each counted observation
\* is queued or written.
Left(r) == IF r \in toStart THEN watch[r] ELSE todo[r]
Reported(kind) == Count(told, kind) + Count(outbox, kind)
NoError ==
    /\ pc \in LoopPoints \ InPhase => ~crashed
    /\ pc = "complete" \/ During({"require"}, "hop") => failed = {}
HoppedOf(r) ==
    watch[r] > 0 /\ r \notin failed /\ ~crashed =>
        /\ r \in running
        /\ r \in toStart \/ Busy(r) \/ todo[r] = 0
        /\ Reported(OfSlot(r)) + Left(r) = watch[r]
EachHopped == Hopping => \A r \in Slots : HoppedOf(r)
Counted == Observations(running \ toStart, newObs)
EachCounted ==
    Hopping => IsFiniteSet(Counted) /\ Cardinality(Counted) = Reported(EnteredResults)
Hops == NoError /\ EachHopped /\ EachCounted /\ ListedStationsWereHopped

Inv == TypeOK /\ Flow /\ Threads /\ Sentinels /\ Stations /\ Hops

-----------------------------------------------------------------------------
(* Counting the items of a sequence.                                         *)

\* Nothing is in an empty sequence.
LEMMA CountEmpty == \A kind : Count(<<>>, kind) = 0
  BY FS_EmptySet DEF Count

\* A count is a number; when it is 0 no item is of that kind.
LEMMA CountType ==
  ASSUME NEW S, NEW s \in Seq(S), NEW kind
  PROVE  /\ IsFiniteSet({i \in DOMAIN s : s[i] \in kind})
         /\ Count(s, kind) \in Nat
         /\ Count(s, kind) = 0 => \A i \in DOMAIN s : s[i] \notin kind
<1>1. Len(s) \in Nat /\ DOMAIN s = 1..Len(s)
  BY LenProperties
<1>2. IsFiniteSet(1..Len(s))
  BY <1>1, FS_Interval
<1>3. IsFiniteSet({i \in DOMAIN s : s[i] \in kind})
  BY <1>1, <1>2, FS_Subset
<1> QED
  BY <1>3, FS_EmptySet, FS_CardinalityType DEF Count

\* An item more, or none, of the kind.
LEMMA CountAppend ==
  ASSUME NEW S, NEW s \in Seq(S), NEW e \in S, NEW kind
  PROVE  Count(Append(s, e), kind) = Count(s, kind) + (IF e \in kind THEN 1 ELSE 0)
<1> DEFINE at == {i \in DOMAIN s : s[i] \in kind}
<1>1. /\ Len(s) \in Nat /\ DOMAIN s = 1..Len(s)
      /\ DOMAIN Append(s, e) = 1..(Len(s) + 1)
      /\ \A i \in 1..Len(s) : Append(s, e)[i] = s[i]
      /\ Append(s, e)[Len(s) + 1] = e
  BY LenProperties, AppendProperties
<1>2. IsFiniteSet(at) /\ Len(s) + 1 \notin at
  <2>1. IsFiniteSet(at)
    BY CountType
  <2> QED
    BY <1>1, <2>1
<1>3. {i \in DOMAIN Append(s, e) : Append(s, e)[i] \in kind}
        = IF e \in kind THEN at \cup {Len(s) + 1} ELSE at
  BY <1>1
<1>4. /\ Cardinality(at) = Count(s, kind)
      /\ Cardinality(at) \in Nat
      /\ Cardinality(at \cup {Len(s) + 1}) = Cardinality(at) + 1
  BY <1>2, FS_AddElement, FS_CardinalityType DEF Count
<1>5. Count(Append(s, e), kind) = Cardinality(IF e \in kind THEN at \cup {Len(s) + 1} ELSE at)
  BY <1>3 DEF Count
<1> HIDE DEF at
<1> QED
  BY <1>4, <1>5

\* Taking the first item takes one of its kind.
LEMMA CountTail ==
  ASSUME NEW S, NEW s \in Seq(S), s # <<>>, NEW kind
  PROVE  Count(s, kind) = Count(Tail(s), kind) + (IF Head(s) \in kind THEN 1 ELSE 0)
<1> DEFINE at == {i \in DOMAIN s : s[i] \in kind} \ {1}
           after == {i \in DOMAIN Tail(s) : Tail(s)[i] \in kind}
           shift == [i \in after |-> i + 1]
<1>1. /\ Len(s) \in Nat \ {0} /\ DOMAIN s = 1..Len(s) /\ Head(s) = s[1]
      /\ Tail(s) \in Seq(S) /\ DOMAIN Tail(s) = 1..(Len(s) - 1)
      /\ \A i \in 1..(Len(s) - 1) : Tail(s)[i] = s[i + 1]
  BY LenProperties, HeadTailProperties, EmptySeq
<1>2. IsFiniteSet(after) /\ IsFiniteSet({i \in DOMAIN s : s[i] \in kind})
  BY <1>1, CountType
<1>3. shift \in Bijection(after, at)
  <2>1. shift \in [after -> at] /\ \A i, j \in after : shift[i] = shift[j] => i = j
    BY <1>1
  <2>2. \A j \in at : \E i \in after : shift[i] = j
    <3> TAKE j \in at
    <3>1. j - 1 \in after /\ shift[j - 1] = j
      BY <1>1
    <3> QED
      BY <3>1
  <2> QED
    BY <2>1, <2>2 DEF Bijection, Injection, Surjection, IsInjective
<1>4. Cardinality(at) = Cardinality(after)
  BY <1>2, <1>3, FS_Bijection DEF ExistsBijection
<1>5. 1 \in {i \in DOMAIN s : s[i] \in kind} <=> Head(s) \in kind
  BY <1>1
<1> HIDE DEF at, after
<1>6. Cardinality(at) \in Nat
  BY <1>2, <1>4, FS_CardinalityType
<1>7. Cardinality(at) = IF Head(s) \in kind THEN Count(s, kind) - 1 ELSE Count(s, kind)
  BY <1>2, <1>5, FS_RemoveElement DEF Count, at
<1>8. Count(Tail(s), kind) = Cardinality(after) /\ Count(s, kind) \in Nat
  BY CountType DEF Count, after
<1> QED
  BY <1>4, <1>6, <1>7, <1>8

\* The first of some numbers is one of them.
LEMMA MinOf ==
  ASSUME NEW S \in SUBSET Nat, S # {}
  PROVE  Min(S) \in S
<1> DEFINE less == OpToRel(<, Nat)
<1>1. \A m, n \in Nat : m < n => <<m, n>> \in less
  BY DEF OpToRel
<1>2. IsWellFoundedOn(less, Nat)
  BY NatLessThanWellFounded
<1> HIDE DEF less
<1>3. PICK n \in S : \A m \in S : ~(<<m, n>> \in less)
  BY <1>2, WFMin
<1>4. ASSUME NEW m \in S PROVE n <= m
  <2>1. m \in Nat /\ n \in Nat /\ ~(<<m, n>> \in less)
    BY <1>3
  <2>2. ~(m < n)
    BY <1>1, <2>1
  <2> QED
    BY <2>1, <2>2
<1> QED
  BY <1>4 DEF Min
-----------------------------------------------------------------------------
(* Types.                                                                    *)

\* The result a thread reports is the one it has just put into the consensus.
LEMMA LatestResult ==
  ASSUME TypeOK, Threads, NEW r \in Slots, thread[r] = "recording"
  PROVE  LatestOf(r) \in OfSlot(r) /\ LatestOf(r) = recorded[Len(recorded)]
<1> DEFINE mine == {i \in 1..Len(recorded) : recorded[i] \in OfSlot(r)}
<1>1. lock = r /\ r # Nobody
  BY SlotsAssumption DEF Threads, Nobody
<1>2. recorded \in Seq(Results) /\ recorded # <<>>
  BY <1>1 DEF Threads, TypeOK
<1>3. Len(recorded) \in Nat \ {0}
  BY <1>2, EmptySeq, LenProperties
<1>4. Len(recorded) \in mine
  BY <1>1, <1>3 DEF Threads
<1>5. Max(mine) = Len(recorded)
  BY <1>3, <1>4 DEF Max
<1> QED
  BY <1>4, <1>5 DEF LatestOf, SelectLastInSeq

\* A report of a slot is a hop_result, and a hop_result can be queued.
LEMMA OfSlotIsResult ==
  ASSUME NEW r \in Slots
  PROVE  OfSlot(r) \subseteq Results /\ Results \subseteq Items
  BY DEF OfSlot, Results, Items

\* A phase concerns finitely many receivers, and one of them is the first.
LEMMA SubsetsOfSlots ==
  /\ IsFiniteSet(Slots) /\ Slots # {} /\ Slots \subseteq Nat
  /\ Cardinality(Slots) \in Nat
  /\ \A s \in SUBSET Slots : IsFiniteSet(s) /\ Cardinality(s) \in 0..Cardinality(Slots)
  /\ \A s \in SUBSET Slots : s # {} => Min(s) \in s
<1>1. IsFiniteSet(Slots) /\ Slots # {} /\ Slots \subseteq Nat
  BY SlotsAssumption
<1>2. ASSUME NEW s \in SUBSET Slots
      PROVE  IsFiniteSet(s) /\ Cardinality(s) \in 0..Cardinality(Slots)
  <2>1. IsFiniteSet(s) /\ Cardinality(s) <= Cardinality(Slots)
    BY <1>1, FS_Subset
  <2> QED
    BY <1>1, <2>1, FS_CardinalityType
<1>3. ASSUME NEW s \in SUBSET Slots, s # {} PROVE Min(s) \in s
  BY <1>1, <1>3, MinOf
<1> QED
  BY <1>1, <1>2, <1>3, FS_CardinalityType

\* What is queued and what the consensus recorded.
QueueTypes == outbox \in Seq(Items) /\ recorded \in Seq(Results) /\ told \in Seq(Results)

\* Steps keep the types of the queue, the consensus and the stream.
LEMMA QueueTypeStep ==
  ASSUME TypeOK, Threads, Next
  PROVE  QueueTypes'
<1> USE DEF QueueTypes
<1>1. QueueTypes
  BY DEF TypeOK
<1>2. ASSUME WriteQueued PROVE QueueTypes'
  <2>1. /\ Head(outbox) \in Items /\ Tail(outbox) \in Seq(Items)
    BY <1>1, <1>2, HeadTailProperties DEF WriteQueued
  <2>2. Head(outbox) \notin {Finished, ScanStep} => Append(told, Head(outbox)) \in Seq(Results)
    BY <1>1, <2>1, AppendProperties DEF Items
  <2> QED
    BY <1>1, <1>2, <2>1, <2>2 DEF WriteQueued, sharedVars, streamVars
<1>3. ASSUME NEW r \in Slots, ThreadStep(r) PROVE QueueTypes'
  <2>1. {ScanStep, Finished} \subseteq Items /\ (thread[r] = "recording" => LatestOf(r) \in Items)
    BY LatestResult, OfSlotIsResult DEF Items
  <2>2. \A item \in Items : Append(outbox, item) \in Seq(Items)
    BY <1>1, AppendProperties
  <2>3. \A e \in BOOLEAN : Append(recorded, Result(r, e)) \in Seq(Results)
    BY <1>1, AppendProperties DEF Result, Results
  <2>4. \/ outbox' \in Seq(Items) /\ UNCHANGED recorded
        \/ UNCHANGED outbox /\ recorded' \in Seq(Results)
    BY <1>1, <1>3, <2>1, <2>2, <2>3
    DEF ThreadStep, Connected, ScanStation, ScanEnds, HopCapture, HopRecord, HopReport, HopEnds,
        JobFails, Finish, sharedVars
  <2>5. UNCHANGED told
    BY <1>3 DEF ThreadStep, Connected, ScanStation, ScanEnds, HopCapture, HopRecord, HopReport,
        HopEnds, JobFails, streamVars
  <2> QED
    BY <1>1, <2>4, <2>5
<1>4. ASSUME Maintain \/ Acquire \/ PublishStarted \/ PublishWatchlist \/ CompleteCycle
               \/ PublishFinished \/ PublishInterrupted
      PROVE  QueueTypes'
  BY <1>1, <1>4, EmptySeq
  DEF Maintain, Acquire, PublishStarted, PublishWatchlist, CompleteCycle, PublishFinished,
      PublishInterrupted, PublishStopped, Publish, sharedVars
<1> QED
  BY <1>1, <1>2, <1>3, <1>4
  DEF Next, RunStep, World, ConnectAll, StartThread, AllStarted, Joined, ReportFailure, AllReported,
      Require, BeginIteration, Decide, EndCycle, LeaveLoop, Stop, StopClose, Interrupt, RequestRescan,
      ReaderCloses, sharedVars, streamVars

\* The numbers of stations, and the threads.
ThreadStates == {"none", "connecting", "scanning", "hopping", "captured", "recording", "ended"}
SlotTypes ==
    /\ client \in [Slots -> BOOLEAN] /\ thread \in [Slots -> ThreadStates]
    /\ Numbers(watch) /\ Numbers(newObs) /\ Numbers(todo) /\ Numbers(listed)
    /\ lock \in Slots \cup {Nobody}

\* The part of TypeOK about the slots.
LEMMA SlotTypesHold == TypeOK => SlotTypes
  BY DEF TypeOK, SlotTypes, ThreadStates

\* One slot gets another number of stations.
LEMMA NumbersExcept ==
  ASSUME NEW f, Numbers(f), NEW r \in Slots, NEW n \in Nat, n <= Listed[r]
  PROVE  Numbers([f EXCEPT ![r] = n])
  BY DEF Numbers

\* Steps keep the types of the slots and their threads, and count within what is listed.
LEMMA SlotTypeStep ==
  ASSUME TypeOK, Threads, Next
  PROVE  SlotTypes'
<1>1. SlotTypes
  BY SlotTypesHold
<1>2. \A r \in Slots : Listed[r] \in Nat
  BY ListedAssumption
<1>3. CASE StartThread
  <2>1. PICK r \in Slots : /\ r = Min(toStart)
                           /\ thread' \in [Slots -> ThreadStates]
                           /\ \E n \in {Listed[r], watch[r], 0} : todo' = [todo EXCEPT ![r] = n]
                           /\ \E n \in {newObs[r], 0} : newObs' = [newObs EXCEPT ![r] = n]
    BY <1>1, <1>3, SubsetsOfSlots
    DEF StartThread, CountFrom, TypeOK, SlotTypes, ThreadStates
  <2>2. UNCHANGED <<client, watch, listed, lock>>
    BY <1>3 DEF StartThread, sharedVars, streamVars
  <2> QED
    BY <1>1, <1>2, <2>1, <2>2 DEF SlotTypes, Numbers
<1>4. CASE ReportFailure
  <2>1. PICK r \in Slots : /\ client' = [client EXCEPT ![r] = FALSE]
                           /\ watch' = [watch EXCEPT ![r] = 0]
    BY <1>4, SubsetsOfSlots DEF ReportFailure, WatchWithout, TypeOK
  <2> QED
    <3>1. Numbers(watch')
      <4>1. Numbers(watch) /\ 0 \in Nat /\ 0 <= Listed[r]
        BY <1>1, <1>2 DEF SlotTypes
      <4>2. Numbers([watch EXCEPT ![r] = 0])
        BY <4>1, NumbersExcept
      <4> QED
        BY <2>1, <4>2
    <3>2. client' \in [Slots -> BOOLEAN]
      BY <1>1, <2>1 DEF SlotTypes
    <3> QED
      BY <1>1, <1>4, <3>1, <3>2 DEF ReportFailure, SlotTypes, Numbers, threadVars, sharedVars
<1>5. CASE StopClose
  BY <1>1, <1>5 DEF StopClose, SlotTypes, Numbers, threadVars, sharedVars, streamVars
<1>6. CASE CompleteCycle
  BY <1>1, <1>6 DEF CompleteCycle, SlotTypes, Numbers, slotVars, threadVars, sharedVars
<1>7. ASSUME NEW r \in Slots, ThreadStep(r) PROVE SlotTypes'
  <2>1. /\ thread' \in [Slots -> ThreadStates] /\ lock' \in Slots \cup {Nobody}
        /\ client' \in [Slots -> BOOLEAN] /\ UNCHANGED listed
    BY <1>1, <1>7
    DEF ThreadStep, Connected, ScanStation, ScanEnds, HopCapture, HopRecord, HopReport, HopEnds,
        JobFails, Finish, SlotTypes, ThreadStates, slotVars, threadVars, sharedVars, streamVars
  <2>2. Numbers(watch')
    <3>1. UNCHANGED watch \/ \E n \in 0..Listed[r] : watch' = [watch EXCEPT ![r] = n]
      BY <1>7
      DEF ThreadStep, Connected, ScanStation, ScanEnds, HopCapture, HopRecord, HopReport, HopEnds,
          JobFails, slotVars
    <3> QED
      BY <1>1, <1>2, <3>1, NumbersExcept DEF SlotTypes, Numbers
  <2>3. Numbers(todo')
    <3>1. UNCHANGED todo \/ (todo[r] > 0 /\ todo' = [todo EXCEPT ![r] = todo[r] - 1])
      <4>1. thread[r] = "recording" => todo[r] > 0
        BY DEF Threads
      <4> QED
        BY <1>7, <4>1
        DEF ThreadStep, Connected, ScanStation, ScanEnds, HopCapture, HopRecord, HopReport, HopEnds,
            JobFails
    <3>2. todo[r] > 0 => todo[r] - 1 \in Nat /\ todo[r] - 1 <= Listed[r]
      BY <1>1, <1>2 DEF SlotTypes, Numbers
    <3> QED
      BY <1>1, <3>1, <3>2, NumbersExcept DEF SlotTypes, Numbers
  <2>4. Numbers(newObs')
    <3>1. CASE HopReport(r)
      <4>1. newObs[r] + 1 <= Listed[r]
        <5>1. newObs[r] + todo[r] <= Listed[r] /\ todo[r] > 0
          BY <3>1 DEF HopReport, Threads, Busy
        <5> QED
          BY <1>1, <1>2, <5>1 DEF SlotTypes, Numbers
      <4>2. \E n \in {0, 1} : newObs' = [newObs EXCEPT ![r] = @ + n]
        BY <3>1 DEF HopReport, CountEntered
      <4> QED
        BY <1>1, <1>2, <4>1, <4>2 DEF SlotTypes, Numbers
    <3>2. CASE UNCHANGED newObs
      BY <1>1, <3>2 DEF SlotTypes, Numbers
    <3> QED
      BY <1>7, <3>1, <3>2
      DEF ThreadStep, Connected, ScanStation, ScanEnds, HopCapture, HopRecord, HopEnds, JobFails,
          slotVars
  <2> QED
    BY <1>1, <2>1, <2>2, <2>3, <2>4 DEF SlotTypes, Numbers
<1>8. CASE UNCHANGED <<slotVars, threadVars, lock, listed>>
  BY <1>1, <1>8 DEF SlotTypes, Numbers, slotVars, threadVars
<1> QED
  BY <1>3, <1>4, <1>5, <1>6, <1>7, <1>8
  DEF Next, RunStep, World, ConnectAll, AllStarted, WriteQueued, Joined, AllReported, Require,
      PublishStarted, BeginIteration, Decide, Acquire, PublishWatchlist, Maintain, EndCycle,
      PublishFinished, PublishInterrupted, PublishStopped, LeaveLoop, Stop, Interrupt, RequestRescan,
      ReaderCloses, sharedVars, streamVars

\* The control of the loop, what it counts and what the world did.
ControlTypes ==
    /\ pc \in LoopPoints \cup HandlerPoints \cup FinalPoints \cup {"over"}
    /\ phase \in {"none", "connect", "reconnect", "scan", "hop"}
    /\ {stopping, crashed, asked, everywhere, acquired, readerOpen} \subseteq BOOLEAN
PhaseTypes ==
    /\ toStart \subseteq running /\ running \subseteq Slots /\ failed \subseteq running
    /\ acquiring \subseteq Slots /\ remaining \in 0..Cardinality(Slots)
CountTypes ==
    /\ iteration \in 0..Iterations
    /\ received \in Nat /\ seen \in 0..received /\ failures \in Nat /\ interrupts \in Nat
    /\ {iter, cycles, reported} \subseteq Nat

\* Steps keep the types of the control of the loop.
LEMMA ControlTypeStep ==
  ASSUME TypeOK, Flow, Next
  PROVE  ControlTypes'
<1>1. ControlTypes
  BY DEF TypeOK, ControlTypes
<1> USE DEF ControlTypes, LoopPoints, HandlerPoints, FinalPoints, Raise, Go
<1>2. CASE ConnectAll \/ BeginIteration
  <2>1. asked' \in BOOLEAN
    BY <1>1, <1>2, Zenon DEF ConnectAll, BeginIteration, cycleVars
  <2>2. crashed' \in BOOLEAN
    BY <1>1, <1>2, Zenon DEF ConnectAll, BeginIteration, Spawn, phaseVars
  <2> QED
    BY <1>1, <1>2, <2>1, <2>2 DEF ConnectAll, BeginIteration, Spawn, phaseVars, cycleVars, worldVars
<1>3. CASE StartThread \/ AllStarted \/ WriteQueued \/ Joined \/ ReportFailure \/ AllReported \/ Require
  <2>1. CASE StartThread \/ WriteQueued \/ ReportFailure
    BY <1>1, <2>1
    DEF StartThread, WriteQueued, ReportFailure, controlVars, cycleVars, worldVars
  <2>2. CASE AllStarted \/ Joined \/ AllReported
    BY <1>1, <2>2 DEF AllStarted, Joined, AllReported, phaseVars, cycleVars, worldVars
  <2>3. CASE Require
    <3>1. phase # "none"
      BY <2>3 DEF Require, Flow, Afterwards
    <3> QED
      BY <1>1, <2>3, <3>1 DEF Require, phaseVars, cycleVars, worldVars
  <2> QED
    BY <1>3, <2>1, <2>2, <2>3
<1>4. CASE Decide
  BY <1>1, <1>4 DEF Decide, Everywhere, phaseVars, worldVars
<1>5. CASE PublishStarted \/ Acquire \/ PublishWatchlist \/ Maintain \/ CompleteCycle
  BY <1>1, <1>5
  DEF PublishStarted, Acquire, PublishWatchlist, Maintain, CompleteCycle, Publish, Spawn, phaseVars,
      cycleVars, worldVars
<1>6. CASE PublishFinished \/ PublishInterrupted
  BY <1>1, <1>6
  DEF PublishFinished, PublishInterrupted, PublishStopped, Publish, phaseVars, cycleVars, worldVars
<1>7. CASE EndCycle \/ LeaveLoop \/ Stop \/ StopClose
  BY <1>1, <1>7 DEF EndCycle, LeaveLoop, Stop, StopClose, phaseVars, cycleVars, worldVars
<1>8. CASE World
  BY <1>1, <1>8
  DEF World, Interrupt, RequestRescan, ReaderCloses, controlVars, phaseVars, cycleVars
<1>9. ASSUME NEW r \in Slots, ThreadStep(r) PROVE ControlTypes'
  BY <1>1, <1>9
  DEF ThreadStep, Connected, ScanStation, ScanEnds, HopCapture, HopRecord, HopReport, HopEnds,
      JobFails, Failure, controlVars, phaseVars, cycleVars, worldVars
<1> QED
  BY <1>2, <1>3, <1>4, <1>5, <1>6, <1>7, <1>8, <1>9 DEF Next, RunStep

\* Steps keep the types of a phase: it concerns its own receivers.
LEMMA PhaseTypeStep ==
  ASSUME TypeOK, Threads, Next
  PROVE  PhaseTypes'
<1>1. PhaseTypes
  BY DEF TypeOK, PhaseTypes
<1> USE DEF PhaseTypes
<1>2. ASSUME NEW slots \in SUBSET Slots, NEW job, Spawn(slots, job), UNCHANGED acquiring
      PROVE  PhaseTypes'
  BY <1>1, <1>2, SubsetsOfSlots DEF Spawn
<1>3. CASE ConnectAll \/ BeginIteration
  BY <1>1, <1>2, <1>3 DEF ConnectAll, BeginIteration, Up, cycleVars, phaseVars
<1>4. CASE Acquire \/ Maintain
  <2>1. acquiring \subseteq Slots /\ {r \in Up : watch[r] > 0} \subseteq Slots /\ UNCHANGED acquiring
    BY <1>1, <1>4 DEF Acquire, Maintain, Up, cycleVars
  <2>2. \/ Spawn(acquiring, "scan") \/ Spawn({r \in Up : watch[r] > 0}, "hop")
        \/ UNCHANGED phaseVars
    BY <1>4 DEF Acquire, Maintain
  <2> QED
    BY <1>1, <1>2, <2>1, <2>2 DEF phaseVars
<1>5. CASE StartThread \/ WriteQueued \/ ReportFailure
  <2>1. remaining' \in 0..Cardinality(Slots)
    BY <1>1, <1>5, SubsetsOfSlots DEF StartThread, WriteQueued, ReportFailure
  <2> QED
    BY <1>1, <1>5, <2>1 DEF StartThread, WriteQueued, ReportFailure, cycleVars
<1>6. CASE Decide
  BY <1>1, <1>6 DEF Decide, Up, phaseVars
<1>7. ASSUME NEW r \in Slots, JobFails(r) PROVE PhaseTypes'
  <2>1. r \in running
    BY <1>7 DEF JobFails, UsesReceiver, Threads, Busy
  <2> QED
    BY <1>1, <1>7, <2>1 DEF JobFails, Failure, cycleVars
<1>8. CASE UNCHANGED <<phaseVars, acquiring>>
  BY <1>1, <1>8 DEF phaseVars
<1> QED
  BY <1>3, <1>4, <1>5, <1>6, <1>7, <1>8
  DEF Next, RunStep, World, ThreadStep, AllStarted, Joined, AllReported, Require, PublishStarted,
      PublishWatchlist, CompleteCycle, EndCycle, PublishFinished, PublishInterrupted,
      PublishStopped, LeaveLoop, Stop, StopClose, Interrupt, RequestRescan, ReaderCloses,
      Connected, ScanStation, ScanEnds, HopCapture, HopRecord, HopReport, HopEnds, cycleVars

\* Steps keep the types of the counters and of what the records carry.
LEMMA CountTypeStep ==
  ASSUME TypeOK, Flow, Threads, Sentinels, Hops, Next
  PROVE  CountTypes'
<1>1. CountTypes /\ Iterations \in Nat
  BY BoundsAssumption DEF TypeOK, CountTypes
<1>2. iteration' \in 0..Iterations
  <2>1. CASE BeginIteration
    BY <1>1, <2>1 DEF BeginIteration, Flow, CountTypes
  <2>2. CASE UNCHANGED iteration
    BY <1>1, <2>2 DEF CountTypes
  <2> QED
    BY <2>1, <2>2
    DEF Next, RunStep, World, ThreadStep, ConnectAll, StartThread, AllStarted, WriteQueued, Joined,
        ReportFailure, AllReported, Require, PublishStarted, Decide, Acquire, PublishWatchlist,
        Maintain, CompleteCycle, EndCycle, PublishFinished, PublishInterrupted, PublishStopped,
        LeaveLoop, Stop, StopClose, Interrupt, RequestRescan, ReaderCloses, Connected, ScanStation,
        ScanEnds, HopCapture, HopRecord, HopReport, HopEnds, JobFails, cycleVars
<1>3. received' \in Nat /\ seen' \in 0..received' /\ failures' \in Nat /\ interrupts' \in Nat
  <2>1. CASE BeginIteration \/ World
    BY <1>1, <2>1
    DEF BeginIteration, World, Interrupt, RequestRescan, ReaderCloses, CountTypes
  <2>2. ASSUME NEW r \in Slots, JobFails(r)
        PROVE  UNCHANGED <<received, seen, interrupts>> /\ failures' \in Nat
    BY <1>1, <2>2 DEF JobFails, CountTypes
  <2>3. CASE UNCHANGED worldVars
    BY <1>1, <2>3 DEF CountTypes, worldVars
  <2> QED
    BY <1>1, <2>1, <2>2, <2>3
    DEF Next, RunStep, ThreadStep, ConnectAll, StartThread, AllStarted, WriteQueued, Joined,
        ReportFailure, AllReported, Require, PublishStarted, Decide, Acquire, PublishWatchlist,
        Maintain, CompleteCycle, EndCycle, PublishFinished, PublishInterrupted, PublishStopped,
        LeaveLoop, Stop, StopClose, Connected, ScanStation, ScanEnds, HopCapture, HopRecord,
        HopReport, HopEnds, CountTypes
<1>4. reported' \in Nat
  <2>1. CASE CompleteCycle
    <3>1. CASE ~readerOpen
      BY <1>1, <2>1, <3>1 DEF CompleteCycle, CountTypes
    <3>2. CASE readerOpen
      <4>1. running \ toStart = running /\ Hopping
        BY <2>1 DEF CompleteCycle, Threads, Hopping, LoopPoints
      <4>2. Count(told, EnteredResults) \in Nat /\ Count(outbox, EnteredResults) \in Nat
        BY CountType DEF TypeOK
      <4>3. Cardinality(Observations(running, newObs)) \in Nat
        <5>1. Cardinality(Observations(running \ toStart, newObs))
                = Count(told, EnteredResults) + Count(outbox, EnteredResults)
          BY <4>1 DEF Hops, EachCounted, Counted, Reported
        <5>2. Cardinality(Observations(running, newObs))
                = Count(told, EnteredResults) + Count(outbox, EnteredResults)
          BY <4>1, <5>1, Zenon
        <5> QED
          BY <4>2, <5>2
      <4> QED
        BY <2>1, <3>2, <4>3 DEF CompleteCycle
    <3> QED
      BY <3>1, <3>2
  <2>2. CASE UNCHANGED reported
    BY <1>1, <2>2 DEF CountTypes
  <2> QED
    BY <2>1, <2>2
    DEF Next, RunStep, World, ThreadStep, ConnectAll, StartThread, AllStarted, WriteQueued, Joined,
        ReportFailure, AllReported, Require, PublishStarted, BeginIteration, Decide, Acquire,
        PublishWatchlist, Maintain, EndCycle, PublishFinished, PublishInterrupted, PublishStopped,
        LeaveLoop, Stop, StopClose, Interrupt, RequestRescan, ReaderCloses, Connected, ScanStation,
        ScanEnds, HopCapture, HopRecord, HopReport, HopEnds, JobFails, streamVars
<1>5. {iter', cycles'} \subseteq Nat
  <2>1. CASE PublishStarted \/ Acquire \/ PublishWatchlist \/ Maintain \/ CompleteCycle
               \/ PublishFinished \/ PublishInterrupted
    BY <1>1, <2>1
    DEF PublishStarted, Acquire, PublishWatchlist, Maintain, CompleteCycle, PublishFinished,
        PublishInterrupted, PublishStopped, Publish, CountTypes
  <2>2. CASE ReportFailure
    BY <1>1, <2>2 DEF ReportFailure, CountTypes
  <2>3. CASE UNCHANGED <<iter, cycles>>
    BY <1>1, <2>3 DEF CountTypes
  <2> QED
    BY <2>1, <2>2, <2>3
    DEF Next, RunStep, World, ThreadStep, ConnectAll, StartThread, AllStarted, WriteQueued, Joined,
        AllReported, Require, BeginIteration, Decide, EndCycle, LeaveLoop, Stop, StopClose,
        Interrupt, RequestRescan, ReaderCloses, Connected, ScanStation, ScanEnds, HopCapture,
        HopRecord, HopReport, HopEnds, JobFails, streamVars
<1> QED
  BY <1>2, <1>3, <1>4, <1>5 DEF CountTypes

\* Steps keep the types.
LEMMA TypeStep ==
  ASSUME Inv, Next
  PROVE  TypeOK'
<1>1. QueueTypes' /\ SlotTypes' /\ PhaseTypes'
  BY QueueTypeStep, SlotTypeStep, PhaseTypeStep DEF Inv
<1>2. ControlTypes' /\ CountTypes'
  BY ControlTypeStep, CountTypeStep DEF Inv
<1> QED
  BY <1>1, <1>2 DEF TypeOK, QueueTypes, SlotTypes, ThreadStates, PhaseTypes, ControlTypes, CountTypes

-----------------------------------------------------------------------------
(* The order of the loop.                                                    *)

flowVars == <<pc, stopping, phase, iteration, acquired, stage, cycles, reason>>

\* Steps keep the order of the loop and of its records.
LEMMA FlowStep ==
  ASSUME TypeOK, Flow, Stations, Next
  PROVE  Flow'
<1>1. iteration \in Nat /\ cycles \in Nat /\ Iterations \in Nat
  BY BoundsAssumption DEF TypeOK
<1>2. CASE UNCHANGED flowVars
  BY <1>2 DEF Flow, flowVars, Connecting, Reconnecting, Scanning, Hopping, During
<1> USE <1>1 DEF Flow, Connecting, Reconnecting, Scanning, Hopping, During, InPhase, Afterwards,
                 LoopPoints, HandlerPoints, FinalPoints, Raise, Go
<1>3. CASE ConnectAll
  BY <1>3 DEF ConnectAll, Spawn, cycleVars, streamVars
<1>4. CASE AllStarted
  BY <1>4 DEF AllStarted, phaseVars, cycleVars, streamVars
<1>5. CASE WriteQueued
  BY <1>5 DEF WriteQueued, controlVars, cycleVars
<1>6. CASE Joined
  BY <1>6 DEF Joined, phaseVars, cycleVars, streamVars
<1>7. CASE ReportFailure
  BY <1>7 DEF ReportFailure, controlVars, cycleVars
<1>8. CASE AllReported
  BY <1>8, BoundsAssumption DEF AllReported, phaseVars, cycleVars, streamVars
<1>9. CASE Require
  BY <1>9 DEF Require, phaseVars, cycleVars, streamVars, TypeOK
<1>10. CASE PublishStarted
  BY <1>10 DEF PublishStarted, Publish, phaseVars, cycleVars
<1>11. CASE BeginIteration
  BY <1>11 DEF BeginIteration, Spawn, phaseVars, streamVars
<1>12. CASE Decide
  BY <1>12 DEF Decide, Everywhere, Stations, phaseVars, streamVars
<1>13. CASE Acquire
  BY <1>13 DEF Acquire, Publish, Spawn, phaseVars, cycleVars
<1>14. CASE PublishWatchlist
  BY <1>14 DEF PublishWatchlist, Publish, phaseVars
<1>15. CASE Maintain
  BY <1>15 DEF Maintain, Publish, Spawn, phaseVars, cycleVars
<1>16. CASE CompleteCycle
  BY <1>16 DEF CompleteCycle, Publish, phaseVars, cycleVars
<1>17. CASE EndCycle
  BY <1>17, BoundsAssumption DEF EndCycle, phaseVars, cycleVars, streamVars
<1>18. CASE PublishFinished
  BY <1>18 DEF PublishFinished, PublishStopped, Publish, phaseVars, cycleVars
<1>19. CASE LeaveLoop
  BY <1>19 DEF LeaveLoop, phaseVars, cycleVars, streamVars
<1>20. CASE Stop
  BY <1>20 DEF Stop, phaseVars, cycleVars, streamVars
<1>21. CASE StopClose
  BY <1>21 DEF StopClose, phaseVars, cycleVars, streamVars
<1>22. CASE PublishInterrupted
  BY <1>22 DEF PublishInterrupted, PublishStopped, Publish, phaseVars, cycleVars
<1>23. CASE Interrupt
  BY <1>23 DEF Interrupt, phaseVars, cycleVars, streamVars
<1>24. CASE StartThread \/ RequestRescan \/ ReaderCloses
  BY <1>2, <1>24
  DEF StartThread, RequestRescan, ReaderCloses, flowVars, controlVars, phaseVars, cycleVars, streamVars
<1>25. ASSUME NEW r \in Slots, ThreadStep(r) PROVE Flow'
  <2>1. UNCHANGED flowVars
    BY <1>25
    DEF ThreadStep, Connected, ScanStation, ScanEnds, HopCapture, HopRecord, HopReport, HopEnds,
        JobFails, flowVars, controlVars, phaseVars, cycleVars, streamVars
  <2> QED
    BY <1>2, <2>1
<1> QED
  BY <1>3, <1>4, <1>5, <1>6, <1>7, <1>8, <1>9, <1>10, <1>11, <1>12, <1>13, <1>14, <1>15, <1>16, <1>17,
     <1>18, <1>19, <1>20, <1>21, <1>22, <1>23, <1>24, <1>25 DEF Next, RunStep, World

-----------------------------------------------------------------------------
(* The threads of a phase.                                                   *)

ThreadSteps == {"connecting", "scanning", "hopping", "captured", "recording"}

\* Threads, for one receiver.
ThreadOf(r) ==
    /\ Busy(r) => r \in running \ toStart
    /\ lock = r <=> thread[r] = "recording"
    /\ thread[r] = "connecting" => phase \in {"connect", "reconnect"}
    /\ thread[r] = "scanning" => phase = "scan"
    /\ thread[r] \in {"hopping", "captured", "recording"} => phase = "hop"
    /\ thread[r] \in {"captured", "recording"} => todo[r] > 0
    /\ phase = "hop" /\ Busy(r) => newObs[r] + todo[r] <= Listed[r]
Recorded ==
    lock # Nobody => recorded # <<>> /\ recorded[Len(recorded)] \in OfSlot(lock)
AllBegun == pc \in LoopPoints \ {"spawn"} => toStart = {}

\* Threads says the same of each receiver.
LEMMA ThreadsParts == Threads <=> (\A r \in Slots : ThreadOf(r)) /\ Recorded /\ AllBegun
  BY DEF Threads, ThreadOf, Recorded, AllBegun

\* A phase begins when nothing of the last one is left.
LEMMA Rest ==
  ASSUME Sentinels, pc \in LoopPoints \ InPhase
  PROVE  outbox = <<>> /\ lock = Nobody /\ \A r \in Slots : ~Busy(r)
  BY DEF Sentinels, PhasesDoNotOverlap, InPhase, Busy

\* Steps keep a thread within its phase, and the lock with who records.
LEMMA ThreadsStep ==
  ASSUME TypeOK, Flow, Threads, Sentinels, Next
  PROVE  Threads'
<1>1. (\A r \in Slots : ThreadOf(r)) /\ Recorded /\ AllBegun
  BY ThreadsParts
<1>2. SlotTypes /\ \A r \in Slots : Listed[r] \in Nat /\ r # Nobody
  BY SlotTypesHold, ListedAssumption, SlotsAssumption DEF Nobody
<1>3. CASE ConnectAll \/ BeginIteration \/ Acquire \/ Maintain
  <2>1. pc \in LoopPoints \ InPhase
    BY <1>3 DEF ConnectAll, BeginIteration, Acquire, Maintain, LoopPoints, InPhase
  <2>2. lock = Nobody /\ \A r \in Slots : ~Busy(r)
    BY <2>1, Rest
  <2>3. UNCHANGED <<thread, lock>>
    BY <1>3 DEF ConnectAll, BeginIteration, Acquire, Maintain, threadVars, sharedVars
  <2>4. \A r \in Slots : ThreadOf(r)'
    BY <1>1, <1>2, <2>2, <2>3 DEF ThreadOf, Busy
  <2>5. AllBegun'
    BY <1>1, <1>3
    DEF ConnectAll, BeginIteration, Acquire, Maintain, Publish, Spawn, Go, Raise, AllBegun, LoopPoints,
        phaseVars
  <2> QED
    BY <2>2, <2>3, <2>4, <2>5 DEF Threads, ThreadOf, Recorded, AllBegun
<1>4. CASE StartThread
  <2>1. PICK r \in toStart :
          /\ toStart' = toStart \ {r}
          /\ \E s \in {"scanning", "hopping", "connecting"} :
               /\ thread' = [thread EXCEPT ![r] = s]
               /\ s = "scanning" <=> phase = "scan"
               /\ s = "hopping" <=> phase = "hop"
          /\ phase = "hop" => todo' = [todo EXCEPT ![r] = watch[r]]
          /\ newObs' = [newObs EXCEPT ![r] = IF phase = "hop" THEN 0 ELSE newObs[r]]
    BY <1>4, SubsetsOfSlots DEF StartThread, CountFrom, TypeOK
  <2>2. UNCHANGED <<pc, phase, running, lock, recorded>> /\ pc = "spawn"
    BY <1>4 DEF StartThread, controlVars, sharedVars
  <2>3. phase \in {"connect", "reconnect", "scan", "hop"}
    BY <2>2 DEF TypeOK, Flow, InPhase
  <2>4. ASSUME NEW q \in Slots PROVE ThreadOf(q)'
    <3>1. CASE q = r
      <4>1. ~Busy(r) /\ r \in running
        BY <1>1, <3>1 DEF ThreadOf, TypeOK
      <4>2. phase = "hop" => newObs'[r] = 0 /\ todo'[r] = watch[r]
        BY <1>2, <2>1, <3>1 DEF SlotTypes, Numbers
      <4>3. phase = "hop" => newObs'[r] + todo'[r] <= Listed[r]
        BY <1>2, <3>1, <4>2 DEF SlotTypes, Numbers
      <4> QED
        BY <1>1, <1>2, <2>1, <2>2, <2>3, <3>1, <4>1, <4>3 DEF ThreadOf, Busy, SlotTypes
    <3>2. CASE q # r
      <4>1. thread'[q] = thread[q] /\ newObs'[q] = newObs[q] /\ todo'[q] = todo[q]
        BY <1>2, <1>4, <2>1, <3>2 DEF SlotTypes, Numbers, StartThread
      <4> QED
        BY <1>1, <2>1, <2>2, <4>1 DEF ThreadOf, Busy
    <3> QED
      BY <3>1, <3>2
  <2>5. Recorded' /\ AllBegun'
    BY <1>1, <2>2 DEF Recorded, AllBegun
  <2> QED
    BY <2>4, <2>5 DEF Threads, ThreadOf, Recorded, AllBegun
<1>5. ASSUME NEW r \in Slots, ThreadStep(r) PROVE Threads'
  <2>1. UNCHANGED <<pc, phase, running, toStart>>
    BY <1>5
    DEF ThreadStep, Connected, ScanStation, ScanEnds, HopCapture, HopRecord, HopReport, HopEnds,
        JobFails, controlVars, phaseVars
  <2>2. ASSUME NEW q \in Slots, q # r
        PROVE  thread'[q] = thread[q] /\ newObs'[q] = newObs[q] /\ todo'[q] = todo[q]
    BY <1>2, <1>5, <2>2
    DEF ThreadStep, Connected, ScanStation, ScanEnds, HopCapture, HopRecord, HopReport, HopEnds,
        JobFails, Finish, slotVars, SlotTypes, Numbers
  <2>3. \/ UNCHANGED lock /\ {thread[r], thread'[r]} \subseteq ThreadStates \ {"recording"}
        \/ lock = Nobody /\ lock' = r /\ thread'[r] = "recording"
        \/ thread[r] = "recording" /\ lock' = Nobody /\ thread'[r] = "hopping"
    BY <1>2, <1>5
    DEF ThreadStep, Connected, ScanStation, ScanEnds, HopCapture, HopRecord, HopReport, HopEnds,
        JobFails, UsesReceiver, Finish, LockFree, sharedVars, SlotTypes, ThreadStates
  <2>4. ASSUME NEW q \in Slots, q # r PROVE ThreadOf(q)'
    BY <1>1, <1>2, <2>1, <2>2, <2>3, <2>4 DEF ThreadOf, Busy
  <2>5. ThreadOf(r)'
    <3>1. CASE HopReport(r)
      <4>1. todo[r] > 0 /\ phase = "hop" /\ newObs[r] + todo[r] <= Listed[r] /\ Busy(r)
        BY <1>1, <3>1 DEF HopReport, ThreadOf, Busy
      <4>2. newObs'[r] \in {newObs[r], newObs[r] + 1} /\ todo'[r] = todo[r] - 1
        BY <1>2, <3>1 DEF HopReport, CountEntered, SlotTypes, Numbers
      <4>3. newObs'[r] + todo'[r] <= Listed[r]
        BY <1>2, <4>1, <4>2 DEF SlotTypes, Numbers
      <4> QED
        BY <1>1, <1>2, <2>1, <2>3, <3>1, <4>1, <4>3 DEF HopReport, ThreadOf, Busy, SlotTypes
    <3>2. CASE HopCapture(r) \/ HopRecord(r)
      <4>1. thread'[r] = IF HopCapture(r) THEN "captured" ELSE "recording"
        BY <1>2, <3>2 DEF HopCapture, HopRecord, SlotTypes
      <4>2. todo[r] > 0
        BY <1>1, <3>2 DEF HopCapture, HopRecord, ThreadOf
      <4> QED
        BY <1>1, <2>1, <2>3, <3>2, <4>1, <4>2
        DEF HopCapture, HopRecord, ThreadOf, Busy, slotVars, sharedVars, ThreadStates
    <3>3. CASE ScanStation(r)
      BY <1>1, <2>1, <2>3, <3>3 DEF ScanStation, ThreadOf, Busy, sharedVars
    <3>4. CASE Connected(r) \/ ScanEnds(r) \/ HopEnds(r) \/ JobFails(r)
      <4>1. thread'[r] = "ended"
        BY <1>2, <3>4 DEF Connected, ScanEnds, HopEnds, JobFails, Finish, SlotTypes
      <4>2. lock' # r
        BY <1>1, <1>2, <2>3, <4>1 DEF ThreadOf
      <4> QED
        BY <4>1, <4>2 DEF ThreadOf, Busy
    <3> QED
      BY <1>5, <3>1, <3>2, <3>3, <3>4 DEF ThreadStep
  <2>6. Recorded'
    <3>1. CASE HopRecord(r)
      <4>1. PICK e \in BOOLEAN : recorded' = Append(recorded, Result(r, e))
        BY <3>1 DEF HopRecord
      <4>2. Result(r, e) \in OfSlot(r) /\ Result(r, e) \in Results /\ recorded \in Seq(Results)
        BY DEF Result, OfSlot, Results, TypeOK
      <4>3. recorded' # <<>> /\ recorded'[Len(recorded')] = Result(r, e)
        BY <4>1, <4>2, AppendProperties
      <4> QED
        BY <3>1, <4>2, <4>3 DEF Recorded, HopRecord
    <3>2. CASE UNCHANGED recorded /\ lock' \in {lock, Nobody}
      BY <1>1, <3>2 DEF Recorded
    <3> QED
      BY <1>5, <3>1, <3>2
      DEF ThreadStep, Connected, ScanStation, ScanEnds, HopCapture, HopReport, HopEnds, JobFails,
          sharedVars
  <2>7. AllBegun'
    BY <1>1, <2>1 DEF AllBegun
  <2> QED
    BY <2>4, <2>5, <2>6, <2>7 DEF Threads, ThreadOf, Recorded, AllBegun
<1>6. CASE /\ UNCHANGED <<thread, lock, phase, running, toStart, todo, newObs, recorded>>
           /\ AllBegun'
  BY <1>1, <1>6 DEF Threads, ThreadOf, Recorded, AllBegun, Busy
<1>7. CASE AllStarted \/ WriteQueued \/ Joined \/ ReportFailure \/ AllReported \/ Require \/ Decide
  BY <1>1, <1>6, <1>7
  DEF AllStarted, WriteQueued, Joined, ReportFailure, AllReported, Require, Decide, Go, Raise,
      AllBegun, LoopPoints, controlVars, phaseVars, slotVars, threadVars, sharedVars
<1>8. CASE PublishStarted \/ PublishWatchlist \/ CompleteCycle \/ PublishFinished \/ PublishInterrupted
  BY <1>1, <1>6, <1>8
  DEF PublishStarted, PublishWatchlist, CompleteCycle, PublishFinished, PublishInterrupted,
      PublishStopped, Publish, Go, Raise, AllBegun, LoopPoints, phaseVars, slotVars, threadVars,
      sharedVars
<1>9. CASE EndCycle \/ LeaveLoop \/ Stop \/ StopClose
  BY <1>1, <1>6, <1>9
  DEF EndCycle, LeaveLoop, Stop, StopClose, Go, Raise, AllBegun, LoopPoints, FinalPoints,
      HandlerPoints, phaseVars, slotVars, threadVars, sharedVars
<1>10. CASE World
  BY <1>1, <1>6, <1>10
  DEF World, Interrupt, RequestRescan, ReaderCloses, Go, AllBegun, LoopPoints, HandlerPoints,
      FinalPoints, controlVars, phaseVars, slotVars, threadVars, sharedVars
<1> QED
  BY <1>3, <1>4, <1>5, <1>7, <1>8, <1>9, <1>10 DEF Next, RunStep

-----------------------------------------------------------------------------
(* What is queued, and what the loop waits for.                              *)

Awaited == pc \in InPhase => remaining = Cardinality(Open) + Count(outbox, {Finished})
SentinelLast == outbox # <<>> /\ outbox[Len(outbox)] # Finished => \E r \in Slots : Busy(r)
ResultsOfHops == \A i \in DOMAIN outbox : outbox[i] \in Results => phase = "hop"

\* What queueing an item changes.
LEMMA QueueAppend ==
  ASSUME TypeOK, NEW item \in Items, outbox' = Append(outbox, item)
  PROVE  /\ outbox' # <<>> /\ outbox'[Len(outbox')] = item
         /\ \A kind : Count(outbox', kind) = Count(outbox, kind) + (IF item \in kind THEN 1 ELSE 0)
         /\ \A i \in DOMAIN outbox' :
                outbox'[i] = item \/ (i \in DOMAIN outbox /\ outbox'[i] = outbox[i])
<1>1. outbox \in Seq(Items)
  BY DEF TypeOK
<1>2. /\ Append(outbox, item) \in Seq(Items) /\ Append(outbox, item) # <<>>
      /\ Len(Append(outbox, item)) = Len(outbox) + 1
      /\ \A i \in 1..Len(outbox) : Append(outbox, item)[i] = outbox[i]
      /\ Append(outbox, item)[Len(outbox) + 1] = item
  BY <1>1, AppendProperties
<1>3. /\ DOMAIN outbox = 1..Len(outbox) /\ Len(outbox) \in Nat
      /\ DOMAIN Append(outbox, item) = 1..(Len(outbox) + 1)
  BY <1>1, <1>2, LenProperties
<1>4. \A kind : Count(Append(outbox, item), kind)
                 = Count(outbox, kind) + (IF item \in kind THEN 1 ELSE 0)
  BY <1>1, CountAppend
<1> QED
  BY <1>2, <1>3, <1>4

\* What taking an item changes.
LEMMA QueueTail ==
  ASSUME TypeOK, outbox # <<>>, outbox' = Tail(outbox)
  PROVE  /\ outbox' # <<>> => outbox'[Len(outbox')] = outbox[Len(outbox)]
         /\ \A kind : Count(outbox, kind) = Count(outbox', kind)
                                              + (IF Head(outbox) \in kind THEN 1 ELSE 0)
         /\ \A i \in DOMAIN outbox' : i + 1 \in DOMAIN outbox /\ outbox'[i] = outbox[i + 1]
         /\ Head(outbox) = outbox[1] /\ 1 \in DOMAIN outbox
<1>1. outbox \in Seq(Items)
  BY DEF TypeOK
<1>2. /\ Len(outbox) \in Nat \ {0} /\ DOMAIN outbox = 1..Len(outbox)
      /\ Tail(outbox) \in Seq(Items) /\ Len(Tail(outbox)) = Len(outbox) - 1
      /\ \A i \in 1..Len(Tail(outbox)) : Tail(outbox)[i] = outbox[i + 1]
      /\ Head(outbox) = outbox[1]
  BY <1>1, LenProperties, HeadTailProperties, EmptySeq
<1>3. DOMAIN Tail(outbox) = 1..(Len(outbox) - 1)
  BY <1>2, LenProperties
<1>4. \A kind : Count(outbox, kind) = Count(Tail(outbox), kind)
                                        + (IF Head(outbox) \in kind THEN 1 ELSE 0)
  BY <1>1, CountTail
<1>5. Tail(outbox) # <<>> => Len(Tail(outbox)) \in Nat \ {0}
  BY <1>2, EmptySeq
<1> QED
  BY <1>2, <1>3, <1>4, <1>5

\* Finitely many threads are awaited.
LEMMA OpenFinite ==
  ASSUME TypeOK
  PROVE  IsFiniteSet(Open) /\ Cardinality(Open) \in Nat
  BY SubsetsOfSlots DEF TypeOK, Open

\* When every thread has ended and every sentinel is taken, nothing is queued.
LEMMA NothingLeft ==
  ASSUME TypeOK, Threads, Sentinels, pc = "wait", PhaseOver
  PROVE  outbox = <<>> /\ lock = Nobody /\ \A r \in Slots : ~Busy(r)
<1>1. \A r \in Slots : ~Busy(r)
  BY DEF Threads, PhaseOver, Busy
<1>2. lock = Nobody
  BY <1>1 DEF Threads, Busy, TypeOK
<1>3. Count(outbox, {Finished}) = 0
  <2>1. 0 = Cardinality(Open) + Count(outbox, {Finished})
    BY DEF Sentinels, PhaseOver, InPhase
  <2>2. Cardinality(Open) \in Nat /\ Count(outbox, {Finished}) \in Nat
    BY OpenFinite, CountType DEF TypeOK
  <2> QED
    BY <2>1, <2>2
<1>4. \A i \in DOMAIN outbox : outbox[i] # Finished
  BY <1>3, CountType DEF TypeOK
<1>5. outbox # <<>> => Len(outbox) \in DOMAIN outbox
  BY EmptySeq, LenProperties DEF TypeOK
<1> QED
  BY <1>1, <1>2, <1>4, <1>5 DEF Sentinels

\* Steps keep one sentinel for every thread that has ended.
LEMMA SentinelsStep ==
  ASSUME TypeOK, Flow, Threads, Sentinels, Next
  PROVE  Sentinels'
<1>1. Awaited /\ SentinelLast /\ ResultsOfHops /\ PhasesDoNotOverlap
  BY DEF Sentinels, Awaited, SentinelLast, ResultsOfHops
<1>2. SlotTypes /\ outbox \in Seq(Items)
  BY SlotTypesHold DEF TypeOK
<1>3. CASE ConnectAll \/ BeginIteration \/ Acquire \/ Maintain
  <2>1. pc \in LoopPoints \ InPhase
    BY <1>3 DEF ConnectAll, BeginIteration, Acquire, Maintain, LoopPoints, InPhase
  <2>2. outbox = <<>> /\ lock = Nobody /\ \A r \in Slots : ~Busy(r)
    BY <2>1, Rest
  <2>3. UNCHANGED <<outbox, thread, lock>>
    BY <1>3 DEF ConnectAll, BeginIteration, Acquire, Maintain, threadVars, sharedVars
  <2>4. SentinelLast' /\ ResultsOfHops' /\ PhasesDoNotOverlap'
    BY <2>2, <2>3, EmptySeq DEF SentinelLast, ResultsOfHops, PhasesDoNotOverlap, Busy
  <2>5. Awaited'
    <3>1. pc' \in InPhase => /\ running' = toStart' /\ remaining' = Cardinality(running')
      <4>1. pc' \in InPhase => \E slots, job : Spawn(slots, job)
        BY <1>3
        DEF ConnectAll, BeginIteration, Acquire, Maintain, Publish, Go, Raise, InPhase
      <4>2. ASSUME NEW slots, NEW job, Spawn(slots, job)
            PROVE  running' = toStart' /\ remaining' = Cardinality(running')
        BY <4>2, Zenon DEF Spawn
      <4> QED
        BY <4>1, <4>2
    <3>2. pc' \in InPhase => Open' = running'
      BY <3>1 DEF Open
    <3>3. pc' \in InPhase => IsFiniteSet(running') /\ Cardinality(running') \in Nat
      BY PhaseTypeStep, SubsetsOfSlots, FS_CardinalityType DEF PhaseTypes
    <3>4. Count(outbox', {Finished}) = 0
      BY <2>2, <2>3, CountEmpty
    <3> QED
      BY <3>1, <3>2, <3>3, <3>4 DEF Awaited
  <2> QED
    BY <2>4, <2>5 DEF Sentinels, Awaited, SentinelLast, ResultsOfHops
<1>4. CASE StartThread
  <2>1. PICK r \in toStart : /\ toStart' = toStart \ {r}
                            /\ \E s \in ThreadSteps : thread' = [thread EXCEPT ![r] = s]
    BY <1>4, SubsetsOfSlots DEF StartThread, ThreadSteps, TypeOK
  <2>2. UNCHANGED <<pc, phase, running, remaining, outbox, lock>> /\ pc = "spawn"
    BY <1>4 DEF StartThread, controlVars, sharedVars
  <2>3. \A q \in Slots : Busy(q)' <=> Busy(q) \/ q = r
    BY <1>2, <2>1 DEF Busy, SlotTypes, ThreadSteps
  <2>4. Open' = Open
    BY <2>1, <2>2, <2>3 DEF Open, TypeOK
  <2>5. Awaited'
    BY <1>1, <2>2, <2>4, Zenon DEF Awaited
  <2>6. SentinelLast' /\ ResultsOfHops' /\ PhasesDoNotOverlap'
    BY <1>1, <2>2, <2>3 DEF SentinelLast, ResultsOfHops, PhasesDoNotOverlap
  <2> QED
    BY <2>5, <2>6 DEF Sentinels, Awaited, SentinelLast, ResultsOfHops
<1>5. CASE WriteQueued
  <2>1. /\ UNCHANGED <<phase, running, toStart, thread, lock>>
        /\ pc = "wait" /\ outbox # <<>> /\ outbox' = Tail(outbox)
    BY <1>5 DEF WriteQueued, threadVars
  <2>2. SentinelLast'
    BY <1>1, <2>1, QueueTail DEF SentinelLast, Busy
  <2>3. ResultsOfHops'
    BY <1>1, <2>1, QueueTail DEF ResultsOfHops
  <2>4. PhasesDoNotOverlap'
    BY <1>5, <2>1 DEF WriteQueued, Raise, PhasesDoNotOverlap, LoopPoints, controlVars
  <2>5. Awaited'
    <3>1. SUFFICES ASSUME pc' \in InPhase
                   PROVE  remaining' = Cardinality(Open') + Count(outbox', {Finished})
      BY DEF Awaited
    <3>2. Open' = Open
      BY <2>1 DEF Open, Busy
    <3>3. Cardinality(Open') = Cardinality(Open) /\ Cardinality(Open) \in Nat
      BY <3>2, OpenFinite, Zenon
    <3>4. Count(outbox, {Finished}) \in Nat /\ Count(outbox', {Finished}) \in Nat
      BY <1>2, <2>1, CountType, HeadTailProperties
    <3>5. remaining = Cardinality(Open) + Count(outbox, {Finished}) /\ remaining \in Nat
      BY <1>1, <2>1, <3>3, <3>4 DEF Awaited, InPhase
    <3>6. CASE Head(outbox) = Finished
      <4>1. remaining' = remaining - 1
        BY <1>5, <3>6 DEF WriteQueued
      <4>2. Count(outbox, {Finished}) = Count(outbox', {Finished}) + 1
        BY <2>1, <3>6, QueueTail
      <4> QED
        BY <3>3, <3>4, <3>5, <4>1, <4>2
    <3>7. CASE Head(outbox) # Finished
      <4>1. remaining' = remaining
        BY <1>5, <3>1, <3>7 DEF WriteQueued, Raise, InPhase
      <4>2. Count(outbox, {Finished}) = Count(outbox', {Finished}) + 0
        BY <2>1, <3>7, QueueTail
      <4> QED
        BY <3>3, <3>4, <3>5, <4>1, <4>2
    <3> QED
      BY <3>6, <3>7
  <2> QED
    BY <2>2, <2>3, <2>4, <2>5 DEF Sentinels, Awaited, SentinelLast, ResultsOfHops
<1>6. CASE Joined
  <2>1. UNCHANGED <<outbox, thread, lock, phase>> /\ pc' \notin InPhase
    BY <1>6 DEF Joined, Go, Raise, InPhase, phaseVars, threadVars, sharedVars
  <2>2. PhasesDoNotOverlap'
    BY <1>6, <2>1, NothingLeft DEF Joined, PhasesDoNotOverlap, Busy
  <2> QED
    BY <1>1, <2>1, <2>2
    DEF Sentinels, Awaited, SentinelLast, ResultsOfHops, Busy
<1>7. ASSUME NEW r \in Slots, ThreadStep(r) PROVE Sentinels'
  <2>1. UNCHANGED <<pc, phase, running, toStart, remaining>> /\ Busy(r) /\ r \in Open
    <3>1. UNCHANGED <<pc, phase, running, toStart, remaining>> /\ Busy(r)
      BY <1>7
      DEF ThreadStep, Connected, ScanStation, ScanEnds, HopCapture, HopRecord, HopReport, HopEnds,
          JobFails, UsesReceiver, Busy, controlVars, phaseVars
    <3> QED
      BY <3>1 DEF Threads, Open
  <2>2. PhasesDoNotOverlap'
    BY <1>1, <2>1 DEF PhasesDoNotOverlap, Busy
  <2>3. CASE HopCapture(r) \/ HopRecord(r)
    <3>1. UNCHANGED outbox /\ \A q \in Slots : Busy(q)' <=> Busy(q)
      BY <1>2, <2>1, <2>3 DEF HopCapture, HopRecord, Busy, SlotTypes, sharedVars
    <3>2. Open' = Open
      BY <2>1, <3>1 DEF Open, TypeOK
    <3>3. Awaited'
      BY <1>1, <2>1, <3>1, <3>2, Zenon DEF Awaited
    <3>4. SentinelLast' /\ ResultsOfHops'
      BY <1>1, <2>1, <3>1 DEF SentinelLast, ResultsOfHops
    <3> QED
      BY <2>2, <3>3, <3>4 DEF Sentinels, Awaited, SentinelLast, ResultsOfHops
  <2>4. CASE ScanStation(r) \/ HopReport(r)
    <3>1. PICK item \in Items \ {Finished} : outbox' = Append(outbox, item)
                                             /\ (item \in Results => phase = "hop")
      BY <2>4, LatestResult, OfSlotIsResult
      DEF ScanStation, HopReport, Items, Results, ScanStep, Finished, OfSlot, Threads
    <3>2. \A q \in Slots : Busy(q)' <=> Busy(q)
      BY <1>2, <2>1, <2>4 DEF ScanStation, HopReport, Busy, SlotTypes
    <3>3. Open' = Open
      BY <2>1, <3>2 DEF Open, TypeOK
    <3>4. Count(outbox', {Finished}) = Count(outbox, {Finished}) + 0
      BY <3>1, QueueAppend
    <3>5. Count(outbox, {Finished}) \in Nat
      BY <1>2, CountType
    <3>6. Count(outbox', {Finished}) = Count(outbox, {Finished})
      BY <3>4, <3>5
    <3>7. Awaited'
      BY <1>1, <2>1, <3>3, <3>6, Zenon DEF Awaited
    <3>8. SentinelLast'
      BY <2>1, <3>2 DEF SentinelLast
    <3>9. ResultsOfHops'
      BY <1>1, <2>1, <3>1, QueueAppend DEF ResultsOfHops
    <3> QED
      BY <2>2, <3>7, <3>8, <3>9 DEF Sentinels, Awaited, SentinelLast, ResultsOfHops
  <2>5. CASE Connected(r) \/ ScanEnds(r) \/ HopEnds(r) \/ JobFails(r)
    <3>1. Finish(r)
      BY <2>5 DEF Connected, ScanEnds, HopEnds, JobFails
    <3>2. Finished \in Items /\ Finished \notin Results /\ outbox' = Append(outbox, Finished)
      BY <3>1 DEF Finish, Items, Results, Finished
    <3>3. \A q \in Slots : Busy(q)' <=> Busy(q) /\ q # r
      BY <1>2, <3>1 DEF Finish, Busy, SlotTypes
    <3>4. Open' = Open \ {r}
      BY <2>1, <3>3 DEF Open, TypeOK, Threads
    <3>5. Cardinality(Open') = Cardinality(Open) - 1 /\ Cardinality(Open) \in Nat
      BY <2>1, <3>4, OpenFinite, FS_RemoveElement
    <3>6. Count(outbox', {Finished}) = Count(outbox, {Finished}) + 1
      BY <3>2, QueueAppend
    <3>7. Awaited'
      <4>1. Count(outbox, {Finished}) \in Nat
        BY <1>2, CountType
      <4>2. Cardinality(Open) + Count(outbox, {Finished})
              = Cardinality(Open') + Count(outbox', {Finished})
        BY <3>5, <3>6, <4>1
      <4> QED
        BY <1>1, <2>1, <4>2, Zenon DEF Awaited
    <3>8. SentinelLast' /\ ResultsOfHops'
      BY <1>1, <2>1, <3>2, QueueAppend DEF SentinelLast, ResultsOfHops
    <3> QED
      BY <2>2, <3>7, <3>8 DEF Sentinels, Awaited, SentinelLast, ResultsOfHops
  <2> QED
    BY <1>7, <2>3, <2>4, <2>5 DEF ThreadStep
<1>8. CASE /\ UNCHANGED <<outbox, lock, thread, phase, running, toStart, remaining>>
           /\ pc' \in LoopPoints \ InPhase => pc \in LoopPoints \ InPhase
           /\ pc' \in InPhase => pc \in InPhase
  BY <1>1, <1>8
  DEF Sentinels, Awaited, SentinelLast, ResultsOfHops, PhasesDoNotOverlap, Busy, Open, InPhase
<1> USE DEF InPhase, LoopPoints, HandlerPoints, FinalPoints, Go, Raise
<1>9. CASE AllStarted \/ ReportFailure \/ AllReported \/ Require \/ Decide
  <2>1. CASE AllStarted \/ ReportFailure \/ AllReported \/ Decide
    BY <1>8, <2>1
    DEF AllStarted, ReportFailure, AllReported, Decide, controlVars, phaseVars, threadVars, sharedVars
  <2>2. CASE Require
    <3>1. phase \in {"connect", "reconnect", "scan", "hop"}
      BY <2>2 DEF Require, Flow, Afterwards, TypeOK
    <3> QED
      BY <1>8, <2>2, <3>1 DEF Require, phaseVars, threadVars, sharedVars
  <2> QED
    BY <1>9, <2>1, <2>2
<1>10. CASE PublishStarted \/ PublishWatchlist \/ CompleteCycle \/ PublishFinished \/ PublishInterrupted
  BY <1>8, <1>10
  DEF PublishStarted, PublishWatchlist, CompleteCycle, PublishFinished, PublishInterrupted,
      PublishStopped, Publish, phaseVars, threadVars, sharedVars
<1>11. CASE EndCycle \/ LeaveLoop \/ Stop \/ StopClose \/ World
  BY <1>8, <1>11
  DEF EndCycle, LeaveLoop, Stop, StopClose, World, Interrupt, RequestRescan, ReaderCloses,
      controlVars, phaseVars, threadVars, sharedVars
<1> QED
  BY <1>3, <1>4, <1>5, <1>6, <1>7, <1>9, <1>10, <1>11 DEF Next, RunStep

-----------------------------------------------------------------------------
(* The receivers and their stations.                                         *)

stationVars == <<pc, phase, running, asked, acquiring, client, watch>>

\* While the loop's body runs, a thread is busy only within a phase.
LEMMA BusyInPhase ==
  ASSUME Sentinels, NEW r \in Slots, Busy(r), pc \in LoopPoints
  PROVE  pc \in InPhase
  BY Rest

\* Steps keep the stations with their receivers, checked when they must be.
LEMMA StationsStep ==
  ASSUME TypeOK, Flow, Threads, Sentinels, Stations, Next
  PROVE  Stations'
<1>1. SlotTypes /\ Slots # {}
  BY SlotTypesHold, SlotsAssumption
<1>2. CASE UNCHANGED stationVars
  BY <1>2 DEF stationVars, Stations, StationsHaveReceiver, Checking, During, Up
<1>3. CASE ConnectAll
  BY <1>3 DEF ConnectAll, Go, Spawn, Stations, StationsHaveReceiver, Checking, During, Up, InPhase,
              Afterwards, LoopPoints, cycleVars, slotVars
<1>4. CASE AllStarted \/ Joined \/ AllReported
  BY <1>4 DEF AllStarted, Joined, AllReported, Go, Raise, Stations, StationsHaveReceiver, Checking,
              During, Up, InPhase, Afterwards, LoopPoints, phaseVars, cycleVars, slotVars
<1>5. CASE WriteQueued
  BY <1>5 DEF WriteQueued, Raise, Stations, StationsHaveReceiver, Checking, During, Up, InPhase,
              Afterwards, LoopPoints, controlVars, cycleVars, slotVars
<1>6. CASE ReportFailure
  <2>1. PICK r \in Slots : /\ client' = [client EXCEPT ![r] = FALSE]
                           /\ watch' = [watch EXCEPT ![r] = 0]
    BY <1>6, SubsetsOfSlots DEF ReportFailure, WatchWithout, TypeOK
  <2>2. pc = "report" /\ pc' \in {"report", "finalStop"} /\ UNCHANGED <<phase, running, asked, acquiring>>
    BY <1>6 DEF ReportFailure, Raise, controlVars, cycleVars
  <2>3. \A q \in Slots : watch'[q] > 0 => client'[q]
    BY <1>1, <2>1, <2>2 DEF SlotTypes, Numbers, Stations, StationsHaveReceiver, LoopPoints
  <2>4. \A q \in Up' : q \in Up /\ watch'[q] = watch[q]
    BY <1>1, <2>1 DEF Up, SlotTypes, Numbers
  <2> QED
    BY <2>2, <2>3, <2>4 DEF Stations, StationsHaveReceiver, Checking, During, InPhase, Afterwards
<1>7. CASE Require
  BY <1>7 DEF Require, Go, Raise, Stations, StationsHaveReceiver, Checking, During, Up, InPhase,
              Afterwards, LoopPoints, phaseVars, cycleVars, slotVars, Flow, TypeOK
<1>8. CASE PublishStarted
  BY <1>8 DEF PublishStarted, Publish, Go, Raise, Flow, Stations, StationsHaveReceiver, Checking, During,
              Up, InPhase, Afterwards, LoopPoints, phaseVars, cycleVars, slotVars
<1>9. CASE BeginIteration
  BY <1>1, <1>9 DEF BeginIteration, Go, Spawn, Stations, StationsHaveReceiver, Checking, During, Up,
              InPhase, Afterwards, LoopPoints, phaseVars, slotVars
<1>10. CASE Decide
  BY <1>10 DEF Decide, Everywhere, Go, Stations, StationsHaveReceiver, Checking, During, Up, InPhase,
              Afterwards, LoopPoints, phaseVars, slotVars
<1>11. CASE Acquire
  BY <1>11 DEF Acquire, Publish, Go, Raise, Spawn, Stations, StationsHaveReceiver, Checking, During, Up,
              InPhase, Afterwards, LoopPoints, phaseVars, cycleVars, slotVars
<1>12. CASE PublishWatchlist
  BY <1>12 DEF PublishWatchlist, Publish, Go, Raise, Stations, StationsHaveReceiver, Checking, During,
              Up, InPhase, Afterwards, LoopPoints, phaseVars, slotVars
<1>13. CASE Maintain
  BY <1>13 DEF Maintain, Publish, Go, Raise, Spawn, Stations, StationsHaveReceiver, Checking, During,
              Up, InPhase, Afterwards, LoopPoints, phaseVars, cycleVars, slotVars
<1>14. CASE CompleteCycle \/ PublishFinished \/ PublishInterrupted
  BY <1>14 DEF CompleteCycle, PublishFinished, PublishInterrupted, PublishStopped, Publish, Go, Raise,
              Stations, StationsHaveReceiver, Checking, During, Up, InPhase, Afterwards, LoopPoints,
              phaseVars, cycleVars, slotVars
<1>15. CASE EndCycle \/ LeaveLoop \/ Stop \/ StopClose \/ Interrupt
  BY <1>15 DEF EndCycle, LeaveLoop, Stop, StopClose, Interrupt, Go, Raise, Stations,
              StationsHaveReceiver, Checking, During, Up, InPhase, Afterwards, LoopPoints,
              HandlerPoints, FinalPoints, phaseVars, cycleVars, slotVars
<1>16. CASE StartThread \/ RequestRescan \/ ReaderCloses
  BY <1>2, <1>16 DEF StartThread, RequestRescan, ReaderCloses, stationVars, controlVars, phaseVars,
              cycleVars, slotVars
<1>17. ASSUME NEW r \in Slots, ThreadStep(r) PROVE Stations'
  <2>1. UNCHANGED <<pc, phase, running, asked, acquiring>>
    BY <1>17
    DEF ThreadStep, Connected, ScanStation, ScanEnds, HopCapture, HopRecord, HopReport, HopEnds,
        JobFails, controlVars, phaseVars, cycleVars
  <2>2. CASE Connected(r)
    <3>1. Busy(r) /\ phase # "scan" /\ UNCHANGED watch
      BY <2>2 DEF Connected, Busy, Threads
    <3>2. pc \in LoopPoints => pc \in InPhase /\ client' = [client EXCEPT ![r] = TRUE]
      BY <2>2, <3>1, BusyInPhase DEF Connected, Flow
    <3>3. pc \notin {"decide", "acquire", "listed", "maintain"}
      BY <3>2 DEF LoopPoints, InPhase
    <3> QED
      BY <1>1, <2>1, <3>1, <3>2, <3>3
      DEF Stations, StationsHaveReceiver, Checking, During, SlotTypes
  <2>3. CASE ScanEnds(r)
    <3>1. Busy(r) /\ phase = "scan" /\ r \in running /\ UNCHANGED client
      BY <2>3 DEF ScanEnds, Busy, Threads
    <3>2. pc \in LoopPoints => pc \in InPhase /\ r \in acquiring /\ client[r]
      BY <3>1, BusyInPhase DEF Stations, During, Up
    <3>3. PICK n \in 0..Listed[r] : watch' = [watch EXCEPT ![r] = n]
      BY <2>3 DEF ScanEnds
    <3>4. \A q \in Slots : q # r => watch'[q] = watch[q]
      BY <1>1, <3>3 DEF SlotTypes, Numbers
    <3> QED
      BY <2>1, <3>1, <3>2, <3>4
      DEF Stations, StationsHaveReceiver, Checking, During, Up, LoopPoints, InPhase, Afterwards
  <2>4. CASE UNCHANGED <<client, watch>>
    BY <1>2, <2>1, <2>4 DEF stationVars
  <2> QED
    BY <1>17, <2>2, <2>3, <2>4
    DEF ThreadStep, ScanStation, HopCapture, HopRecord, HopReport, HopEnds, JobFails, slotVars
<1> QED
  BY <1>3, <1>4, <1>5, <1>6, <1>7, <1>8, <1>9, <1>10, <1>11, <1>12, <1>13, <1>14, <1>15, <1>16,
     <1>17 DEF Next, RunStep, World

-----------------------------------------------------------------------------
(* What a pass over the stations brings.                                     *)

\* A phase that an error ended is not followed by another.
LEMMA NoErrorStep ==
  ASSUME TypeOK, Flow, Sentinels, Hops, Next
  PROVE  NoError'
<1>1. NoError
  BY DEF Hops
<1> USE DEF NoError, During, InPhase, LoopPoints
<1>2. CASE ConnectAll \/ BeginIteration \/ Acquire \/ Maintain
  BY <1>1, <1>2
  DEF ConnectAll, BeginIteration, Acquire, Maintain, Publish, Spawn, Go, Raise, phaseVars
<1>3. CASE StartThread \/ AllStarted \/ WriteQueued \/ Joined \/ AllReported \/ Decide
  BY <1>1, <1>3
  DEF StartThread, AllStarted, WriteQueued, Joined, AllReported, Decide, Go, Raise, controlVars,
      phaseVars
<1>4. CASE ReportFailure \/ Require
  <2>1. CASE ReportFailure
    BY <1>1, <2>1 DEF ReportFailure, Raise, controlVars
  <2>2. CASE Require
    <3>1. phase \in {"connect", "reconnect", "scan", "hop"}
      BY <2>2 DEF Require, Flow, Afterwards, TypeOK
    <3> QED
      BY <1>1, <2>2, <3>1 DEF Require, Go, Raise, phaseVars
  <2> QED
    BY <1>4, <2>1, <2>2
<1>5. CASE PublishStarted \/ PublishWatchlist \/ CompleteCycle \/ PublishFinished \/ PublishInterrupted
  BY <1>1, <1>5
  DEF PublishStarted, PublishWatchlist, CompleteCycle, PublishFinished, PublishInterrupted,
      PublishStopped, Publish, Go, Raise, phaseVars
<1>6. CASE EndCycle \/ LeaveLoop \/ Stop \/ StopClose \/ World
  BY <1>1, <1>6
  DEF EndCycle, LeaveLoop, Stop, StopClose, World, Interrupt, RequestRescan, ReaderCloses, Go, Raise,
      HandlerPoints, FinalPoints, controlVars, phaseVars
<1>7. ASSUME NEW r \in Slots, ThreadStep(r) PROVE NoError'
  <2>1. pc' = pc /\ Busy(r)
    BY <1>7
    DEF ThreadStep, Connected, ScanStation, ScanEnds, HopCapture, HopRecord, HopReport, HopEnds,
        JobFails, UsesReceiver, Busy, controlVars
  <2>2. pc \in LoopPoints => pc \in InPhase
    BY <2>1, BusyInPhase
  <2> QED
    BY <2>1, <2>2
<1> QED
  BY <1>2, <1>3, <1>4, <1>5, <1>6, <1>7 DEF Next, RunStep

\* Steps keep what the last cycle_completed lists.
LEMMA ListedStep ==
  ASSUME TypeOK, Flow, Threads, Sentinels, Hops, Next
  PROVE  ListedStationsWereHopped'
<1>1. ListedStationsWereHopped
  BY DEF Hops
<1>2. CASE CompleteCycle /\ readerOpen
  <2>1. pc = "complete" /\ listed' = watch /\ UNCHANGED told
    BY <1>2 DEF CompleteCycle, Publish
  <2>2. outbox = <<>> /\ failed = {} /\ ~crashed /\ toStart = {} /\ \A r \in Slots : ~Busy(r)
    BY <2>1, Rest DEF Hops, NoError, Threads, LoopPoints, InPhase
  <2>3. ASSUME NEW r \in Slots, watch[r] > 0 PROVE Count(told, OfSlot(r)) = watch[r]
    <3>1. Reported(OfSlot(r)) + Left(r) = watch[r] /\ Left(r) = 0
      BY <2>1, <2>2, <2>3 DEF Hops, EachHopped, HoppedOf, Hopping, Left
    <3>2. Count(outbox, OfSlot(r)) = 0 /\ Count(told, OfSlot(r)) \in Nat
      BY <2>2, CountEmpty, CountType DEF TypeOK
    <3> QED
      BY <3>1, <3>2 DEF Reported
  <2> QED
    BY <2>1, <2>3 DEF ListedStationsWereHopped
<1>3. CASE stage' # "cycle_completed"
  BY <1>3 DEF ListedStationsWereHopped
<1>4. CASE UNCHANGED <<stage, listed, told>>
  BY <1>1, <1>4 DEF ListedStationsWereHopped
<1>5. CASE WriteQueued
  <2>1. outbox \in Seq(Items) /\ outbox # <<>> /\ Head(outbox) = outbox[1] /\ 1 \in DOMAIN outbox
    BY <1>5, QueueTail, HeadTailProperties, EmptySeq, LenProperties DEF WriteQueued, TypeOK
  <2>2. Head(outbox) \in Results => stage = "maintenance_started"
    BY <1>5, <2>1 DEF WriteQueued, Sentinels, Flow, Hopping, During, InPhase
  <2>3. Head(outbox) \notin Results => UNCHANGED told
    BY <1>5, <2>1, HeadTailProperties DEF WriteQueued, Items
  <2>4. UNCHANGED <<stage, listed>>
    BY <1>5 DEF WriteQueued
  <2> QED
    BY <1>3, <1>4, <2>2, <2>3, <2>4
<1>6. CASE PublishStarted \/ Acquire \/ PublishWatchlist \/ Maintain \/ CompleteCycle
             \/ PublishFinished \/ PublishInterrupted
  BY <1>2, <1>3, <1>4, <1>6
  DEF PublishStarted, Acquire, PublishWatchlist, Maintain, CompleteCycle, PublishFinished,
      PublishInterrupted, PublishStopped, Publish
<1>7. ASSUME NEW r \in Slots, ThreadStep(r) PROVE ListedStationsWereHopped'
  BY <1>4, <1>7
  DEF ThreadStep, Connected, ScanStation, ScanEnds, HopCapture, HopRecord, HopReport, HopEnds,
      JobFails, streamVars
<1> QED
  BY <1>4, <1>5, <1>6, <1>7
  DEF Next, RunStep, World, ConnectAll, StartThread, AllStarted, Joined, ReportFailure, AllReported,
      Require, BeginIteration, Decide, EndCycle, LeaveLoop, Stop, StopClose, Interrupt, RequestRescan,
      ReaderCloses, streamVars

\* Only a hop thread is busy while the loop hops.
LEMMA HopThread ==
  ASSUME Threads, Sentinels, Hopping, NEW r \in Slots, Busy(r)
  PROVE  pc \in InPhase /\ phase = "hop" /\ r \in running \ toStart
<1>1. pc \in InPhase
  BY Rest DEF Hopping, During, LoopPoints, Afterwards, InPhase
<1> QED
  BY <1>1 DEF Threads, Hopping, During, InPhase

\* What is taken from the queue is written, what is queued is reported.
LEMMA Delivered ==
  ASSUME TypeOK, WriteQueued, Hopping', NEW kind \in SUBSET Results
  PROVE  Reported(kind)' = Reported(kind)
<1>1. outbox \in Seq(Items) /\ outbox # <<>> /\ outbox' = Tail(outbox) /\ told \in Seq(Results)
  BY DEF WriteQueued, TypeOK
<1>2. Head(outbox) \in Items /\ Tail(outbox) \in Seq(Items)
  BY <1>1, HeadTailProperties
<1>3. Count(told, kind) \in Nat /\ Count(outbox, kind) \in Nat /\ Count(outbox', kind) \in Nat
  BY <1>1, <1>2, CountType
<1>4. pc' # "finalStop"
  BY DEF Hopping, During, InPhase, Afterwards
<1>5. CASE Head(outbox) \in Results
  <2>1. told' = Append(told, Head(outbox))
    BY <1>4, <1>5 DEF WriteQueued, Raise, Results, Finished, ScanStep
  <2>2. Count(told', kind) = Count(told, kind) + (IF Head(outbox) \in kind THEN 1 ELSE 0)
    BY <1>1, <1>5, <2>1, CountAppend
  <2>3. Count(outbox, kind) = Count(outbox', kind) + (IF Head(outbox) \in kind THEN 1 ELSE 0)
    BY <1>1, QueueTail
  <2> QED
    BY <1>3, <2>2, <2>3 DEF Reported
<1>6. CASE Head(outbox) \notin Results
  <2>1. UNCHANGED told
    BY <1>2, <1>4, <1>6 DEF WriteQueued, Raise, Items
  <2>2. Count(outbox, kind) = Count(outbox', kind) + 0
    BY <1>1, <1>6, QueueTail
  <2> QED
    BY <1>3, <2>1, <2>2 DEF Reported
<1> QED
  BY <1>5, <1>6

\* An item that is queued is one more reported of its kinds.
LEMMA Queued ==
  ASSUME TypeOK, NEW item \in Items, outbox' = Append(outbox, item), UNCHANGED told, NEW kind
  PROVE  /\ Reported(kind) \in Nat
         /\ Reported(kind)' = IF item \in kind THEN Reported(kind) + 1 ELSE Reported(kind)
<1>1. Count(told, kind) \in Nat /\ Count(outbox, kind) \in Nat
  BY CountType DEF TypeOK
<1>2. Count(outbox', kind) = Count(outbox, kind) + (IF item \in kind THEN 1 ELSE 0)
  BY QueueAppend
<1> QED
  BY <1>1, <1>2 DEF Reported

\* Steps keep account of the stations of a pass.
LEMMA EachHoppedStep ==
  ASSUME TypeOK, Flow, Threads, Sentinels, Stations, Hops, Next
  PROVE  EachHopped'
<1>1. EachHopped /\ SlotTypes
  BY SlotTypesHold DEF Hops
<1>2. CASE Maintain
  <2>1. CASE ~readerOpen
    BY <1>2, <2>1 DEF Maintain, Publish, Raise, EachHopped, Hopping, During, InPhase, Afterwards
  <2>2. CASE readerOpen
    <3>1. outbox = <<>> /\ pc = "maintain"
      BY <1>2, Rest DEF Maintain, LoopPoints, InPhase
    <3>2. told' = <<>> /\ outbox' = <<>> /\ UNCHANGED watch
      BY <1>2, <2>2, <3>1 DEF Maintain, Publish, slotVars
    <3>3. \A kind : Reported(kind)' = 0
      BY <3>2, CountEmpty DEF Reported
    <3>4. \A r \in Slots : watch[r] > 0 => r \in running' /\ r \in toStart'
      BY <1>2, <2>2, <3>1
      DEF Maintain, Spawn, Stations, StationsHaveReceiver, LoopPoints, Up
    <3>5. ASSUME NEW r \in Slots PROVE HoppedOf(r)'
      BY <1>1, <3>2, <3>3, <3>4 DEF HoppedOf, Left, SlotTypes, Numbers
    <3> QED
      BY <3>5 DEF EachHopped
  <2> QED
    BY <2>1, <2>2
<1>3. CASE StartThread
  <2>1. SUFFICES ASSUME Hopping', NEW q \in Slots PROVE HoppedOf(q)'
    BY DEF EachHopped
  <2>2. UNCHANGED <<pc, phase, running, failed, crashed, watch, outbox, told>> /\ pc = "spawn"
    BY <1>3 DEF StartThread, controlVars, sharedVars, streamVars
  <2>3. Hopping /\ phase = "hop"
    BY <2>1, <2>2 DEF Hopping, During
  <2>4. PICK r \in toStart : /\ toStart' = toStart \ {r}
                            /\ todo' = [todo EXCEPT ![r] = watch[r]]
                            /\ thread' = [thread EXCEPT ![r] = "hopping"]
    BY <1>3, <2>3, SubsetsOfSlots DEF StartThread, TypeOK
  <2>5. Left(q)' = Left(q) /\ (q \in toStart \/ Busy(q) \/ todo[q] = 0 =>
                               q \in toStart' \/ Busy(q)' \/ todo'[q] = 0)
    BY <1>1, <2>2, <2>4 DEF Left, Busy, SlotTypes, Numbers
  <2>6. Reported(OfSlot(q))' = Reported(OfSlot(q))
    BY <2>2 DEF Reported, OfSlot
  <2> QED
    BY <1>1, <2>2, <2>3, <2>5, <2>6 DEF EachHopped, HoppedOf
<1>4. CASE WriteQueued
  <2>1. SUFFICES ASSUME Hopping', NEW q \in Slots PROVE HoppedOf(q)'
    BY DEF EachHopped
  <2>2. UNCHANGED <<phase, running, toStart, failed, crashed, watch, thread, todo>> /\ pc = "wait"
    BY <1>4 DEF WriteQueued, slotVars, threadVars
  <2>3. Hopping
    BY <1>4, <2>1, <2>2 DEF WriteQueued, Raise, Hopping, During, InPhase, Afterwards, controlVars
  <2>4. Reported(OfSlot(q))' = Reported(OfSlot(q))
    BY <1>4, <2>1, Delivered, OfSlotIsResult
  <2> QED
    BY <1>1, <2>2, <2>3, <2>4 DEF EachHopped, HoppedOf, Left, Busy
<1>5. CASE ReportFailure
  <2>1. SUFFICES ASSUME Hopping', NEW q \in Slots PROVE HoppedOf(q)'
    BY DEF EachHopped
  <2>2. /\ UNCHANGED <<phase, running, toStart, crashed, thread, todo, outbox, told>>
        /\ pc = "report" /\ pc' \in {"report", "finalStop"}
    BY <1>5 DEF ReportFailure, Raise, controlVars, threadVars, sharedVars
  <2>3. Hopping /\ toStart = {}
    BY <2>1, <2>2 DEF Hopping, During, InPhase, Afterwards, Threads, LoopPoints
  <2>4. PICK r \in Slots : failed' = failed \ {r} /\ watch' = [watch EXCEPT ![r] = 0]
    BY <1>5, SubsetsOfSlots DEF ReportFailure, WatchWithout, TypeOK
  <2>5. watch'[q] > 0 => watch'[q] = watch[q] /\ q # r
    BY <1>1, <2>4 DEF SlotTypes, Numbers
  <2>6. Left(q)' = Left(q) /\ Reported(OfSlot(q))' = Reported(OfSlot(q))
    BY <2>2, <2>3 DEF Left, Reported, OfSlot
  <2> QED
    BY <1>1, <2>2, <2>3, <2>4, <2>5, <2>6 DEF EachHopped, HoppedOf, Busy
<1>6. ASSUME NEW r \in Slots, ThreadStep(r) PROVE EachHopped'
  <2>1. SUFFICES ASSUME Hopping', NEW q \in Slots PROVE HoppedOf(q)'
    BY DEF EachHopped
  <2>2. UNCHANGED <<pc, phase, running, toStart, told>> /\ Busy(r)
    BY <1>6
    DEF ThreadStep, Connected, ScanStation, ScanEnds, HopCapture, HopRecord, HopReport, HopEnds,
        JobFails, UsesReceiver, Busy, controlVars, phaseVars, streamVars
  <2>3. Hopping
    BY <2>1, <2>2 DEF Hopping, During
  <2>4. phase = "hop" /\ r \notin toStart
    BY <2>2, <2>3, HopThread
  <2>5. HopCapture(r) \/ HopRecord(r) \/ HopReport(r) \/ HopEnds(r) \/ JobFails(r)
    BY <1>6, <2>4 DEF ThreadStep, Connected, ScanStation, ScanEnds, Threads
  <2>6. UNCHANGED watch /\ (~crashed' => ~crashed) /\ failed \subseteq failed'
    BY <2>5
    DEF HopCapture, HopRecord, HopReport, HopEnds, JobFails, Failure, slotVars, phaseVars
  <2>7. Finished \in Items /\ \A p \in Slots : Finished \notin OfSlot(p)
    BY DEF Items, Finished, OfSlot
  <2>8. CASE q # r
    <3>1. thread'[q] = thread[q] /\ todo'[q] = todo[q]
      BY <1>1, <2>5, <2>8
      DEF HopCapture, HopRecord, HopReport, HopEnds, JobFails, Finish, SlotTypes, Numbers
    <3>2. UNCHANGED outbox \/ \E item \in Items \ OfSlot(q) : outbox' = Append(outbox, item)
      BY <2>5, <2>7, <2>8, LatestResult, OfSlotIsResult
      DEF HopCapture, HopRecord, HopReport, HopEnds, JobFails, Finish, OfSlot, sharedVars
    <3>3. Reported(OfSlot(q))' = Reported(OfSlot(q))
      <4>1. CASE UNCHANGED outbox
        BY <2>2, <4>1 DEF Reported, OfSlot
      <4>2. ASSUME NEW item \in Items \ OfSlot(q), outbox' = Append(outbox, item)
            PROVE  Reported(OfSlot(q))' = Reported(OfSlot(q))
        BY <2>2, <4>2, Queued
      <4> QED
        BY <3>2, <4>1, <4>2
    <3> QED
      BY <1>1, <2>2, <2>3, <2>6, <3>1, <3>3 DEF EachHopped, HoppedOf, Left, Busy
  <2>9. CASE q = r
    <3>1. CASE HopCapture(r) \/ HopRecord(r)
      <4>1. UNCHANGED <<todo, outbox, failed, crashed>> /\ Busy(r)'
        BY <1>1, <3>1 DEF HopCapture, HopRecord, Busy, SlotTypes, phaseVars, sharedVars
      <4>2. Reported(OfSlot(r))' = Reported(OfSlot(r))
        BY <2>2, <4>1 DEF Reported, OfSlot
      <4> QED
        BY <1>1, <2>2, <2>3, <2>6, <2>9, <4>1, <4>2 DEF EachHopped, HoppedOf, Left
    <3>2. CASE HopReport(r)
      <4>1. PICK item \in OfSlot(r) : item \in Items /\ outbox' = Append(outbox, item)
        BY <3>2, LatestResult, OfSlotIsResult DEF HopReport
      <4>2. Reported(OfSlot(r))' = Reported(OfSlot(r)) + 1 /\ Reported(OfSlot(r)) \in Nat
        BY <2>2, <4>1, Queued
      <4>3. /\ UNCHANGED <<failed, crashed>> /\ Busy(r)'
            /\ todo'[r] = todo[r] - 1 /\ todo[r] \in Nat
        BY <1>1, <3>2 DEF HopReport, Busy, SlotTypes, Numbers, phaseVars
      <4>4. Reported(OfSlot(r))' + todo'[r] = Reported(OfSlot(r)) + todo[r]
        BY <4>2, <4>3
      <4> QED
        BY <1>1, <2>2, <2>3, <2>4, <2>6, <2>9, <4>3, <4>4 DEF EachHopped, HoppedOf, Left
    <3>3. CASE HopEnds(r)
      <4>1. UNCHANGED <<todo, failed, crashed>> /\ todo[r] = 0 /\ outbox' = Append(outbox, Finished)
        BY <3>3 DEF HopEnds, Finish, phaseVars
      <4>2. Reported(OfSlot(r))' = Reported(OfSlot(r))
        BY <2>2, <2>7, <4>1, Queued
      <4> QED
        BY <1>1, <2>2, <2>3, <2>6, <2>9, <4>1, <4>2 DEF EachHopped, HoppedOf, Left
    <3>4. CASE JobFails(r)
      BY <2>9, <3>4 DEF JobFails, Failure, HoppedOf
    <3> QED
      BY <2>5, <3>1, <3>2, <3>3, <3>4
  <2> QED
    BY <2>8, <2>9
<1>7. CASE /\ UNCHANGED <<running, toStart, failed, crashed, watch, thread, todo, outbox, told>>
           /\ Hopping' => Hopping
  <2>1. SUFFICES ASSUME Hopping', NEW q \in Slots PROVE HoppedOf(q)'
    BY DEF EachHopped
  <2> QED
    BY <1>1, <1>7, <2>1 DEF EachHopped, HoppedOf, Left, Busy, Reported, OfSlot
<1>8. CASE ~Hopping'
  BY <1>8 DEF EachHopped
<1> USE DEF Hopping, During, InPhase, Afterwards, Go, Raise
<1>9. CASE ConnectAll \/ BeginIteration \/ Decide \/ Acquire
  BY <1>8, <1>9
  DEF ConnectAll, BeginIteration, Decide, Acquire, Publish, Spawn, phaseVars
<1>10. CASE AllStarted \/ Joined \/ AllReported
  BY <1>7, <1>10
  DEF AllStarted, Joined, AllReported, phaseVars, slotVars, threadVars, sharedVars, streamVars
<1>11. CASE Require
  <2>1. phase \in {"connect", "reconnect", "scan", "hop"}
    BY <1>11 DEF Require, Flow, TypeOK
  <2> QED
    BY <1>7, <1>11, <2>1 DEF Require, phaseVars, slotVars, threadVars, sharedVars, streamVars
<1>12. CASE PublishStarted \/ PublishWatchlist
  BY <1>8, <1>12 DEF PublishStarted, PublishWatchlist, Publish, Flow, phaseVars
<1>13. CASE CompleteCycle \/ PublishFinished \/ PublishInterrupted
  BY <1>8, <1>13
  DEF CompleteCycle, PublishFinished, PublishInterrupted, PublishStopped, Publish
<1>14. CASE EndCycle \/ LeaveLoop \/ Stop \/ StopClose \/ Interrupt
  BY <1>8, <1>14
  DEF EndCycle, LeaveLoop, Stop, StopClose, Interrupt, LoopPoints, HandlerPoints, FinalPoints
<1>15. CASE RequestRescan \/ ReaderCloses
  BY <1>7, <1>15
  DEF RequestRescan, ReaderCloses, controlVars, phaseVars, slotVars, threadVars, sharedVars, streamVars
<1> QED
  BY <1>2, <1>3, <1>4, <1>5, <1>6, <1>9, <1>10, <1>11, <1>12, <1>13, <1>14, <1>15
  DEF Next, RunStep, World

\* One more observation of a slot is one more pair.
LEMMA ObservationAdded ==
  ASSUME NEW S \in SUBSET Slots, NEW f \in [Slots -> Nat], NEW r \in S, NEW g,
         g[r] = f[r] + 1, \A q \in S : q # r => g[q] = f[q], IsFiniteSet(Observations(S, f))
  PROVE  /\ IsFiniteSet(Observations(S, g))
         /\ Cardinality(Observations(S, g)) = Cardinality(Observations(S, f)) + 1
<1>1. g[r] = f[r] + 1 /\ f[r] \in Nat /\ \A q \in S : q # r => g[q] = f[q]
  OBVIOUS
<1>2. \A q \in S : 1..g[q] = (1..f[q]) \cup (IF q = r THEN {f[r] + 1} ELSE {})
  BY <1>1
<1>3. Observations(S, g) = Observations(S, f) \cup {<<r, f[r] + 1>>}
  BY <1>2 DEF Observations
<1>4. <<r, f[r] + 1>> \notin Observations(S, f)
  BY <1>1 DEF Observations
<1>5. /\ IsFiniteSet(Observations(S, f) \cup {<<r, f[r] + 1>>})
      /\ Cardinality(Observations(S, f) \cup {<<r, f[r] + 1>>})
            = Cardinality(Observations(S, f)) + 1
  BY <1>4, FS_AddElement
<1> QED
  BY <1>3, <1>5, Zenon

\* A slot that starts has counted nothing.
LEMMA ObservationsOfStarted ==
  ASSUME NEW S \in SUBSET Slots, NEW f \in [Slots -> Nat], NEW r \in Slots \ S
  PROVE  Observations(S \cup {r}, [f EXCEPT ![r] = 0]) = Observations(S, f)
  BY DEF Observations

\* Steps keep account of the observations of a pass.
LEMMA EachCountedStep ==
  ASSUME TypeOK, Flow, Threads, Sentinels, Hops, Next
  PROVE  EachCounted'
<1>1. EachCounted /\ SlotTypes /\ running \in SUBSET Slots /\ newObs \in [Slots -> Nat]
  BY SlotTypesHold DEF Hops, SlotTypes, Numbers, TypeOK
<1>2. EnteredResults \subseteq Results
  BY DEF EnteredResults, Results
<1>3. CASE ~Hopping'
  BY <1>3 DEF EachCounted
<1>4. CASE /\ UNCHANGED <<running, toStart, newObs>>
           /\ Hopping' => Hopping
           /\ Hopping' => Reported(EnteredResults)' = Reported(EnteredResults)
  <2>1. Counted' = Counted
    BY <1>4 DEF Counted
  <2> QED
    BY <1>1, <1>4, <2>1, Zenon DEF EachCounted
<1>5. CASE Maintain
  <2>1. CASE ~readerOpen
    BY <1>3, <1>5, <2>1 DEF Maintain, Publish, Raise, Hopping, During, InPhase, Afterwards
  <2>2. CASE readerOpen
    <3>1. outbox = <<>> /\ pc = "maintain"
      BY <1>5, Rest DEF Maintain, LoopPoints, InPhase
    <3>2. told' = <<>> /\ outbox' = <<>> /\ running' = toStart'
      BY <1>5, <2>2, <3>1 DEF Maintain, Publish, Spawn
    <3>3. Reported(EnteredResults)' = 0
      BY <3>2, CountEmpty DEF Reported
    <3>4. Counted' = {}
      BY <3>2 DEF Counted, Observations
    <3> QED
      BY <3>3, <3>4, FS_EmptySet DEF EachCounted
  <2> QED
    BY <2>1, <2>2
<1>6. CASE StartThread
  <2>1. SUFFICES ASSUME Hopping'
                 PROVE  IsFiniteSet(Counted') /\ Cardinality(Counted') = Reported(EnteredResults)'
    BY DEF EachCounted
  <2>2. UNCHANGED <<pc, phase, running, outbox, told>> /\ pc = "spawn"
    BY <1>6 DEF StartThread, controlVars, sharedVars, streamVars
  <2>3. Hopping /\ phase = "hop"
    BY <2>1, <2>2 DEF Hopping, During
  <2>4. PICK r \in toStart : toStart' = toStart \ {r} /\ newObs' = [newObs EXCEPT ![r] = 0]
    BY <1>6, <2>3, SubsetsOfSlots DEF StartThread, CountFrom, TypeOK
  <2>5. /\ running \ toStart \in SUBSET Slots /\ r \in Slots \ (running \ toStart)
        /\ running' \ toStart' = (running \ toStart) \cup {r}
    BY <2>2, <2>4 DEF TypeOK
  <2>6. Observations((running \ toStart) \cup {r}, [newObs EXCEPT ![r] = 0]) = Counted
    BY <1>1, <2>5, ObservationsOfStarted DEF Counted
  <2>7. Counted' = Counted
    BY <2>4, <2>5, <2>6, Zenon DEF Counted
  <2>8. Reported(EnteredResults)' = Reported(EnteredResults)
    BY <2>2 DEF Reported, EnteredResults
  <2> QED
    BY <1>1, <2>3, <2>7, <2>8, Zenon DEF EachCounted
<1>7. CASE WriteQueued
  <2>1. UNCHANGED <<phase, running, toStart, newObs>> /\ pc = "wait"
    BY <1>7 DEF WriteQueued, slotVars
  <2>2. Hopping' => Hopping
    BY <1>7, <2>1 DEF WriteQueued, Raise, Hopping, During, InPhase, Afterwards, controlVars
  <2>3. Hopping' => Reported(EnteredResults)' = Reported(EnteredResults)
    BY <1>2, <1>7, Delivered
  <2> QED
    BY <1>4, <2>1, <2>2, <2>3
<1>8. ASSUME NEW r \in Slots, ThreadStep(r) PROVE EachCounted'
  <2>1. SUFFICES ASSUME Hopping' PROVE EachCounted'
    BY <1>3
  <2>2. UNCHANGED <<pc, phase, running, toStart, told>> /\ Busy(r)
    BY <1>8
    DEF ThreadStep, Connected, ScanStation, ScanEnds, HopCapture, HopRecord, HopReport, HopEnds,
        JobFails, UsesReceiver, Busy, controlVars, phaseVars, streamVars
  <2>3. Hopping
    BY <2>1, <2>2 DEF Hopping, During
  <2>4. CASE HopReport(r)
    <3>1. r \in running \ toStart /\ running \ toStart \in SUBSET Slots
      BY <1>1, <2>2, <2>3, HopThread
    <3>2. PICK item \in OfSlot(r) : /\ item \in Items /\ outbox' = Append(outbox, item)
                                    /\ newObs' = [newObs EXCEPT ![r] = @ + CountEntered(item)]
      BY <2>4, LatestResult, OfSlotIsResult DEF HopReport
    <3>3. CASE item.entered
      <4>1. item \in EnteredResults /\ CountEntered(item) = 1
        BY <3>2, <3>3 DEF OfSlot, EnteredResults, CountEntered
      <4>2. Reported(EnteredResults)' = Reported(EnteredResults) + 1
        BY <2>2, <3>2, <4>1, Queued
      <4>3. newObs' = [newObs EXCEPT ![r] = newObs[r] + 1]
        BY <3>2, <4>1
      <4>4. IsFiniteSet(Counted)
        BY <1>1, <2>3 DEF EachCounted
      <4>5. /\ IsFiniteSet(Observations(running \ toStart, newObs'))
            /\ Cardinality(Observations(running \ toStart, newObs')) = Cardinality(Counted) + 1
        <5> DEFINE begun == running \ toStart
        <5>1. /\ IsFiniteSet(Observations(begun, newObs)) /\ Counted = Observations(begun, newObs)
              /\ r \in begun /\ begun \in SUBSET Slots
          BY <3>1, <4>4 DEF Counted
        <5> HIDE DEF begun
        <5>2. /\ IsFiniteSet(Observations(begun, newObs'))
              /\ Cardinality(Observations(begun, newObs'))
                    = Cardinality(Observations(begun, newObs)) + 1
          <6>1. newObs'[r] = newObs[r] + 1 /\ \A q \in begun : q # r => newObs'[q] = newObs[q]
            BY <1>1, <4>3, <5>1
          <6> QED
            BY <1>1, <5>1, <6>1, ObservationAdded
        <5> QED
          BY <5>1, <5>2, Zenon DEF begun
      <4>6. Counted' = Observations(running \ toStart, newObs')
        BY <2>2 DEF Counted
      <4> QED
        BY <1>1, <2>3, <4>2, <4>5, <4>6, Zenon DEF EachCounted
    <3>4. CASE ~item.entered
      <4>1. item \notin EnteredResults /\ CountEntered(item) = 0
        BY <3>2, <3>4 DEF OfSlot, EnteredResults, CountEntered
      <4>2. Reported(EnteredResults)' = Reported(EnteredResults)
        BY <2>2, <3>2, <4>1, Queued
      <4>3. UNCHANGED newObs
        BY <1>1, <3>2, <4>1
      <4> QED
        BY <1>4, <2>2, <2>3, <4>2, <4>3
    <3> QED
      BY <3>3, <3>4
  <2>5. CASE ~HopReport(r)
    <3>1. UNCHANGED newObs
      BY <1>8, <2>5
      DEF ThreadStep, Connected, ScanStation, ScanEnds, HopCapture, HopRecord, HopEnds, JobFails, slotVars
    <3>2. UNCHANGED outbox \/ \E item \in {ScanStep, Finished} : outbox' = Append(outbox, item)
      BY <1>8, <2>5
      DEF ThreadStep, Connected, ScanStation, ScanEnds, HopCapture, HopRecord, HopEnds, JobFails,
          Finish, sharedVars
    <3>3. ASSUME NEW item \in {ScanStep, Finished}, outbox' = Append(outbox, item)
          PROVE  Reported(EnteredResults)' = Reported(EnteredResults)
      <4>1. item \in Items /\ item \notin EnteredResults
        <5>1. item \in Items /\ item.type # "hop_result"
          BY DEF Items, ScanStep, Finished
        <5> QED
          BY <5>1 DEF EnteredResults
      <4> QED
        BY <2>2, <3>3, <4>1, Queued
    <3>4. UNCHANGED outbox => Reported(EnteredResults)' = Reported(EnteredResults)
      BY <2>2 DEF Reported, EnteredResults
    <3> QED
      BY <1>4, <2>2, <2>3, <3>1, <3>2, <3>3, <3>4
  <2> QED
    BY <2>4, <2>5
<1>9. CASE /\ UNCHANGED <<running, toStart, newObs, outbox, told>>
           /\ Hopping' => Hopping
  <2>1. Reported(EnteredResults)' = Reported(EnteredResults)
    BY <1>9 DEF Reported, EnteredResults
  <2> QED
    BY <1>4, <1>9, <2>1
<1> USE DEF Hopping, During, InPhase, Afterwards, Go, Raise
<1>10. CASE ConnectAll \/ BeginIteration \/ Decide \/ Acquire
  BY <1>3, <1>10
  DEF ConnectAll, BeginIteration, Decide, Acquire, Publish, Spawn, phaseVars
<1>11. CASE AllStarted \/ Joined \/ ReportFailure \/ AllReported
  BY <1>9, <1>11
  DEF AllStarted, Joined, ReportFailure, AllReported, controlVars, phaseVars, slotVars, sharedVars,
      streamVars
<1>12. CASE Require
  <2>1. phase \in {"connect", "reconnect", "scan", "hop"}
    BY <1>12 DEF Require, Flow, TypeOK
  <2> QED
    BY <1>9, <1>12, <2>1 DEF Require, phaseVars, slotVars, sharedVars, streamVars
<1>13. CASE PublishStarted \/ PublishWatchlist
  BY <1>3, <1>13 DEF PublishStarted, PublishWatchlist, Publish, Flow, phaseVars
<1>14. CASE CompleteCycle \/ PublishFinished \/ PublishInterrupted
  BY <1>3, <1>14
  DEF CompleteCycle, PublishFinished, PublishInterrupted, PublishStopped, Publish
<1>15. CASE EndCycle \/ LeaveLoop \/ Stop \/ StopClose \/ Interrupt
  BY <1>3, <1>15
  DEF EndCycle, LeaveLoop, Stop, StopClose, Interrupt, LoopPoints, HandlerPoints, FinalPoints
<1>16. CASE RequestRescan \/ ReaderCloses
  BY <1>9, <1>16
  DEF RequestRescan, ReaderCloses, controlVars, phaseVars, slotVars, sharedVars, streamVars
<1> QED
  BY <1>5, <1>6, <1>7, <1>8, <1>10, <1>11, <1>12, <1>13, <1>14, <1>15, <1>16
  DEF Next, RunStep, World

-----------------------------------------------------------------------------
(* The theorems.                                                             *)

\* The invariant holds at first.
LEMMA Initially == Init => Inv
<1> SUFFICES ASSUME Init PROVE Inv
  OBVIOUS
<1>1. TypeOK
  <2>1. Cardinality(Slots) \in Nat /\ <<>> \in Seq(Items) /\ <<>> \in Seq(Results)
    BY SubsetsOfSlots, EmptySeq
  <2>2. Numbers([r \in Slots |-> 0])
    BY ListedAssumption DEF Numbers
  <2>3. Numbers(watch) /\ Numbers(newObs) /\ Numbers(todo) /\ Numbers(listed)
    BY <2>2, Zenon DEF Init
  <2>4. ControlTypes /\ PhaseTypes /\ CountTypes /\ QueueTypes
    <3>1. ControlTypes
      BY DEF Init, ControlTypes, LoopPoints
    <3>2. PhaseTypes /\ QueueTypes
      BY <2>1 DEF Init, PhaseTypes, QueueTypes
    <3>3. CountTypes
      BY BoundsAssumption DEF Init, CountTypes
    <3> QED
      BY <3>1, <3>2, <3>3
  <2>5. client \in [Slots -> BOOLEAN] /\ thread \in [Slots -> ThreadStates] /\ lock = Nobody
    BY DEF Init, ThreadStates
  <2> QED
    BY <2>3, <2>4, <2>5
    DEF TypeOK, ControlTypes, PhaseTypes, CountTypes, QueueTypes, ThreadStates
<1>2. Flow
  BY DEF Init, Flow, LoopPoints, HandlerPoints, FinalPoints, InPhase, Afterwards, Connecting,
         Reconnecting, Scanning, Hopping, During
<1>3. Threads
  BY SlotsAssumption DEF Init, Threads, Busy, Nobody
<1>4. Sentinels
  BY EmptySeq DEF Init, Sentinels, PhasesDoNotOverlap, InPhase
<1>5. Stations
  BY DEF Init, Stations, StationsHaveReceiver, Checking, During, InPhase, Afterwards
<1>6. Hops
  BY DEF Init, Hops, NoError, EachHopped, EachCounted, ListedStationsWereHopped, Hopping, During,
         InPhase, Afterwards
<1> QED
  BY <1>1, <1>2, <1>3, <1>4, <1>5, <1>6 DEF Inv

\* The invariant depends on the variables only.
LEMMA Stutters ==
  ASSUME Inv, UNCHANGED vars
  PROVE  Inv'
<1>1. /\ UNCHANGED <<controlVars, phaseVars, cycleVars, slotVars, threadVars>>
      /\ UNCHANGED <<sharedVars, streamVars, worldVars>>
  BY DEF vars
<1> USE DEF controlVars, phaseVars, cycleVars, slotVars, threadVars, sharedVars, streamVars, worldVars
<1>2. TypeOK'
  BY <1>1 DEF Inv, TypeOK, Numbers
<1>3. Flow'
  BY <1>1 DEF Inv, Flow, Connecting, Reconnecting, Scanning, Hopping, During
<1>4. Threads'
  BY <1>1 DEF Inv, Threads, Busy
<1>5. Sentinels'
  <2>1. Open' = Open
    BY <1>1 DEF Open, Busy
  <2>2. Cardinality(Open') = Cardinality(Open)
    BY <2>1, Zenon
  <2> QED
    BY <1>1, <2>2 DEF Inv, Sentinels, PhasesDoNotOverlap, Busy
<1>6. Stations'
  BY <1>1 DEF Inv, Stations, StationsHaveReceiver, Checking, During, Up
<1>7. Hops'
  <2>1. Counted' = Counted
    BY <1>1 DEF Counted
  <2>2. EachCounted'
    BY <1>1, <2>1, Zenon DEF Inv, Hops, EachCounted, Reported, Hopping, During
  <2>3. NoError' /\ EachHopped' /\ ListedStationsWereHopped'
    BY <1>1 DEF Inv, Hops, NoError, EachHopped, HoppedOf, ListedStationsWereHopped, Hopping, During,
                Left, Busy, Reported
  <2> QED
    BY <2>2, <2>3 DEF Hops
<1> QED
  BY <1>2, <1>3, <1>4, <1>5, <1>6, <1>7 DEF Inv

\* The invariant is inductive.
THEOREM Inductive == Init0 => []Inv
<1>1. Inv /\ [Next]_vars => Inv'
  <2> SUFFICES ASSUME Inv, [Next]_vars PROVE Inv'
    OBVIOUS
  <2>1. CASE Next
    <3>1. TypeOK' /\ Flow' /\ Threads' /\ Sentinels' /\ Stations'
      BY <2>1, TypeStep, FlowStep, ThreadsStep, SentinelsStep, StationsStep DEF Inv
    <3>2. Hops'
      BY <2>1, NoErrorStep, EachHoppedStep, EachCountedStep, ListedStep DEF Inv, Hops
    <3> QED
      BY <3>1, <3>2 DEF Inv
  <2>2. CASE UNCHANGED vars
    BY <2>2, Stutters
  <2> QED
    BY <2>1, <2>2
<1> QED
  BY Initially, <1>1, PTL DEF Init0

\* The variables keep their types: no slot counts more than its listed stations,
\* the loop never waits for more threads than there are receivers.
THEOREM TypesHold == Spec => []TypeOK
<1>1. Inv => TypeOK
  BY DEF Inv
<1> QED
  BY Inductive, <1>1, PTL DEF Spec

\* _in_parallel leaves nothing behind: between phases no receiver thread runs and
\* the queue is empty, whatever failed in the phase.
THEOREM PhasesNeverOverlap == Spec => []PhasesDoNotOverlap
<1>1. Inv => PhasesDoNotOverlap
  BY DEF Inv, Sentinels
<1> QED
  BY Inductive, <1>1, PTL DEF Spec

\* The watchlist has stations of connected receivers only, all of them checked when
\* they must be, and cycle_completed lists those that were hopped to the last.
THEOREM WatchlistAlwaysFollows == Spec => []WatchlistFollowsReceivers
<1>1. Inv => WatchlistFollowsReceivers
  <2> SUFFICES ASSUME Inv PROVE WatchlistFollowsReceivers
    OBVIOUS
  <2>1. StationsHaveReceiver /\ ListedStationsWereHopped
    BY DEF Inv, Stations, Hops
  <2>2. CheckedBeforeHopping
    BY DEF Inv, Stations, Checking, CheckedBeforeHopping
  <2> QED
    BY <2>1, <2>2 DEF WatchlistFollowsReceivers
<1> QED
  BY Inductive, <1>1, PTL DEF Spec

\* Every behaviour of the loop is one that ReconStream allows, whatever fails and
\* whoever interrupts it: the records in order, with their iterations, and
\* new_observations exactly the hop_results of the pass that entered the consensus.
THEOREM ImplementsReconStream == Spec => StreamInOrder
<1>1. Init => Stream!Init
  BY CountEmpty DEF Init, Stream!Init
<1>2. Inv /\ [Next]_vars => [Stream!Next]_(Stream!streamVars)
  <2> SUFFICES ASSUME Inv, [Next]_vars
               PROVE  \/ Stream!Next
                      \/ UNCHANGED <<stage, iter, cycles, told, reported, reason>>
                      \/ UNCHANGED Stream!streamVars
    BY DEF Stream!streamVars, Count
  <2>1. /\ iteration \in Nat /\ cycles \in Nat /\ iteration \in {cycles, cycles + 1}
        /\ outbox \in Seq(Items) /\ told \in Seq(Results)
    BY BoundsAssumption DEF Inv, TypeOK, Flow
  <2> USE DEF InPhase, Afterwards, Hopping, Scanning, Reconnecting, Connecting, During
  <2>2. CASE PublishStarted
    <3>1. Stream!ReconStarted \/ UNCHANGED <<stage, iter, cycles, told, reported, reason>>
      BY <2>2 DEF PublishStarted, Publish, Inv, Flow, Stream!ReconStarted, Count
    <3> QED
      BY <3>1 DEF Stream!Next
  <2>3. CASE Acquire
    <3>1. Stream!AcquisitionStarted \/ UNCHANGED <<stage, iter, cycles, told, reported, reason>>
      BY <2>3 DEF Acquire, Publish, Inv, Flow, Stream!AcquisitionStarted, Stream!InCycle, Count
    <3> QED
      BY <3>1 DEF Stream!Next
  <2>4. CASE PublishWatchlist
    <3>1. Stream!WatchlistUpdated \/ UNCHANGED <<stage, iter, cycles, told, reported, reason>>
      BY <2>4 DEF PublishWatchlist, Publish, Inv, Flow, Stream!WatchlistUpdated, Stream!InCycle, Count
    <3> QED
      BY <3>1 DEF Stream!Next
  <2>5. CASE Maintain
    <3>1. Stream!MaintenanceStarted \/ UNCHANGED <<stage, iter, cycles, told, reported, reason>>
      <4>1. Count(<<>>, EnteredResults) = 0
        BY CountEmpty
      <4> QED
        BY <2>5, <4>1
        DEF Maintain, Publish, Inv, Flow, Stream!MaintenanceStarted, Stream!InCycle
    <3> QED
      BY <3>1 DEF Stream!Next
  <2>6. CASE CompleteCycle
    <3>1. readerOpen => reported' = Count(told, EnteredResults)
      <4>1. pc = "complete" /\ outbox = <<>> /\ toStart = {}
        BY <2>6, Rest DEF CompleteCycle, Inv, Threads, LoopPoints
      <4>2. Counted = Observations(running, newObs)
        BY <4>1 DEF Counted, Observations
      <4>3. Cardinality(Counted) = Count(told, EnteredResults) + Count(outbox, EnteredResults)
        BY <4>1 DEF Inv, Hops, EachCounted, Reported
      <4>4. Count(told, EnteredResults) \in Nat /\ Count(outbox, EnteredResults) = 0
        BY <2>1, <4>1, CountType, CountEmpty
      <4>5. Cardinality(Observations(running, newObs)) = Count(told, EnteredResults)
        BY <4>2, <4>3, <4>4
      <4> QED
        BY <2>6, <4>5 DEF CompleteCycle
    <3>2. Stream!CycleCompleted \/ UNCHANGED <<stage, iter, cycles, told, reported, reason>>
      BY <2>1, <2>6, <3>1
      DEF CompleteCycle, Publish, Inv, Flow, Stream!CycleCompleted, Stream!InCycle, Count
    <3> QED
      BY <3>2 DEF Stream!Next
  <2>7. CASE PublishFinished \/ PublishInterrupted
    <3>1. Stream!ReconStopped \/ UNCHANGED <<stage, iter, cycles, told, reported, reason>>
      BY <2>1, <2>7
      DEF PublishFinished, PublishInterrupted, PublishStopped, Publish, Inv, Flow, FinalPoints,
          Stream!ReconStopped, Count
    <3> QED
      BY <3>1 DEF Stream!Next
  <2>8. CASE ReportFailure
    <3>1. Stream!ReceiverFailed \/ UNCHANGED <<stage, iter, cycles, told, reported, reason>>
      BY <2>1, <2>8
      DEF ReportFailure, Inv, TypeOK, Flow, Stream!ReceiverFailed, Stream!InCycle, Count
    <3> QED
      BY <3>1 DEF Stream!Next
  <2>9. CASE WriteQueued
    <3> DEFINE item == Head(outbox)
    <3>1. /\ outbox # <<>> /\ pc = "wait"
          /\ UNCHANGED <<stage, iter, cycles, reported, reason>>
          /\ \/ UNCHANGED told
             \/ told' = Append(told, item) /\ item \notin {Finished, ScanStep}
      BY <2>9 DEF WriteQueued
    <3>2. item \in Items /\ item = outbox[1] /\ 1 \in DOMAIN outbox
      BY <2>1, <3>1, HeadTailProperties, EmptySeq, LenProperties
    <3>3. item \in Results => stage = "maintenance_started"
      BY <3>1, <3>2 DEF Inv, Sentinels, Flow
    <3>4. CASE told' = Append(told, item) /\ item \in Results
      <4>1. Count(told', EnteredResults)
              = Count(told, EnteredResults) + (IF item \in EnteredResults THEN 1 ELSE 0)
        BY <2>1, <3>4, CountAppend
      <4>2. Count(told, EnteredResults) \in Nat
        BY <2>1, CountType
      <4>3. CASE item \in EnteredResults
        <5>1. Stream!HopResult
          BY <3>1, <3>3, <3>4, <4>1, <4>3 DEF Stream!HopResult
        <5> QED
          BY <5>1 DEF Stream!Next
      <4>4. CASE item \notin EnteredResults
        BY <3>1, <4>1, <4>2, <4>4 DEF Stream!streamVars
      <4> QED
        BY <4>3, <4>4
    <3> QED
      BY <3>1, <3>2, <3>4 DEF Items
  <2>10. CASE UNCHANGED <<stage, iter, cycles, told, reported, reason>>
    BY <2>10
  <2>11. ASSUME NEW r \in Slots, ThreadStep(r)
         PROVE  UNCHANGED <<stage, iter, cycles, told, reported, reason>>
    BY <2>11
    DEF ThreadStep, Connected, ScanStation, ScanEnds, HopCapture, HopRecord, HopReport, HopEnds,
        JobFails, streamVars
  <2>12. CASE UNCHANGED vars
    BY <2>12 DEF vars, streamVars
  <2> QED
    BY <2>2, <2>3, <2>4, <2>5, <2>6, <2>7, <2>8, <2>9, <2>10, <2>11, <2>12
    DEF Next, RunStep, World, ConnectAll, StartThread, AllStarted, Joined, AllReported, Require,
        BeginIteration, Decide, EndCycle, LeaveLoop, Stop, StopClose, Interrupt, RequestRescan,
        ReaderCloses, streamVars
<1> QED
  BY <1>1, <1>2, Inductive, PTL DEF Spec, Init0, StreamInOrder, Stream!Spec

-----------------------------------------------------------------------------
(* The reports follow the consensus order.                                   *)

\* The first items of a sequence, up to one of them.
LEMMA UpTo ==
  ASSUME NEW S, NEW s \in Seq(S), NEW n \in 0..Len(s)
  PROVE  /\ SubSeq(s, 1, n) \in Seq(S) /\ Len(SubSeq(s, 1, n)) = n
         /\ \A i \in 1..n : SubSeq(s, 1, n)[i] = s[i]
<1>1. Len(s) \in Nat /\ n \in Int /\ 1 \in Int /\ n >= 0
  BY LenProperties
<1>2. \A i \in 1..n : s[i] \in S
  BY <1>1, ElementOfSeq
<1>3. /\ SubSeq(s, 1, n) \in Seq(S)
      /\ Len(SubSeq(s, 1, n)) = IF 1 <= n THEN n - 1 + 1 ELSE 0
      /\ \A i \in 1..n - 1 + 1 : SubSeq(s, 1, n)[i] = s[1 + i - 1]
  BY <1>1, <1>2, SubSeqProperties
<1>4. /\ (IF 1 <= n THEN n - 1 + 1 ELSE 0) = n
      /\ \A i \in 1..n : i \in 1..n - 1 + 1 /\ 1 + i - 1 = i
  BY <1>1
<1> QED
  BY <1>3, <1>4

\* Up to the first item there is that item.
LEMMA UpToFirst ==
  ASSUME NEW S, NEW s \in Seq(S), s # <<>>, NEW kind
  PROVE  Count(SubSeq(s, 1, 1), kind) = IF Head(s) \in kind THEN 1 ELSE 0
<1> DEFINE first == SubSeq(s, 1, 1)
<1>1. Len(s) \in Nat \ {0} /\ Head(s) = s[1]
  BY EmptySeq, HeadTailProperties
<1>2. 1 \in 0..Len(s) /\ 1 \in 1..1
  BY <1>1
<1>3. first \in Seq(S) /\ Len(first) = 1 /\ first[1] = s[1]
  BY <1>2, UpTo
<1> HIDE DEF first
<1>4. first # <<>> /\ 1 # 0
  <2>1. Len(first) # Len(<<>>)
    BY <1>3, EmptySeq
  <2> QED
    BY <2>1
<1>5. Tail(first) \in Seq(S) /\ Len(Tail(first)) = 0 /\ Head(first) = Head(s)
  BY <1>1, <1>3, <1>4, HeadTailProperties
<1>6. Tail(first) = <<>>
  BY <1>5, EmptySeq
<1>7. Count(first, kind) = Count(Tail(first), kind) + (IF Head(first) \in kind THEN 1 ELSE 0)
  BY <1>3, <1>4, CountTail
<1> QED
  <2>1. Count(Tail(first), kind) = 0
    BY <1>6, CountEmpty
  <2>2. Count(first, kind) = 0 + (IF Head(s) \in kind THEN 1 ELSE 0)
    BY <1>5, <1>7, <2>1
  <2> QED
    BY <2>2 DEF first

\* An item more leaves the places of the others, and has the last one.
LEMMA UpToAppend ==
  ASSUME NEW S, NEW s \in Seq(S), NEW e \in S, NEW kind
  PROVE  /\ \A i \in 1..Len(s) :
              Count(SubSeq(Append(s, e), 1, i), kind) = Count(SubSeq(s, 1, i), kind)
         /\ Count(SubSeq(Append(s, e), 1, Len(s) + 1), kind)
                = Count(s, kind) + (IF e \in kind THEN 1 ELSE 0)
<1>1. /\ Len(s) \in Nat /\ Append(s, e) \in Seq(S) /\ Len(Append(s, e)) = Len(s) + 1
      /\ <<e>> \in Seq(S) /\ Append(s, e) = s \o <<e>>
  BY LenProperties, AppendProperties, AppendIsConcat
<1>2. ASSUME NEW i \in 1..Len(s) PROVE SubSeq(Append(s, e), 1, i) = SubSeq(s, 1, i)
  <2>1. 1 \in 1..Len(s)
    BY <1>1
  <2> QED
    BY <1>1, <2>1, SubSeqOfConcat1
<1>3. SubSeq(Append(s, e), 1, Len(s) + 1) = Append(s, e)
  BY <1>1, SubSeqFull
<1> QED
  BY <1>2, <1>3, CountAppend

\* Taking the first item takes it from every place.
LEMMA UpToTail ==
  ASSUME NEW S, NEW s \in Seq(S), s # <<>>, NEW kind, NEW i \in 1..Len(Tail(s))
  PROVE  Count(SubSeq(s, 1, i + 1), kind)
             = Count(SubSeq(Tail(s), 1, i), kind) + (IF Head(s) \in kind THEN 1 ELSE 0)
<1> DEFINE first == SubSeq(s, 1, i + 1)
           rest == SubSeq(Tail(s), 1, i)
<1>1. /\ Len(s) \in Nat \ {0} /\ Head(s) = s[1] /\ Len(Tail(s)) = Len(s) - 1
      /\ Tail(s) \in Seq(S) /\ \A j \in 1..Len(s) : s[j] \in S
      /\ \A j \in 1..Len(Tail(s)) : Tail(s)[j] = s[j + 1] /\ Tail(s)[j] \in S
  BY LenProperties, HeadTailProperties, EmptySeq, ElementOfSeq
<1>2. i \in Nat /\ i + 1 \in 1..Len(s) /\ i + 1 \in Int
  BY <1>1
<1>3. /\ first \in Seq(S) /\ Len(first) = i + 1
      /\ \A j \in 1..i + 1 : first[j] = s[j]
  <2>1. i + 1 \in 0..Len(s)
    BY <1>1, <1>2
  <2> QED
    BY <2>1, UpTo
<1>4. /\ rest \in Seq(S) /\ Len(rest) = i
      /\ \A j \in 1..i : rest[j] = Tail(s)[j]
  <2>1. i \in 0..Len(Tail(s))
    BY <1>1, <1>2
  <2> QED
    BY <1>1, <2>1, UpTo
<1> HIDE DEF first, rest
<1>5. first # <<>>
  BY <1>2, <1>3, EmptySeq
<1>6. Head(first) = Head(s) /\ Tail(first) = rest
  <2>1. /\ Tail(first) \in Seq(S) /\ Len(Tail(first)) = i
        /\ \A j \in 1..i : Tail(first)[j] = first[j + 1]
    BY <1>2, <1>3, <1>5, HeadTailProperties
  <2>2. \A j \in 1..i : first[j + 1] = s[j + 1] /\ Tail(s)[j] = s[j + 1]
    BY <1>1, <1>2, <1>3
  <2>3. Tail(first) = rest
    BY <1>4, <2>1, <2>2, SeqEqual
  <2>4. Head(first) = Head(s)
    BY <1>1, <1>2, <1>3, <1>5
  <2> QED
    BY <2>3, <2>4
<1> QED
  BY <1>3, <1>5, <1>6, CountTail DEF first, rest

\* What entered the consensus, but for the result being reported, is a sequence.
LEMMA EnteredType ==
  ASSUME TypeOK, Threads
  PROVE  Entered \in Seq(Results) /\ Len(Entered) \in Nat
<1>1. recorded \in Seq(Results)
  BY DEF TypeOK
<1>2. lock # Nobody => recorded # <<>>
  BY DEF Threads
<1>3. recorded # <<>> => Front(recorded) \in Seq(Results)
  <2>1. recorded # <<>> => Len(recorded) - 1 \in 0..Len(recorded)
    BY <1>1, EmptySeq
  <2> QED
    BY <1>1, <2>1, UpTo DEF Front
<1>4. Entered \in Seq(Results)
  BY <1>1, <1>2, <1>3 DEF Entered
<1> QED
  BY <1>4, LenProperties

\* The number of results queued is a number, and so is the place of an item.
LEMMA PlaceType ==
  ASSUME TypeOK
  PROVE  /\ outbox \in Seq(Items) /\ Len(outbox) \in Nat /\ DOMAIN outbox = 1..Len(outbox)
         /\ Count(outbox, Results) \in Nat
         /\ \A i \in DOMAIN outbox : HopsUpTo(i) \in Nat
<1>1. outbox \in Seq(Items)
  BY DEF TypeOK
<1>2. Len(outbox) \in Nat /\ DOMAIN outbox = 1..Len(outbox)
  BY <1>1, LenProperties
<1>3. ASSUME NEW i \in 1..Len(outbox) PROVE HopsUpTo(i) \in Nat
  <2>1. i \in 0..Len(outbox)
    BY <1>2
  <2>2. SubSeq(outbox, 1, i) \in Seq(Items)
    BY <1>1, <2>1, UpTo
  <2> QED
    BY <2>2, CountType DEF HopsUpTo
<1> QED
  BY <1>1, <1>2, <1>3, CountType

\* Queueing something else than a result moves no report.
LEMMA OtherQueued ==
  ASSUME TypeOK, Threads, ReportsFollowConsensus, UNCHANGED <<told, Entered, readerOpen>>,
         NEW item \in Items \ Results, outbox' = Append(outbox, item)
  PROVE  ReportsFollowConsensus'
<1> SUFFICES ASSUME readerOpen PROVE ReportsFollowConsensus'
  BY DEF ReportsFollowConsensus
<1>1. /\ outbox \in Seq(Items) /\ Len(outbox) \in Nat /\ DOMAIN outbox = 1..Len(outbox)
      /\ Count(outbox, Results) \in Nat
  BY PlaceType
<1>2. Count(outbox', Results) = Count(outbox, Results)
  BY <1>1, CountAppend
<1>3. /\ DOMAIN outbox' = 1..Len(outbox) + 1
      /\ \A i \in DOMAIN outbox : outbox'[i] = outbox[i]
      /\ outbox'[Len(outbox) + 1] = item
  BY <1>1, AppendProperties, LenProperties
<1>4. \A i \in DOMAIN outbox : HopsUpTo(i)' = HopsUpTo(i)
  BY <1>1, UpToAppend DEF HopsUpTo
<1>5. ASSUME NEW i \in DOMAIN outbox', outbox'[i] \in Results
      PROVE  outbox'[i] = Entered'[Len(told') + HopsUpTo(i)']
  <2>1. i \in DOMAIN outbox
    BY <1>1, <1>3, <1>5
  <2> QED
    BY <1>3, <1>4, <1>5, <2>1 DEF ReportsFollowConsensus
<1> QED
  BY <1>2, <1>5 DEF ReportsFollowConsensus

\* A report queued has its place among what entered and is not yet written.
LEMMA PlaceInQueue ==
  ASSUME TypeOK, NEW i \in DOMAIN outbox, outbox[i] \in Results
  PROVE  HopsUpTo(i) \in 1..Count(outbox, Results)
<1>1. outbox \in Seq(Items) /\ Len(outbox) \in Nat /\ i \in 1..Len(outbox)
  BY PlaceType
<1>2. i \in 0..Len(outbox)
  BY <1>1
<1>3. /\ SubSeq(outbox, 1, i) \in Seq(Items) /\ Len(SubSeq(outbox, 1, i)) = i
      /\ \A j \in 1..i : SubSeq(outbox, 1, i)[j] = outbox[j]
  BY <1>1, <1>2, UpTo
<1> DEFINE all == {j \in DOMAIN outbox : outbox[j] \in Results}
           upTo == {j \in 1..i : outbox[j] \in Results}
<1>4. HopsUpTo(i) = Cardinality(upTo)
  <2>1. DOMAIN SubSeq(outbox, 1, i) = 1..i
    BY <1>3, LenProperties
  <2>2. {j \in DOMAIN SubSeq(outbox, 1, i) : SubSeq(outbox, 1, i)[j] \in Results} = upTo
    BY <1>3, <2>1
  <2> QED
    BY <2>2 DEF HopsUpTo, Count
<1>5. IsFiniteSet(all) /\ Cardinality(all) = Count(outbox, Results)
  BY <1>1, CountType DEF Count
<1>6. upTo \subseteq all /\ i \in upTo
  BY <1>1, PlaceType
<1> HIDE DEF all, upTo
<1>7. /\ IsFiniteSet(upTo) /\ Cardinality(upTo) <= Cardinality(all)
      /\ Cardinality(upTo) \in Nat /\ Cardinality(all) \in Nat /\ Cardinality(upTo) # 0
  BY <1>5, <1>6, FS_Subset, FS_CardinalityType, FS_EmptySet
<1> QED
  BY <1>4, <1>5, <1>7

\* A report queued is the last result of the consensus, in its last place.
LEMMA ReportQueued ==
  ASSUME TypeOK, Threads, ReportsFollowConsensus, UNCHANGED <<told, recorded, readerOpen>>,
         lock # Nobody, lock' = Nobody, outbox' = Append(outbox, recorded[Len(recorded)])
  PROVE  ReportsFollowConsensus'
<1> SUFFICES ASSUME readerOpen PROVE ReportsFollowConsensus'
  BY DEF ReportsFollowConsensus
<1> DEFINE last == recorded[Len(recorded)]
<1>1. /\ outbox \in Seq(Items) /\ Len(outbox) \in Nat /\ DOMAIN outbox = 1..Len(outbox)
      /\ Count(outbox, Results) \in Nat
      /\ \A i \in DOMAIN outbox : HopsUpTo(i) \in Nat
  BY PlaceType
<1>2. /\ recorded \in Seq(Results) /\ Len(recorded) \in Nat \ {0}
      /\ told \in Seq(Results) /\ Len(told) \in Nat /\ DOMAIN told = 1..Len(told)
  BY EmptySeq, LenProperties DEF TypeOK, Threads
<1>3. last \in Results /\ last \in Items
  BY <1>2, ElementOfSeq DEF Items
<1>4. /\ Entered = SubSeq(recorded, 1, Len(recorded) - 1) /\ Entered' = recorded
      /\ Len(Entered) = Len(recorded) - 1
      /\ \A i \in 1..Len(recorded) - 1 : Entered[i] = recorded[i]
  <2>1. Entered = SubSeq(recorded, 1, Len(recorded) - 1) /\ Entered' = recorded
    BY DEF Entered, Front
  <2>2. Len(recorded) - 1 \in 0..Len(recorded)
    BY <1>2
  <2> QED
    BY <1>2, <2>1, <2>2, UpTo
<1>5. Len(told) + Count(outbox, Results) = Len(recorded) - 1
  BY <1>4 DEF ReportsFollowConsensus
<1>6. /\ Count(outbox', Results) = Count(outbox, Results) + 1
      /\ Count(SubSeq(outbox', 1, Len(outbox) + 1), Results) = Count(outbox, Results) + 1
      /\ \A i \in DOMAIN outbox : HopsUpTo(i)' = HopsUpTo(i)
  <2> HIDE DEF last
  <2>1. /\ Count(Append(outbox, last), Results) = Count(outbox, Results) + 1
        /\ Count(SubSeq(Append(outbox, last), 1, Len(outbox) + 1), Results)
              = Count(outbox, Results) + 1
        /\ \A i \in 1..Len(outbox) :
              Count(SubSeq(Append(outbox, last), 1, i), Results)
                  = Count(SubSeq(outbox, 1, i), Results)
    BY <1>1, <1>3, CountAppend, UpToAppend
  <2>2. outbox' = Append(outbox, last)
    BY DEF last
  <2> QED
    BY <1>1, <2>1, <2>2 DEF HopsUpTo
<1>7. /\ DOMAIN outbox' = 1..Len(outbox) + 1
      /\ \A i \in DOMAIN outbox : outbox'[i] = outbox[i]
      /\ outbox'[Len(outbox) + 1] = last
  BY <1>1, <1>3, AppendProperties, LenProperties
<1>8. Len(told') + Count(outbox', Results) = Len(Entered')
  BY <1>1, <1>2, <1>4, <1>5, <1>6
<1>9. \A i \in DOMAIN told' : told'[i] = Entered'[i]
  <2>1. DOMAIN told \subseteq 1..Len(recorded) - 1
    BY <1>1, <1>2, <1>5
  <2> QED
    BY <1>4, <2>1 DEF ReportsFollowConsensus
<1>10. ASSUME NEW i \in DOMAIN outbox', outbox'[i] \in Results
       PROVE  outbox'[i] = Entered'[Len(told') + HopsUpTo(i)']
  <2>1. CASE i = Len(outbox) + 1
    <3>1. Len(told') + HopsUpTo(i)' = Len(recorded)
      <4>1. HopsUpTo(i)' = Count(outbox, Results) + 1 /\ told' = told
        BY <1>6, <2>1 DEF HopsUpTo
      <4> QED
        BY <1>1, <1>2, <1>5, <4>1
    <3> QED
      BY <1>4, <1>7, <2>1, <3>1
  <2>2. CASE i # Len(outbox) + 1
    <3>1. i \in DOMAIN outbox /\ outbox'[i] = outbox[i] /\ HopsUpTo(i)' = HopsUpTo(i)
      BY <1>1, <1>6, <1>7, <2>2
    <3>2. outbox[i] = Entered[Len(told) + HopsUpTo(i)]
      BY <1>10, <3>1 DEF ReportsFollowConsensus
    <3>3. Len(told) + HopsUpTo(i) \in 1..Len(recorded) - 1
      <4>1. HopsUpTo(i) \in 1..Count(outbox, Results)
        BY <1>10, <3>1, PlaceInQueue
      <4> QED
        BY <1>1, <1>2, <1>5, <4>1
    <3> QED
      BY <1>4, <3>1, <3>2, <3>3
  <2> QED
    BY <2>1, <2>2
<1> QED
  BY <1>8, <1>9, <1>10 DEF ReportsFollowConsensus

\* The loop's thread takes the first item queued, and writes it when it is a report.
LEMMA ItemTaken ==
  ASSUME TypeOK, Threads, ReportsFollowConsensus, WriteQueued
  PROVE  ReportsFollowConsensus'
<1> SUFFICES ASSUME readerOpen PROVE ReportsFollowConsensus'
  BY DEF WriteQueued, worldVars, ReportsFollowConsensus
<1> DEFINE item == Head(outbox)
<1>1. /\ outbox \in Seq(Items) /\ Len(outbox) \in Nat /\ DOMAIN outbox = 1..Len(outbox)
      /\ told \in Seq(Results) /\ Len(told) \in Nat /\ DOMAIN told = 1..Len(told)
      /\ \A i \in DOMAIN outbox : HopsUpTo(i) \in Nat
  BY PlaceType, LenProperties DEF TypeOK
<1>2. /\ outbox # <<>> /\ outbox' = Tail(outbox) /\ Entered' = Entered
      /\ \/ item \in {Finished, ScanStep} /\ told' = told
         \/ item \notin {Finished, ScanStep} /\ told' = Append(told, item)
  BY DEF WriteQueued, Entered
<1>3. item = outbox[1] /\ 1 \in DOMAIN outbox /\ item \in Items
  BY <1>1, <1>2, HeadTailProperties, EmptySeq
<1>4. /\ outbox' \in Seq(Items) /\ Len(outbox') = Len(outbox) - 1
      /\ DOMAIN outbox' = 1..Len(outbox) - 1
      /\ \A i \in DOMAIN outbox' : outbox'[i] = outbox[i + 1] /\ i + 1 \in DOMAIN outbox
  <2>1. /\ Tail(outbox) \in Seq(Items) /\ Len(Tail(outbox)) = Len(outbox) - 1
        /\ \A i \in 1..Len(Tail(outbox)) : Tail(outbox)[i] = outbox[i + 1]
    BY <1>1, <1>2, HeadTailProperties
  <2>2. DOMAIN outbox' = 1..Len(outbox) - 1
    BY <1>2, <2>1, LenProperties
  <2> QED
    BY <1>1, <1>2, <2>1, <2>2
<1>5. /\ Count(outbox', Results) \in Nat
      /\ \A i \in DOMAIN outbox' : HopsUpTo(i)' \in Nat
  <2>1. ASSUME NEW i \in 1..Len(outbox') PROVE HopsUpTo(i)' \in Nat
    <3>1. i \in 0..Len(outbox')
      BY <1>1, <1>4
    <3>2. SubSeq(outbox', 1, i) \in Seq(Items)
      BY <1>4, <3>1, UpTo
    <3> QED
      BY <3>2, CountType DEF HopsUpTo
  <2> QED
    BY <1>4, <2>1, CountType
<1>6. Len(told) + Count(outbox, Results) = Len(Entered)
  BY DEF ReportsFollowConsensus
<1>7. CASE item \in {Finished, ScanStep}
  <2>1. item \notin Results /\ told' = told
    <3>1. item.type # "hop_result"
      BY <1>7 DEF Finished, ScanStep
    <3> QED
      BY <1>2, <1>7, <3>1 DEF Results
  <2>2. Count(outbox', Results) = Count(outbox, Results)
    <3>1. Count(outbox, Results) = Count(outbox', Results) + 0
      BY <1>1, <1>2, <2>1, CountTail
    <3> QED
      BY <1>5, <3>1
  <2>3. \A i \in DOMAIN outbox' : HopsUpTo(i)' = HopsUpTo(i + 1)
    <3> TAKE i \in DOMAIN outbox'
    <3>1. i \in 1..Len(Tail(outbox))
      BY <1>1, <1>2, <1>4
    <3>2. HopsUpTo(i + 1) = HopsUpTo(i)' + 0
      BY <1>1, <1>2, <2>1, <3>1, UpToTail DEF HopsUpTo
    <3> QED
      BY <1>5, <3>2
  <2>4. ASSUME NEW i \in DOMAIN outbox', outbox'[i] \in Results
        PROVE  outbox'[i] = Entered'[Len(told') + HopsUpTo(i)']
    BY <1>2, <1>4, <2>1, <2>3, <2>4 DEF ReportsFollowConsensus
  <2> QED
    BY <1>2, <1>6, <2>1, <2>2, <2>4 DEF ReportsFollowConsensus
<1>8. CASE item \notin {Finished, ScanStep}
  <2>1. item \in Results /\ told' = Append(told, item)
    BY <1>2, <1>3, <1>8 DEF Items
  <2>2. Count(outbox, Results) = Count(outbox', Results) + 1
    BY <1>1, <1>2, <2>1, CountTail
  <2>3. \A i \in DOMAIN outbox' : HopsUpTo(i + 1) = HopsUpTo(i)' + 1
    <3> TAKE i \in DOMAIN outbox'
    <3>1. i \in 1..Len(Tail(outbox))
      BY <1>1, <1>2, <1>4
    <3> QED
      BY <1>1, <1>2, <2>1, <3>1, UpToTail DEF HopsUpTo
  <2>4. Len(told') = Len(told) + 1 /\ DOMAIN told' = 1..Len(told) + 1
        /\ told'[Len(told) + 1] = item /\ \A i \in DOMAIN told : told'[i] = told[i]
    BY <1>1, <2>1, AppendProperties, LenProperties
  <2>5. HopsUpTo(1) = 1
    BY <1>1, <1>2, <2>1, UpToFirst DEF HopsUpTo
  <2>6. item = Entered[Len(told) + 1]
    BY <1>3, <2>1, <2>5 DEF ReportsFollowConsensus
  <2>7. Len(told') + Count(outbox', Results) = Len(Entered')
    BY <1>1, <1>2, <1>5, <1>6, <2>2, <2>4
  <2>8. ASSUME NEW i \in DOMAIN told' PROVE told'[i] = Entered'[i]
    <3>1. i \in DOMAIN told \/ i = Len(told) + 1
      BY <1>1, <2>4
    <3> QED
      BY <1>2, <2>4, <2>6, <3>1 DEF ReportsFollowConsensus
  <2>9. ASSUME NEW i \in DOMAIN outbox', outbox'[i] \in Results
        PROVE  outbox'[i] = Entered'[Len(told') + HopsUpTo(i)']
    <3>1. outbox'[i] = Entered[Len(told) + HopsUpTo(i + 1)]
      BY <1>4, <2>9 DEF ReportsFollowConsensus
    <3>2. Len(told) + HopsUpTo(i + 1) = Len(told') + HopsUpTo(i)'
      <4>1. HopsUpTo(i)' \in Nat /\ HopsUpTo(i + 1) = HopsUpTo(i)' + 1
        BY <1>5, <2>3
      <4> QED
        BY <1>1, <2>4, <4>1
    <3> QED
      BY <1>2, <3>1, <3>2
  <2> QED
    BY <2>7, <2>8, <2>9 DEF ReportsFollowConsensus
<1> QED
  BY <1>7, <1>8

\* What a thread puts into the consensus it has yet to report.
LEMMA RecordedIsOwed ==
  ASSUME TypeOK, NEW result \in Results, lock = Nobody, lock' # Nobody,
         recorded' = Append(recorded, result)
  PROVE  Entered' = Entered
<1>1. /\ recorded \in Seq(Results) /\ Len(recorded) \in Nat
      /\ recorded' \in Seq(Results) /\ Len(recorded') = Len(recorded) + 1
      /\ \A i \in 1..Len(recorded) : recorded'[i] = recorded[i] /\ recorded[i] \in Results
  BY LenProperties, AppendProperties, ElementOfSeq DEF TypeOK
<1>2. /\ SubSeq(recorded', 1, Len(recorded)) \in Seq(Results)
      /\ Len(SubSeq(recorded', 1, Len(recorded))) = Len(recorded)
      /\ \A i \in 1..Len(recorded) : SubSeq(recorded', 1, Len(recorded))[i] = recorded'[i]
  <2>1. Len(recorded) \in 0..Len(recorded')
    BY <1>1
  <2> QED
    BY <1>1, <2>1, UpTo
<1>3. SubSeq(recorded', 1, Len(recorded)) = recorded
  BY <1>1, <1>2, SeqEqual
<1> QED
  BY <1>1, <1>3 DEF Entered, Front

\* A receiver thread keeps the reports in the consensus order.
LEMMA OrderOfThread ==
  ASSUME TypeOK, Threads, ReportsFollowConsensus, NEW r \in Slots, ThreadStep(r)
  PROVE  ReportsFollowConsensus'
<1>1. UNCHANGED <<told, readerOpen>>
  BY DEF ThreadStep, Connected, ScanStation, ScanEnds, HopCapture, HopRecord, HopReport, HopEnds,
         JobFails, streamVars, worldVars
<1>2. CASE HopReport(r)
  <2>1. thread[r] = "recording" /\ lock = r /\ r # Nobody
    BY <1>2, SlotsAssumption DEF HopReport, Threads, Nobody
  <2>2. /\ lock' = Nobody /\ UNCHANGED recorded
        /\ outbox' = Append(outbox, recorded[Len(recorded)])
    BY <1>2, <2>1, LatestResult DEF HopReport
  <2> QED
    BY <1>1, <2>1, <2>2, ReportQueued
<1>3. CASE HopRecord(r)
  <2>1. PICK e \in BOOLEAN : recorded' = Append(recorded, Result(r, e))
    BY <1>3 DEF HopRecord
  <2>2. lock = Nobody /\ lock' # Nobody /\ UNCHANGED outbox /\ Result(r, e) \in Results
    BY <1>3, SlotsAssumption DEF HopRecord, LockFree, Nobody, Result, Results
  <2>3. Entered' = Entered
    BY <2>1, <2>2, RecordedIsOwed
  <2> QED
    BY <1>1, <2>2, <2>3, Zenon DEF ReportsFollowConsensus, HopsUpTo
<1>4. CASE HopCapture(r)
  BY <1>1, <1>4, Zenon DEF HopCapture, sharedVars, ReportsFollowConsensus, HopsUpTo, Entered
<1>5. CASE Connected(r) \/ ScanStation(r) \/ ScanEnds(r) \/ HopEnds(r) \/ JobFails(r)
  <2>1. PICK item \in {ScanStep, Finished} : outbox' = Append(outbox, item)
    BY <1>5 DEF Connected, ScanStation, ScanEnds, HopEnds, JobFails, Finish
  <2>2. UNCHANGED <<lock, recorded>>
    BY <1>5 DEF Connected, ScanStation, ScanEnds, HopEnds, JobFails
  <2>3. item \in Items \ Results
    <3>1. item \in Items /\ item.type # "hop_result"
      BY DEF Items, ScanStep, Finished
    <3> QED
      BY <3>1 DEF Results
  <2>4. Entered' = Entered
    BY <2>2 DEF Entered
  <2> QED
    BY <1>1, <2>1, <2>3, <2>4, OtherQueued
<1> QED
  BY <1>2, <1>3, <1>4, <1>5 DEF ThreadStep

\* Every step keeps the reports in the consensus order.
LEMMA OrderStep ==
  ASSUME Inv, ReportsFollowConsensus, [Next]_vars
  PROVE  ReportsFollowConsensus'
<1>1. TypeOK /\ Threads /\ PhasesDoNotOverlap
  BY DEF Inv, Sentinels
<1>2. ASSUME UNCHANGED <<outbox, lock, recorded, told>>, readerOpen' => readerOpen
      PROVE  ReportsFollowConsensus'
  BY <1>2, Zenon DEF ReportsFollowConsensus, HopsUpTo, Entered
<1>3. CASE WriteQueued
  BY <1>1, <1>3, ItemTaken
<1>4. ASSUME NEW r \in Slots, ThreadStep(r) PROVE ReportsFollowConsensus'
  BY <1>1, <1>4, OrderOfThread
<1>5. CASE Maintain
  <2>1. outbox = <<>> /\ lock = Nobody
    BY <1>1, <1>5 DEF Maintain, PhasesDoNotOverlap, LoopPoints
  <2>2. CASE ~readerOpen
    BY <1>5, <2>2 DEF Maintain, ReportsFollowConsensus, worldVars
  <2>3. CASE readerOpen
    <3>1. outbox' = <<>> /\ told' = <<>> /\ Entered' = <<>>
      BY <1>5, <2>1, <2>3 DEF Maintain, Publish, Entered
    <3>2. Len(<<>>) = 0 /\ DOMAIN <<>> = {} /\ Count(<<>>, Results) = 0
      BY EmptySeq, CountEmpty
    <3> QED
      BY <3>1, <3>2 DEF ReportsFollowConsensus
  <2> QED
    BY <2>2, <2>3
<1>6. CASE Acquire \/ PublishStarted \/ PublishWatchlist \/ CompleteCycle \/ PublishFinished
             \/ PublishInterrupted
  BY <1>2, <1>6
  DEF Acquire, PublishStarted, PublishWatchlist, CompleteCycle, PublishFinished,
      PublishInterrupted, PublishStopped, Publish, sharedVars, worldVars
<1>7. CASE Next
  BY <1>2, <1>3, <1>4, <1>5, <1>6, <1>7
  DEF Next, RunStep, World, ConnectAll, StartThread, AllStarted, Joined, ReportFailure, AllReported,
      Require, BeginIteration, Decide, EndCycle, LeaveLoop, Stop, StopClose, Interrupt, RequestRescan,
      ReaderCloses, sharedVars, streamVars, worldVars
<1>8. CASE UNCHANGED vars
  BY <1>2, <1>8 DEF vars, sharedVars, streamVars, worldVars
<1> QED
  BY <1>7, <1>8

\* As long as somebody reads them, the hop_results come in the order in which the results
\* entered the consensus, each in its place: none is written twice, left out or overtaken.
THEOREM ReportsKeepOrder == Spec => []ReportsFollowConsensus
<1>1. Init => ReportsFollowConsensus
  <2>1. Len(<<>>) = 0 /\ DOMAIN <<>> = {} /\ Count(<<>>, Results) = 0
    BY EmptySeq, CountEmpty
  <2> QED
    BY <2>1 DEF Init, ReportsFollowConsensus, Entered
<1>2. Inv /\ ReportsFollowConsensus /\ [Next]_vars => ReportsFollowConsensus'
  BY OrderStep
<1> QED
  BY <1>1, <1>2, Inductive, PTL DEF Spec, Init0

=============================================================================
