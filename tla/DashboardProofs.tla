--------------------------- MODULE DashboardProofs ---------------------------
(***************************************************************************)
(* What a dashboard shows is true of the run, for any number of receivers, *)
(* tunings, transmitters and iterations, and whatever fails: a row speaks  *)
(* of one transmitter, the progress names the station that is recorded,    *)
(* and the failed receivers are those that do not work.                    *)
(***************************************************************************)
EXTENDS Dashboard, FiniteSetTheorems, SequenceTheorems, TLAPS

\* Each receiver's watchlist: its stations, each once, while it is connected.
ListsOf(r) ==
    /\ \A i \in DOMAIN lists[r] : lists[r][i].receiver = r
    /\ \A i, j \in DOMAIN lists[r] : lists[r][i].tuning = lists[r][j].tuning => i = j
    /\ lists[r] # <<>> => r \in up
    /\ r \in failed => lists[r] = <<>>
Lists == \A r \in Receivers : ListsOf(r)

\* Which receivers are shown as failed, stage by stage.
Working ==
    /\ stage \in {"acquire", "maintain"} => todo \cup broken \subseteq up
    /\ stage \in {"start", "started", "connect"} => Used \ up \subseteq failed \cup todo \cup broken
    /\ stage \in {"acquire", "listed", "maintain"} => Used \ up \subseteq failed
    /\ stage = "acquire" => failed \cap up \subseteq todo \cup broken
    /\ stage \in {"listed", "maintain"} => failed \cap up = {}

\* The rows are those of the run's watchlists, and its counters are those of the pass.
InPass(r) ==
    /\ passHops[r] = passDone[r] /\ passDone[r] < Len(lists[r])
    /\ ~Multi => hopsDone = passDone[r]
Pass ==
    /\ stage \notin {"acquire", "finished", "ended"} =>
        \A r \in Receivers : lists[r] # <<>> => watchlist[r] = lists[r]
    /\ stage = "maintain" => phase = "MAINTENANCE" /\ \A r \in todo : InPass(r)

\* What is kept of a row is of the transmitter that it has confirmed.
RowOf(k) == {hops[k].pi, lastCt[k].pi} \subseteq {NoPI, identity[k]}
StationFits(s) == Absent(KeyOf(s)) => s.pi \in {NoPI, identity[KeyOf(s)]}
Rows ==
    /\ \A k \in Keys : RowOf(k)
    /\ \A r \in Receivers : \A i \in DOMAIN watchlist[r] : StationFits(watchlist[r][i])

\* A vote is of a track that was recorded, the freshest one if there is one receiver.
VoteOf(k) ==
    heard[k] # NoTrack =>
        /\ k[1] \in Used /\ <<k[2], heard[k]>> \in recorded
        /\ freshest[k[2]] # NoTrack
        /\ ~Multi => freshest[k[2]] = heard[k]
CountedAs(tunings, status) ==
    \A t \in tunings :
        /\ latest[t] # NoTrack
        /\ ~Multi => tracks[<<t, latest[t]>>] = status
Tracks ==
    /\ \A k \in Keys : VoteOf(k)
    /\ CountedAs(contributing, "contributing") /\ CountedAs(outlying, "outlier")

Inv == TypeOK /\ Lists /\ Working /\ Pass /\ Rows /\ Tracks

-----------------------------------------------------------------------------
(* Facts about the constants and the records.                                *)

\* A run with one receiver has no other.
LEMMA OneUsed ==
  ASSUME listed \in Listings, ~Multi
  PROVE  \A q, r \in Used : q = r
<1>1. IsFiniteSet(Used)
  BY NamesAssumption, FS_Subset DEF Used
<1>2. Cardinality(Used) \in {0, 1}
  BY <1>1, FS_CardinalityType DEF Multi
<1>3. CASE Cardinality(Used) = 0
  BY <1>1, <1>3, FS_EmptySet
<1>4. CASE Cardinality(Used) = 1
  BY <1>1, <1>4, FS_Singleton
<1> QED
  BY <1>2, <1>3, <1>4

\* A row without a hop is none of the hops.
LEMMA NoHopIsNone == NoHop \notin Hops /\ NoHop.pi = NoPI /\ NoHop.ct = "none"
  BY DEF NoHop, Hops

\* A scan lists each of its stations once.
LEMMA ListsAreSequences ==
  ASSUME NEW r \in Receivers, listed \in Listings, NEW stations \in StationLists(r)
  PROVE  /\ stations \in Seq(Stations)
         /\ \A i \in DOMAIN stations : stations[i].receiver = r
         /\ \A i, j \in DOMAIN stations : stations[i].tuning = stations[j].tuning => i = j
<1>1. PICK order \in UNION {SetToSeqs(T) : T \in SUBSET listed[r]},
           pi \in {f \in [listed[r] -> MaybePI] : \A t \in listed[r] : Receivable(t, f[t])} :
        stations = [i \in DOMAIN order |->
                        [receiver |-> r, tuning |-> order[i], pi |-> pi[order[i]]]]
  BY DEF StationLists
<1>2. PICK T \in SUBSET listed[r] : order \in SetToSeqs(T)
  BY <1>1
<1>3. listed[r] \subseteq Tunings
  BY NamesAssumption
<1>4. Cardinality(T) \in Nat
  BY <1>2, <1>3, NamesAssumption, FS_Subset, FS_CardinalityType
<1>5. /\ order \in [1..Cardinality(T) -> T]
      /\ \A i, j \in 1..Cardinality(T) : i # j => order[i] # order[j]
  BY <1>2 DEF SetToSeqs
<1>6. pi \in [listed[r] -> MaybePI]
  BY <1>1
<1>7. stations \in [1..Cardinality(T) -> Stations]
  BY <1>1, <1>2, <1>3, <1>5, <1>6 DEF Stations
<1>8. stations \in Seq(Stations)
  BY <1>4, <1>7, SeqDef
<1> QED
  BY <1>1, <1>5, <1>8

-----------------------------------------------------------------------------
(* The invariant holds at first and is kept by every action.                 *)

\* At first there is nothing to show.
LEMMA Initially == Init => Inv
<1> SUFFICES ASSUME Init PROVE Inv
  OBVIOUS
<1>1. /\ Used \subseteq Receivers /\ <<>> \in Seq(Stations) /\ Len(<<>>) = 0
      /\ DOMAIN <<>> = {}
  BY EmptySeq, LenProperties DEF Used
<1>2. TypeOK
  BY <1>1, NumbersAssumption DEF Init, TypeOK, MaybePI, Keys, TrackKeys
<1>3. Lists /\ Working /\ Pass /\ Rows /\ Tracks
  BY <1>1, NoHopIsNone
  DEF Init, Lists, ListsOf, Working, Pass, Rows, RowOf, Tracks, VoteOf, CountedAs
<1> QED
  BY <1>2, <1>3 DEF Inv

\* The station whose result comes next is one of the receiver's.
LEMMA NextStation ==
  ASSUME Inv, NEW r \in Receivers, OnHopResult(r)
  PROVE  /\ r \in todo /\ r \in Used /\ r \in up /\ stage = "maintain"
         /\ passDone[r] \in Nat /\ passDone[r] < Len(lists[r])
         /\ passDone[r] + 1 \in DOMAIN lists[r]
         /\ lists[r][passDone[r] + 1] \in Stations
         /\ KeyOf(lists[r][passDone[r] + 1]) \in {r} \X Tunings
<1>1. r \in todo /\ stage = "maintain"
  BY DEF OnHopResult
<1>2. /\ lists[r] \in Seq(Stations) /\ r \in Used /\ r \in up
      /\ passDone[r] \in Nat /\ passDone[r] < Len(lists[r])
  BY <1>1 DEF Inv, TypeOK, Working, Pass, InPass
<1>3. Len(lists[r]) \in Nat /\ DOMAIN lists[r] = 1..Len(lists[r])
  BY <1>2, LenProperties
<1>4. passDone[r] + 1 \in DOMAIN lists[r]
  BY <1>2, <1>3
<1>5. lists[r][passDone[r] + 1] \in Stations
  BY <1>2, <1>4, <1>3, ElementOfSeq
<1>6. lists[r][passDone[r] + 1].receiver = r
  BY <1>4 DEF Inv, Lists, ListsOf
<1> QED
  BY <1>1, <1>2, <1>3, <1>4, <1>5, <1>6 DEF KeyOf, Stations

\* Every action keeps the types.
LEMMA TypesKept == Inv /\ [Next]_vars => TypeOK'
<1> SUFFICES ASSUME Inv, [Next]_vars PROVE TypeOK'
  OBVIOUS
<1> USE DEF Inv, runVars, trackVars, rowVars, cycleVars, passVars
<1>1. Used' = Used
  BY DEF Next, vars, Used, Connects, OnReconStarted, FirstIteration, Fails, OnReceiverFailed,
     OnAcquisitionStarted,
     OnScanStep, OnLastScanStep, OnWatchlistUpdated, OnMaintenanceStarted, OnHopResult,
     OnCycleCompleted, OnReconStopped
<1>2. Used \subseteq Receivers
  BY DEF Used
<1>3. ASSUME NEW r \in Receivers, Connects(r) PROVE TypeOK'
  BY <1>1, <1>3 DEF Connects, TypeOK
<1>4. ASSUME NEW r \in Receivers, Fails(r) PROVE TypeOK'
  BY <1>1, <1>4, NumbersAssumption DEF Fails, TypeOK
<1>5. ASSUME NEW r \in Receivers, OnReceiverFailed(r) PROVE TypeOK'
  <2>1. <<>> \in Seq(Stations) /\ Len(<<>>) = 0
    BY EmptySeq, LenProperties
  <2>2. lists' \in [Receivers -> Seq(Stations)]
    BY <1>5, <2>1 DEF OnReceiverFailed, TypeOK
  <2>3. ASSUME NEW q \in Receivers PROVE passDone'[q] \in Nat /\ passDone'[q] <= Len(lists'[q])
    <3>1. CASE q = r
      <4>1. lists'[q] = <<>> /\ passDone'[q] = 0
        BY <1>5, <3>1 DEF OnReceiverFailed, TypeOK
      <4> QED
        BY <2>1, <4>1
    <3>2. CASE q # r
      <4>1. lists'[q] = lists[q] /\ passDone'[q] = passDone[q]
        BY <1>5, <3>2 DEF OnReceiverFailed, TypeOK
      <4> QED
        BY <4>1 DEF TypeOK
    <3> QED
      BY <3>1, <3>2
  <2> QED
    BY <1>1, <1>5, <2>2, <2>3 DEF OnReceiverFailed, TypeOK
<1>6. ASSUME NEW r \in Receivers, OnScanStep(r) PROVE TypeOK'
  BY <1>1, <1>6 DEF OnScanStep, Back, TypeOK
<1>7. ASSUME NEW r \in Receivers, OnLastScanStep(r) PROVE TypeOK'
  <2>1. PICK stations \in StationLists(r) : lists' = [lists EXCEPT ![r] = stations]
    BY <1>7 DEF OnLastScanStep
  <2>2. stations \in Seq(Stations) /\ Len(stations) \in Nat
    BY ListsAreSequences, LenProperties DEF TypeOK
  <2>3. lists' \in [Receivers -> Seq(Stations)]
    BY <2>1, <2>2 DEF TypeOK
  <2>4. ASSUME NEW q \in Receivers PROVE passDone'[q] \in Nat /\ passDone'[q] <= Len(lists'[q])
    <3>1. CASE q = r
      <4>1. lists'[q] = stations /\ passDone'[q] = 0
        BY <1>7, <2>1, <3>1 DEF OnLastScanStep, TypeOK
      <4> QED
        BY <2>2, <4>1
    <3>2. CASE q # r
      <4>1. lists'[q] = lists[q] /\ passDone'[q] = passDone[q]
        BY <1>7, <2>1, <3>2 DEF OnLastScanStep, TypeOK
      <4> QED
        BY <4>1 DEF TypeOK
    <3> QED
      BY <3>1, <3>2
  <2> QED
    BY <1>1, <1>7, <2>3, <2>4 DEF OnLastScanStep, Back, TypeOK
<1>8. ASSUME NEW r \in Receivers, OnHopResult(r) PROVE TypeOK'
  <2> DEFINE k == KeyOf(lists[r][passDone[r] + 1])
  <2>1. k \in Keys /\ k[2] \in Tunings
    BY <1>8, NextStation DEF Keys
  <2>2. PICK hop \in Hops :
          /\ Enters(k, hop)
          /\ hops' = [hops EXCEPT ![k] = hop]
          /\ lastCt' = [lastCt EXCEPT ![k] =
                 IF Caches(hop) THEN hop ELSE IF Survives(k, hop.pi) THEN lastCt[k] ELSE NoHop]
          /\ identity' = [identity EXCEPT ![k] = Confirmed(k, hop.pi)]
    BY <1>8 DEF OnHopResult
  <2> HIDE DEF k
  <2>3. hop.pi \in MaybePI /\ <<k[2], hop.pi>> \in TrackKeys
    BY <2>1 DEF Hops, TrackKeys
  <2>4. /\ hops' \in [Keys -> Hops \cup {NoHop}] /\ lastCt' \in [Keys -> Hops \cup {NoHop}]
        /\ identity' \in [Keys -> MaybePI]
    BY <2>1, <2>2, <2>3 DEF TypeOK, Confirmed
  <2>5. /\ recorded' \subseteq TrackKeys
        /\ freshest' \in [Tunings -> MaybePI \cup {NoTrack}]
        /\ heard' \in [Keys -> MaybePI \cup {NoTrack}]
    BY <2>1, <2>2, <2>3 DEF TypeOK, Enters
  <2>6. ASSUME NEW q \in Receivers PROVE passDone'[q] \in Nat /\ passDone'[q] <= Len(lists'[q])
    <3>1. Len(lists[r]) \in Nat /\ lists' = lists
      BY <1>8, LenProperties DEF OnHopResult, TypeOK
    <3>2. CASE q = r
      <4>1. passDone'[q] = passDone[r] + 1
        BY <1>8, <3>2 DEF OnHopResult, TypeOK
      <4> QED
        BY <1>8, <3>1, <3>2, <4>1, NextStation
    <3>3. CASE q # r
      <4>1. passDone'[q] = passDone[q]
        BY <1>8, <3>3 DEF OnHopResult, TypeOK
      <4> QED
        BY <3>1, <4>1 DEF TypeOK
    <3> QED
      BY <3>2, <3>3
  <2>7. passHops' \in [Receivers -> Nat] /\ hopsDone' \in Nat
    BY <1>8 DEF OnHopResult, TypeOK
  <2>8. todo' \subseteq Used /\ failed' \subseteq Used
    BY <1>8 DEF OnHopResult, Back, TypeOK
  <2> QED
    BY <1>1, <1>8, <2>4, <2>5, <2>6, <2>7, <2>8 DEF OnHopResult, TypeOK
<1>9. CASE OnReconStarted \/ FirstIteration
  BY <1>1, <1>9 DEF OnReconStarted, FirstIteration, TypeOK
<1>10. CASE OnAcquisitionStarted
  BY <1>1, <1>10 DEF OnAcquisitionStarted, TypeOK
<1>11. CASE OnWatchlistUpdated
  <2>1. \A k \in Watched : PiListed(k) \in MaybePI
    <3> TAKE k \in Watched
    <3> DEFINE i == CHOOSE i \in Places(k) : TRUE
    <3>1. i \in Places(k) /\ k[1] \in Receivers
      BY DEF Watched, Keys
    <3>2. lists[k[1]] \in Seq(Stations) /\ i \in 1..Len(lists[k[1]])
      BY <3>1, LenProperties DEF TypeOK, Places
    <3>3. lists[k[1]][i] \in Stations
      BY <3>2, ElementOfSeq
    <3> QED
      BY <3>3 DEF PiListed, Stations
  <2>2. identity' \in [Keys -> MaybePI]
    BY <1>11, <2>1 DEF OnWatchlistUpdated, TypeOK, Confirmed, MaybePI
  <2>3. hops' \in [Keys -> Hops \cup {NoHop}] /\ lastCt' \in [Keys -> Hops \cup {NoHop}]
    BY <1>11 DEF OnWatchlistUpdated, TypeOK
  <2> QED
    BY <1>1, <1>11, <2>2, <2>3 DEF OnWatchlistUpdated, Back, TypeOK
<1>12. CASE OnMaintenanceStarted
  <2>1. \A q \in Receivers : passDone'[q] \in Nat /\ passDone'[q] <= Len(lists'[q])
    BY <1>12, LenProperties DEF OnMaintenanceStarted, TypeOK
  <2> QED
    BY <1>1, <1>2, <1>12, <2>1, NumbersAssumption DEF OnMaintenanceStarted, CountersReset, TypeOK
<1>13. CASE OnCycleCompleted
  <2>1. PICK status \in [Votes -> {"none", "contributing", "outlier"}] :
          /\ tracks' = [k \in TrackKeys |-> IF k \notin recorded THEN NoTrack
                                            ELSE IF k \in Votes THEN status[k] ELSE "none"]
          /\ contributing' = {k[1] : k \in {v \in Votes : status[v] = "contributing"}}
          /\ outlying' = {k[1] : k \in {v \in Votes : status[v] = "outlier"}}
    BY <1>13 DEF OnCycleCompleted
  <2>2. \A v \in Votes : v[1] \in Tunings
    BY DEF Votes, Keys
  <2>3. tracks' \in [TrackKeys -> {NoTrack, "none", "contributing", "outlier"}]
    BY <2>1
  <2>4. contributing' \subseteq Tunings /\ outlying' \subseteq Tunings
    BY <2>1, <2>2
  <2> QED
    BY <1>1, <1>2, <1>13, <2>3, <2>4 DEF OnCycleCompleted, TypeOK
<1>14. CASE OnReconStopped
  BY <1>1, <1>14 DEF OnReconStopped, TypeOK
<1>15. CASE UNCHANGED vars
  BY <1>1, <1>15 DEF vars, TypeOK
<1> QED
  BY <1>3, <1>4, <1>5, <1>6, <1>7, <1>8, <1>9, <1>10, <1>11, <1>12, <1>13, <1>14, <1>15 DEF Next

\* The stations never change during a run.
LEMMA SameStations == [Next]_vars => listed' = listed /\ Used' = Used /\ Multi' = Multi
<1> SUFFICES ASSUME [Next]_vars PROVE listed' = listed
  BY DEF Used, Multi
<1> QED
  BY DEF Next, vars, runVars, Connects, OnReconStarted, FirstIteration, Fails, OnReceiverFailed,
     OnAcquisitionStarted, OnScanStep, OnLastScanStep, OnWatchlistUpdated, OnMaintenanceStarted,
     OnHopResult, OnCycleCompleted, OnReconStopped

\* A receiver's watchlist is made by its scan, which shows that it works, and is
\* lost when it fails.
LEMMA ListsKept == Inv /\ [Next]_vars => Lists'
<1> SUFFICES ASSUME Inv, [Next]_vars, NEW q \in Receivers PROVE ListsOf(q)'
  BY DEF Lists
<1> USE DEF runVars, trackVars, rowVars, cycleVars, passVars
<1>1. ListsOf(q) /\ lists \in [Receivers -> Seq(Stations)] /\ failed \subseteq Used
  BY DEF Inv, TypeOK, Lists
<1>2. CASE lists'[q] = lists[q] /\ q \in up' /\ (q \in failed' => q \in failed)
  BY <1>1, <1>2 DEF ListsOf
<1>3. CASE lists'[q] = <<>>
  BY <1>3, LenProperties, EmptySeq DEF ListsOf
<1>4. ASSUME NEW r \in Receivers, OnReceiverFailed(r) PROVE ListsOf(q)'
  <2>1. CASE q = r
    BY <1>1, <1>3, <1>4, <2>1 DEF OnReceiverFailed
  <2>2. CASE q # r
    <3>1. /\ lists'[q] = lists[q] /\ (q \in up => q \in up')
          /\ (q \in failed' => q \in failed)
      BY <1>1, <1>4, <2>2 DEF OnReceiverFailed
    <3> QED
      BY <1>1, <3>1 DEF ListsOf
  <2> QED
    BY <2>1, <2>2
<1>5. ASSUME NEW r \in Receivers, OnLastScanStep(r) PROVE ListsOf(q)'
  <2>1. PICK stations \in StationLists(r) : lists' = [lists EXCEPT ![r] = stations]
    BY <1>5 DEF OnLastScanStep
  <2>2. CASE q = r
    <3>1. /\ \A i \in DOMAIN stations : stations[i].receiver = r
          /\ \A i, j \in DOMAIN stations : stations[i].tuning = stations[j].tuning => i = j
      BY ListsAreSequences DEF Inv, TypeOK
    <3>2. lists'[q] = stations /\ q \in up' /\ q \notin failed'
      BY <1>1, <1>5, <2>1, <2>2 DEF OnLastScanStep, Back, Inv, Working
    <3> QED
      BY <2>2, <3>1, <3>2 DEF ListsOf
  <2>3. CASE q # r
    <3>1. lists'[q] = lists[q] /\ up' = up /\ (q \in failed' => q \in failed)
      BY <1>1, <1>5, <2>1, <2>3 DEF OnLastScanStep, Back
    <3> QED
      BY <1>1, <3>1 DEF ListsOf
  <2> QED
    BY <2>2, <2>3
<1>6. CASE lists' = lists /\ up \subseteq up' /\ failed' \subseteq failed
  BY <1>1, <1>6 DEF ListsOf
<1>7. ASSUME NEW r \in Receivers, Connects(r) \/ Fails(r) \/ OnScanStep(r) \/ OnHopResult(r)
      PROVE  lists' = lists /\ up \subseteq up' /\ failed' \subseteq failed
  BY <1>7 DEF Connects, Fails, OnScanStep, OnHopResult, Back
<1> QED
  BY <1>4, <1>5, <1>6, <1>7
  DEF Next, vars, OnReconStarted, FirstIteration, OnAcquisitionStarted, OnWatchlistUpdated, Back,
      OnMaintenanceStarted, OnCycleCompleted, OnReconStopped

\* What is shown as failed follows the phases of the run.
LEMMA WorkingKept == Inv /\ [Next]_vars => Working'
<1> SUFFICES ASSUME Inv, [Next]_vars PROVE Working'
  OBVIOUS
<1> USE DEF runVars, trackVars, rowVars, cycleVars, passVars
<1>1. /\ Used' = Used /\ Working
      /\ todo \subseteq Used /\ broken \subseteq Used /\ up \subseteq Used /\ failed \subseteq Used
  BY SameStations DEF Inv, TypeOK
<1>2. \A r \in Receivers : (lists[r] # <<>> => r \in up) /\ (r \in failed => lists[r] = <<>>)
  BY DEF Inv, Lists, ListsOf
<1>3. Used \subseteq Receivers
  BY DEF Used
<1>4. ASSUME NEW r \in Receivers, Connects(r) PROVE Working'
  BY <1>1, <1>4 DEF Connects, Working
<1>5. ASSUME NEW r \in Receivers, Fails(r) PROVE Working'
  BY <1>1, <1>5 DEF Fails, Working
<1>6. ASSUME NEW r \in Receivers, OnReceiverFailed(r) PROVE Working'
  BY <1>1, <1>6 DEF OnReceiverFailed, Working
<1>7. ASSUME NEW r \in Receivers, OnScanStep(r) PROVE Working'
  BY <1>1, <1>7 DEF OnScanStep, Back, Working
<1>8. ASSUME NEW r \in Receivers, OnLastScanStep(r) PROVE Working'
  BY <1>1, <1>8 DEF OnLastScanStep, Back, Working
<1>9. ASSUME NEW r \in Receivers, OnHopResult(r) PROVE Working'
  BY <1>1, <1>9 DEF OnHopResult, Back, Working
<1>10. CASE OnReconStarted \/ FirstIteration
  BY <1>1, <1>10 DEF OnReconStarted, FirstIteration, PhaseOver, Working
<1>11. CASE OnAcquisitionStarted
  BY <1>1, <1>2, <1>3, <1>11 DEF OnAcquisitionStarted, PhaseOver, Working
<1>12. CASE OnWatchlistUpdated
  <2>1. \A k \in Watched : k[1] \in up
    <3> TAKE k \in Watched
    <3>1. k[1] \in Receivers /\ Places(k) # {}
      BY DEF Watched, Keys
    <3>2. lists[k[1]] # <<>>
      BY <3>1, EmptySeq, LenProperties DEF Places
    <3> QED
      BY <1>2, <3>1, <3>2
  <2> QED
    BY <1>1, <1>12, <2>1 DEF OnWatchlistUpdated, PhaseOver, Back, Working
<1>13. CASE OnMaintenanceStarted
  BY <1>1, <1>2, <1>3, <1>13 DEF OnMaintenanceStarted, PhaseOver, Working
<1>14. CASE OnCycleCompleted
  BY <1>1, <1>14 DEF OnCycleCompleted, PhaseOver, Working
<1>15. CASE OnReconStopped
  BY <1>1, <1>15 DEF OnReconStopped, Working
<1>16. CASE UNCHANGED vars
  BY <1>1, <1>16 DEF vars, Working
<1> QED
  BY <1>4, <1>5, <1>6, <1>7, <1>8, <1>9, <1>10, <1>11, <1>12, <1>13, <1>14, <1>15, <1>16 DEF Next

\* The rows and the counters follow the pass.
LEMMA PassKept == Inv /\ [Next]_vars => Pass'
<1> SUFFICES ASSUME Inv, [Next]_vars PROVE Pass'
  OBVIOUS
<1> USE DEF runVars, trackVars, rowVars, cycleVars, passVars
<1> DEFINE Shown == \A r \in Receivers : lists[r] # <<>> => watchlist[r] = lists[r]
<1>1. /\ Multi' = Multi /\ Pass /\ todo \subseteq Used /\ Used \subseteq Receivers
      /\ lists \in [Receivers -> Seq(Stations)] /\ passDone \in [Receivers -> Nat]
      /\ passHops \in [Receivers -> Nat] /\ hopsDone \in Nat
  BY SameStations DEF Inv, TypeOK, Used
<1>2. ASSUME NEW r \in Receivers, Connects(r) \/ OnScanStep(r) PROVE Pass'
  BY <1>1, <1>2 DEF Connects, OnScanStep, Pass, InPass
<1>3. ASSUME NEW r \in Receivers, Fails(r) PROVE Pass'
  BY <1>1, <1>3 DEF Fails, Pass, InPass
<1>4. ASSUME NEW r \in Receivers, OnReceiverFailed(r) PROVE Pass'
  <2>1. todo' = {} /\ stage' = stage /\ phase' = phase
    BY <1>4 DEF OnReceiverFailed
  <2>2. Shown => Shown'
    BY <1>1, <1>4 DEF OnReceiverFailed
  <2> QED
    BY <1>1, <2>1, <2>2 DEF Pass
<1>5. ASSUME NEW r \in Receivers, OnLastScanStep(r) PROVE Pass'
  BY <1>5 DEF OnLastScanStep, Pass
<1>6. ASSUME NEW r \in Receivers, OnHopResult(r) PROVE Pass'
  <2>1. /\ r \in todo /\ r \in Used /\ InPass(r)
        /\ passDone' = [passDone EXCEPT ![r] = @ + 1]
        /\ passHops' = [passHops EXCEPT ![r] = @ + 1] /\ hopsDone' = hopsDone + 1
        /\ todo' = IF passDone'[r] = Len(lists[r]) THEN todo \ {r} ELSE todo
        /\ UNCHANGED <<stage, phase, lists, watchlist>> /\ stage = "maintain"
    BY <1>6, NextStation DEF OnHopResult, Inv, Pass
  <2>2. ASSUME NEW q \in todo' PROVE InPass(q)'
    <3>1. q \in todo /\ InPass(q) /\ q \in Used
      BY <1>1, <2>1, <2>2 DEF Pass
    <3>2. CASE q = r
      <4>1. passDone[r] + 1 # Len(lists[r]) /\ Len(lists[r]) \in Nat
        BY <1>1, <2>1, <2>2, <3>2, LenProperties
      <4> QED
        BY <1>1, <2>1, <3>2, <4>1 DEF InPass
    <3>3. CASE q # r
      <4>1. Multi
        BY <2>1, <3>1, <3>3, OneUsed DEF Inv, TypeOK
      <4> QED
        BY <1>1, <2>1, <3>1, <3>3, <4>1 DEF InPass
    <3> QED
      BY <3>2, <3>3
  <2> QED
    BY <1>1, <2>1, <2>2 DEF Pass
<1>7. CASE OnWatchlistUpdated
  BY <1>7 DEF OnWatchlistUpdated, Pass
<1>8. CASE OnMaintenanceStarted
  <2>1. /\ stage' = "maintain" /\ phase' = "MAINTENANCE" /\ UNCHANGED <<lists, watchlist>>
        /\ todo' \subseteq {r \in Receivers : lists[r] # <<>>}
        /\ passDone' = [r \in Receivers |-> 0] /\ passHops' = [r \in Receivers |-> 0]
        /\ hopsDone' = 0 /\ stage \in {"listed", "connect"}
    BY <1>1, <1>8 DEF OnMaintenanceStarted, CountersReset, Inv, TypeOK
  <2>2. \A r \in todo' : Len(lists[r]) > 0
    BY <1>1, <2>1, LenProperties, EmptySeq
  <2> QED
    BY <1>1, <2>1, <2>2 DEF Pass, InPass
<1>9. CASE OnCycleCompleted
  BY <1>9 DEF OnCycleCompleted, Pass
<1>10. CASE OnReconStarted \/ FirstIteration \/ OnAcquisitionStarted \/ OnReconStopped \/ UNCHANGED vars
  BY <1>1, <1>10
  DEF OnReconStarted, FirstIteration, OnAcquisitionStarted, OnReconStopped, vars, Pass, InPass
<1> QED
  BY <1>2, <1>3, <1>4, <1>5, <1>6, <1>7, <1>8, <1>9, <1>10 DEF Next

\* A row keeps nothing of another transmitter than the one confirmed last.
LEMMA RowsKept == Inv /\ [Next]_vars => Rows'
<1> SUFFICES ASSUME Inv, [Next]_vars PROVE Rows'
  OBVIOUS
<1> USE DEF runVars, trackVars, rowVars, cycleVars, passVars
<1>1. /\ Rows
      /\ lists \in [Receivers -> Seq(Stations)] /\ watchlist \in [Receivers -> Seq(Stations)]
      /\ hops \in [Keys -> Hops \cup {NoHop}] /\ lastCt \in [Keys -> Hops \cup {NoHop}]
      /\ identity \in [Keys -> MaybePI]
  BY DEF Inv, TypeOK
<1>2. CASE UNCHANGED rowVars
  BY <1>1, <1>2 DEF Rows, RowOf, StationFits, Absent
<1>3. CASE OnWatchlistUpdated
  <2>1. ASSUME NEW r \in Receivers, NEW i \in DOMAIN lists[r]
        PROVE  /\ KeyOf(lists[r][i]) \in Watched
               /\ PiListed(KeyOf(lists[r][i])) = lists[r][i].pi
    <3> DEFINE k == KeyOf(lists[r][i])
    <3>1. lists[r][i] \in Stations /\ lists[r][i].receiver = r
      BY <1>1, ElementOfSeq, LenProperties DEF Inv, Lists, ListsOf
    <3>2. k \in Keys /\ k[1] = r /\ i \in Places(k)
      BY <3>1 DEF KeyOf, Stations, Keys, Places
    <3>3. \A j \in Places(k) : j = i
      BY <3>2 DEF Places, KeyOf, Inv, Lists, ListsOf
    <3> QED
      BY <3>2, <3>3 DEF Watched, PiListed
  <2>2. ASSUME NEW k \in Keys PROVE RowOf(k)'
    <3>1. CASE k \in Watched /\ Survives(k, PiListed(k))
      <4>1. hops'[k] = hops[k] /\ lastCt'[k] = lastCt[k] /\ identity'[k] = Confirmed(k, PiListed(k))
        BY <1>3, <3>1 DEF OnWatchlistUpdated
      <4> QED
        BY <1>1, <3>1, <4>1 DEF Rows, RowOf, Survives, Confirmed
    <3>2. CASE ~(k \in Watched /\ Survives(k, PiListed(k)))
      <4>1. hops'[k] = NoHop /\ lastCt'[k] = NoHop
        BY <1>3, <3>2 DEF OnWatchlistUpdated
      <4> QED
        BY <4>1, NoHopIsNone DEF RowOf
    <3> QED
      BY <3>1, <3>2
  <2>3. ASSUME NEW r \in Receivers, NEW i \in DOMAIN lists[r] PROVE StationFits(lists[r][i])'
    <3> DEFINE k == KeyOf(lists[r][i])
    <3>1. k \in Watched /\ PiListed(k) = lists[r][i].pi
      BY <2>1
    <3>2. k \in Keys /\ lists' = lists
      BY <1>3, <3>1 DEF Watched, OnWatchlistUpdated
    <3>3. identity'[k] = Confirmed(k, PiListed(k))
      BY <1>3, <3>1, <3>2 DEF OnWatchlistUpdated
    <3>4. lists[r][i].pi \in {NoPI, identity'[k]}
      BY <3>1, <3>3 DEF Confirmed
    <3> QED
      BY <3>2, <3>4 DEF StationFits, KeyOf
  <2> QED
    BY <1>3, <2>2, <2>3 DEF Rows, OnWatchlistUpdated
<1>4. ASSUME NEW r \in Receivers, OnHopResult(r) PROVE Rows'
  <2>1. PICK k \in Keys : k = KeyOf(lists[r][passDone[r] + 1])
    BY <1>4, NextStation DEF Keys
  <2>2. PICK hop \in Hops :
          /\ hops' = [hops EXCEPT ![k] = hop]
          /\ lastCt' = [lastCt EXCEPT ![k] =
                 IF Caches(hop) THEN hop ELSE IF Survives(k, hop.pi) THEN lastCt[k] ELSE NoHop]
          /\ identity' = [identity EXCEPT ![k] = Confirmed(k, hop.pi)]
    BY <1>4, <2>1 DEF OnHopResult
  <2>3. watchlist' = watchlist
    BY <1>4 DEF OnHopResult
  <2>4. ASSUME NEW key \in Keys, key # k
        PROVE  hops'[key] = hops[key] /\ lastCt'[key] = lastCt[key] /\ identity'[key] = identity[key]
    BY <1>1, <2>2, <2>4
  <2>5. RowOf(k)' /\ hops'[k] # NoHop
    <3>1. /\ hops'[k] = hop /\ identity'[k] = Confirmed(k, hop.pi)
          /\ lastCt'[k] = IF Caches(hop) THEN hop
                          ELSE IF Survives(k, hop.pi) THEN lastCt[k] ELSE NoHop
      BY <1>1, <2>1, <2>2
    <3>2. hop.pi \in {NoPI, identity'[k]}
      BY <3>1 DEF Confirmed
    <3>3. Survives(k, hop.pi) => lastCt[k].pi \in {NoPI, identity'[k]}
      BY <1>1, <2>1, <3>1 DEF Survives, Confirmed, Rows, RowOf
    <3>4. RowOf(k)'
      BY <3>1, <3>2, <3>3, NoHopIsNone DEF RowOf
    <3> QED
      BY <3>1, <3>4, NoHopIsNone
  <2>6. \A key \in Keys : RowOf(key)'
    BY <1>1, <2>4, <2>5 DEF Rows, RowOf
  <2>7. ASSUME NEW q \in Receivers, NEW i \in DOMAIN watchlist[q]
        PROVE  StationFits(watchlist[q][i])'
    <3> DEFINE s == watchlist[q][i]
    <3>1. KeyOf(s) \in Keys /\ StationFits(s)
      <4>1. s \in Stations
        BY <1>1, ElementOfSeq, LenProperties
      <4> QED
        BY <1>1, <4>1 DEF KeyOf, Stations, Keys, Rows
    <3>2. s' = s /\ KeyOf(s)' = KeyOf(s)
      BY <2>3 DEF KeyOf
    <3>3. CASE KeyOf(s) = k
      BY <2>5, <3>2, <3>3 DEF StationFits, Absent
    <3>4. CASE KeyOf(s) # k
      BY <2>4, <3>1, <3>2, <3>4 DEF StationFits, Absent
    <3> QED
      BY <3>3, <3>4
  <2> QED
    BY <2>3, <2>6, <2>7 DEF Rows
<1>5. CASE OnCycleCompleted
  <2>1. /\ watchlist' = lists /\ UNCHANGED <<hops, lastCt, identity>>
        /\ \A r \in Receivers : lists[r] = <<>> \/ lists[r] = watchlist[r]
    BY <1>5 DEF OnCycleCompleted, Inv, Pass
  <2>2. \A r \in Receivers : \A i \in DOMAIN lists[r] :
          i \in DOMAIN watchlist[r] /\ lists[r][i] = watchlist[r][i]
    BY <2>1, EmptySeq, LenProperties
  <2>3. \A r \in Receivers : \A i \in DOMAIN lists[r] : StationFits(lists[r][i])
    BY <1>1, <2>2 DEF Rows
  <2>4. lists' = lists
    BY <1>5 DEF OnCycleCompleted
  <2> QED
    BY <1>1, <2>1, <2>3, <2>4 DEF Rows, RowOf, StationFits, Absent, KeyOf
<1> QED
  BY <1>2, <1>3, <1>4, <1>5
  DEF Next, vars, Connects, Fails, OnReceiverFailed, OnScanStep, OnLastScanStep, OnReconStarted,
      FirstIteration, OnAcquisitionStarted, OnMaintenanceStarted, OnReconStopped

\* The lists of the consensus are of tunings whose freshest track has that part in it.
LEMMA TracksKept == Inv /\ [Next]_vars => Tracks'
<1> SUFFICES ASSUME Inv, [Next]_vars PROVE Tracks'
  OBVIOUS
<1> USE DEF runVars, trackVars, rowVars, cycleVars, passVars
<1>1. /\ Tracks /\ Used' = Used /\ Multi' = Multi
      /\ recorded \subseteq TrackKeys /\ freshest \in [Tunings -> MaybePI \cup {NoTrack}]
      /\ heard \in [Keys -> MaybePI \cup {NoTrack}]
  BY SameStations DEF Inv, TypeOK
<1>2. CASE UNCHANGED <<trackVars, cycleVars>>
  BY <1>1, <1>2 DEF Tracks, VoteOf, CountedAs
<1>3. ASSUME NEW r \in Receivers, OnHopResult(r) PROVE Tracks'
  <2>1. PICK k \in {r} \X Tunings : k = KeyOf(lists[r][passDone[r] + 1])
    BY <1>3, NextStation
  <2>2. PICK hop \in Hops : Enters(k, hop)
    BY <1>3, <2>1 DEF OnHopResult
  <2>3. UNCHANGED cycleVars /\ k \in Keys /\ k[1] \in Used /\ k[2] \in Tunings
    BY <1>3, <2>1, NextStation DEF OnHopResult, Keys
  <2>4. CASE hop.ct # "entered"
    BY <1>2, <2>2, <2>3, <2>4 DEF Enters
  <2>5. CASE hop.ct = "entered"
    <3>1. /\ recorded' = recorded \cup {<<k[2], hop.pi>>}
          /\ heard' = [heard EXCEPT ![k] = hop.pi]
          /\ \/ freshest' = [freshest EXCEPT ![k[2]] = hop.pi]
             \/ Multi /\ freshest[k[2]] # NoTrack /\ UNCHANGED freshest
      BY <2>2, <2>5 DEF Enters
    <3>2. hop.pi # NoTrack
      BY NamesAssumption DEF Hops, MaybePI
    <3>3. freshest'[k[2]] # NoTrack /\ (~Multi => freshest'[k[2]] = hop.pi)
      BY <1>1, <2>3, <3>1, <3>2
    <3>4. VoteOf(k)'
      <4>1. heard'[k] = hop.pi /\ <<k[2], hop.pi>> \in recorded'
        BY <1>1, <2>3, <3>1
      <4> QED
        BY <1>1, <2>3, <3>3, <4>1 DEF VoteOf
    <3>5. ASSUME NEW key \in Keys, key # k PROVE VoteOf(key)'
      <4>1. /\ heard'[key] = heard[key] /\ recorded \subseteq recorded' /\ VoteOf(key)
            /\ key[2] \in Tunings
        BY <1>1, <3>1, <3>5 DEF Tracks, Keys
      <4>2. CASE key[2] = k[2]
        <5>1. heard[key] # NoTrack /\ ~Multi => key[1] = k[1]
          BY <2>3, <4>1, OneUsed DEF VoteOf, Inv, TypeOK
        <5>2. heard[key] # NoTrack => Multi
          BY <2>3, <3>5, <4>2, <5>1 DEF Keys
        <5> QED
          BY <1>1, <3>3, <4>1, <4>2, <5>2 DEF VoteOf
      <4>3. CASE key[2] # k[2]
        <5>1. freshest'[key[2]] = freshest[key[2]]
          BY <1>1, <2>3, <3>1, <4>1, <4>3
        <5> QED
          BY <1>1, <4>1, <5>1 DEF VoteOf
      <4> QED
        BY <4>2, <4>3
    <3>6. \A key \in Keys : VoteOf(key)'
      BY <3>4, <3>5
    <3> QED
      BY <1>1, <2>3, <3>6 DEF Tracks, CountedAs
  <2> QED
    BY <2>4, <2>5
<1>4. CASE OnCycleCompleted
  <2>1. PICK status \in [Votes -> {"none", "contributing", "outlier"}] :
          /\ tracks' = [k \in TrackKeys |-> IF k \notin recorded THEN NoTrack
                                            ELSE IF k \in Votes THEN status[k] ELSE "none"]
          /\ contributing' = {k[1] : k \in {v \in Votes : status[v] = "contributing"}}
          /\ outlying' = {k[1] : k \in {v \in Votes : status[v] = "outlier"}}
    BY <1>4 DEF OnCycleCompleted
  <2>2. latest' = freshest /\ UNCHANGED trackVars
    BY <1>4 DEF OnCycleCompleted
  <2>3. ASSUME NEW v \in Votes
        PROVE  /\ v \in recorded /\ freshest[v[1]] # NoTrack
               /\ ~Multi => <<v[1], freshest[v[1]]>> = v
    <3>1. PICK k \in Keys : heard[k] # NoTrack /\ v = <<k[2], heard[k]>>
      BY DEF Votes
    <3> QED
      BY <1>1, <3>1 DEF Tracks, VoteOf
  <2>4. ASSUME NEW v \in Votes PROVE tracks'[v] = status[v]
    BY <1>1, <2>1, <2>3
  <2>5. CountedAs(contributing, "contributing")' /\ CountedAs(outlying, "outlier")'
    <3>1. ASSUME NEW part, NEW t \in {k[1] : k \in {v \in Votes : status[v] = part}}
          PROVE  latest'[t] # NoTrack /\ (~Multi => tracks'[<<t, latest'[t]>>] = part)
      BY <2>2, <2>3, <2>4
    <3> QED
      BY <1>1, <2>1, <3>1 DEF CountedAs
  <2>6. \A k \in Keys : VoteOf(k)'
    BY <1>1, <2>2 DEF Tracks, VoteOf
  <2> QED
    BY <2>5, <2>6 DEF Tracks
<1> QED
  BY <1>2, <1>3, <1>4
  DEF Next, vars, Connects, Fails, OnReceiverFailed, OnScanStep, OnLastScanStep, OnReconStarted,
      FirstIteration, OnAcquisitionStarted, OnWatchlistUpdated, OnMaintenanceStarted, OnReconStopped

-----------------------------------------------------------------------------
(* The theorems                                                              *)

\* The invariant holds along every behaviour.
THEOREM Inductive == Spec => []Inv
<1>1. Inv /\ [Next]_vars => Inv'
  BY TypesKept, ListsKept, WorkingKept, PassKept, RowsKept, TracksKept DEF Inv
<1> QED
  BY Initially, <1>1, PTL DEF Spec

\* Every variable keeps its type, the dashboard's and those of the run that it shows.
THEOREM TypesHold == Spec => []TypeOK
<1>1. Inv => TypeOK
  BY DEF Inv
<1> QED
  BY Inductive, <1>1, PTL

\* A receiver that does not work is shown as failed and one that works is not
\* (DashboardState._receiver_back), from the new watchlist or the pass on.
THEOREM FailuresAreShown == Spec => []FailedIsShown
<1>1. Inv => FailedIsShown
  BY DEF Inv, Working, FailedIsShown
<1> QED
  BY Inductive, <1>1, PTL

\* Whatever two receivers hear on a tuning, and whichever transmitter answered there
\* before, a row speaks of the one that its receiver confirmed last
\* (DashboardState._row, _station_status, _confirm).
THEOREM RowsAreTrue == Spec => []RowIsOfOneTransmitter
<1>1. ASSUME Inv, NEW r \in Receivers, NEW i \in DOMAIN watchlist[r]
      PROVE  LET s == watchlist[r][i]
                 k == KeyOf(s)
                 own == {NoPI, identity[k]}
             IN  /\ ShownPi(s) \in own /\ ShownCt(k).pi \in own
                 /\ identity[k] # NoPI => ShownTrack(k) \in own \cup {NoTrack}
                 /\ ShownStatus(k) # "none" /\ identity[k] # NoPI =>
                        \E pi \in own : tracks[<<k[2], pi>>] = ShownStatus(k)
  <2> DEFINE s == watchlist[r][i]
             k == KeyOf(s)
             own == {NoPI, identity[k]}
  <2>1. s \in Stations
    BY <1>1, ElementOfSeq, LenProperties DEF Inv, TypeOK
  <2>2. k \in Keys /\ k[2] \in Tunings /\ RowOf(k) /\ StationFits(s)
    BY <1>1, <2>1 DEF KeyOf, Stations, Keys, Inv, Rows
  <2>3. identity[k] \in MaybePI /\ latest[k[2]] \in MaybePI \cup {NoTrack}
    BY <1>1, <2>2 DEF Inv, TypeOK
  <2>4. ShownPi(s) \in own
    BY <2>2 DEF ShownPi, RowOf, StationFits
  <2> HIDE DEF s, k
  <2>5. ShownCt(k).pi \in own
    BY <2>2 DEF ShownCt, UnconfirmedCt, RowOf
  <2>6. identity[k] # NoPI => ShownTrack(k) \in own \cup {NoTrack}
    BY <2>3 DEF ShownTrack, TrackFor, MaybePI
  <2>7. ASSUME NEW tunings, NEW part, CountedAs(tunings, part), k[2] \in tunings, Attributed(k),
               ~(Multi /\ ShownTrack(k) # NoTrack), identity[k] # NoPI
        PROVE  \E pi \in own : tracks[<<k[2], pi>>] = part
    <3>1. latest[k[2]] # NoTrack
      BY <2>7 DEF CountedAs
    <3>2. ShownTrack(k) # NoTrack /\ ~Multi
      BY <2>7, <3>1 DEF Attributed
    <3>3. ShownTrack(k) = latest[k[2]]
      BY <3>2 DEF ShownTrack, TrackFor
    <3> QED
      BY <2>6, <2>7, <3>2, <3>3 DEF CountedAs
  <2>8. ShownStatus(k) # "none" /\ identity[k] # NoPI =>
            \E pi \in own : tracks[<<k[2], pi>>] = ShownStatus(k)
    <3> SUFFICES ASSUME ShownStatus(k) # "none", identity[k] # NoPI
                 PROVE  \E pi \in own : tracks[<<k[2], pi>>] = ShownStatus(k)
      OBVIOUS
    <3>1. CASE Multi /\ ShownTrack(k) # NoTrack
      BY <2>6, <3>1 DEF ShownStatus
    <3>2. CASE ~(Multi /\ ShownTrack(k) # NoTrack)
      BY <1>1, <2>7, <3>2 DEF ShownStatus, Inv, Tracks
    <3> QED
      BY <3>1, <3>2
  <2> QED
    BY <2>4, <2>5, <2>6, <2>8 DEF k, s
<1>2. Inv => RowIsOfOneTransmitter
  BY <1>1 DEF RowIsOfOneTransmitter
<1> QED
  BY Inductive, <1>2, PTL

\* In every pass, the station that the progress names for a receiver is the one whose
\* result it reports next (DashboardState._hop_progress, _parallel_hop_progress).
THEOREM ProgressHolds == Spec => ProgressIsTrue
<1>1. ASSUME Inv, [Next]_vars, NEW r \in Receivers, passDone'[r] > passDone[r]
      PROVE  phase = "MAINTENANCE" /\ Recording(r) = lists[r][passDone[r] + 1].tuning
  <2>1. passDone \in [Receivers -> Nat]
    BY <1>1 DEF Inv, TypeOK
  <2>2. OnHopResult(r)
    <3>1. passDone'[r] # passDone[r] /\ passDone'[r] # 0
      BY <1>1, <2>1
    <3>2. ASSUME NEW q \in Receivers, OnHopResult(q) PROVE q = r
      BY <2>1, <3>1, <3>2 DEF OnHopResult
    <3>3. ASSUME NEW q \in Receivers, OnReceiverFailed(q) \/ OnLastScanStep(q) PROVE FALSE
      BY <2>1, <3>1, <3>3 DEF OnReceiverFailed, OnLastScanStep
    <3>4. ~UNCHANGED passDone /\ passDone' # [q \in Receivers |-> 0]
      BY <3>1
    <3> QED
      BY <1>1, <3>2, <3>3, <3>4
      DEF Next, vars, runVars, Connects, Fails, OnScanStep, OnReconStarted, FirstIteration,
          OnAcquisitionStarted, OnWatchlistUpdated, OnMaintenanceStarted, OnCycleCompleted, OnReconStopped
  <2>3. /\ r \in todo /\ r \in up /\ stage = "maintain" /\ passDone[r] + 1 \in DOMAIN lists[r]
    BY <1>1, <2>2, NextStation
  <2>4. r \notin failed /\ InPass(r) /\ phase = "MAINTENANCE"
    BY <1>1, <2>3 DEF Inv, Working, Pass
  <2>5. watchlist[r] = lists[r]
    <3>1. lists[r] # <<>>
      BY <2>3, EmptySeq, LenProperties
    <3> QED
      BY <1>1, <2>3, <3>1 DEF Inv, Pass
  <2> QED
    BY <2>3, <2>4, <2>5 DEF Recording, Nth, InPass
<1>2. Inv /\ [Next]_vars =>
        [\A r \in Receivers : passDone'[r] > passDone[r] =>
            phase = "MAINTENANCE" /\ Recording(r) = lists[r][passDone[r] + 1].tuning]_vars
  BY <1>1
<1> QED
  BY Inductive, <1>2, PTL DEF Spec, ProgressIsTrue

=============================================================================
