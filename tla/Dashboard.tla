------------------------------ MODULE Dashboard ------------------------------
(***************************************************************************)
(* What a dashboard shows of a run (dashboard.DashboardState): its rows,   *)
(* the transmitter that each row speaks of, and the hop progress.          *)
(*                                                                         *)
(* One action per record of `recon --jsonl', as its handler applies it.    *)
(* The run that writes the records is the one of MultiReceiver, reduced to *)
(* what the records say: which receivers work, the stations each of them   *)
(* hops through and in which order, and the tracks of the consensus.       *)
(***************************************************************************)
EXTENDS Naturals, Sequences, FiniteSets, SequencesExt

CONSTANTS
    Receivers,
    Tunings,
    PIs, NoPI,
    Transmitters,    \* the programmes that can be received on each tuning
    Listings,        \* the stations listed for each receiver, one such function per run
    MaxIterations,   \* bound: cycles of a run
    MaxFailures      \* bound: failures of receivers

NoTrack == "no track"

ASSUME NamesAssumption ==
    /\ IsFiniteSet(Receivers) /\ IsFiniteSet(Tunings) /\ IsFiniteSet(PIs)
    /\ NoPI \notin PIs /\ NoTrack \notin PIs \cup {NoPI}
    /\ Transmitters \in [Tunings -> SUBSET PIs]
    /\ Listings \subseteq [Receivers -> SUBSET Tunings]
ASSUME NumbersAssumption == MaxIterations \in Nat \ {0} /\ MaxFailures \in Nat

VARIABLES
    listed,              \* the run: its stations
    stage, iteration,
    todo, broken,        \* receivers that still work in this phase; that failed in it
    up, lists, passDone, \* connected; each receiver's watchlist; its results in this pass
    recorded, freshest,  \* tracks of the consensus; per tuning the PI of the latest one
    heard,               \* per receiver and tuning, the PI of the latest CT it recorded
    failures,
    phase, watchlist, hops, lastCt, identity,     \* DashboardState; its watchlist by receiver
    tracks, latest, contributing, outlying,       \* of the latest cycle_completed
    hopsDone, passHops, failed

runVars   == <<listed, stage, iteration, todo, broken, up, lists, passDone, failures>>
trackVars == <<recorded, freshest, heard>>
rowVars   == <<watchlist, hops, lastCt, identity>>
cycleVars == <<tracks, latest, contributing, outlying>>
passVars  == <<hopsDone, passHops>>
vars == <<runVars, trackVars, phase, rowVars, cycleVars, passVars, failed>>

MaybePI == PIs \cup {NoPI}
Keys == Receivers \X Tunings
TrackKeys == Tunings \X MaybePI
Stations == [receiver : Receivers, tuning : Tunings, pi : MaybePI]
KeyOf(s) == <<s.receiver, s.tuning>>

\* What a hop_result says: the PI, and a CT that entered the consensus or that did not.
Hops == [pi : MaybePI, ct : {"none", "unused", "entered"}]
NoHop == [pi |-> NoPI, ct |-> "none", absent |-> TRUE]

Used == {r \in Receivers : listed[r] # {}}
Multi == Cardinality(Used) > 1     \* DashboardState.multi_receiver

TypeOK ==
    /\ listed \in Listings /\ iteration \in 0..MaxIterations
    /\ stage \in {"start", "started", "connect", "acquire", "listed", "maintain", "finished", "ended"}
    /\ todo \subseteq Used /\ broken \subseteq Used /\ up \subseteq Used
    /\ lists \in [Receivers -> Seq(Stations)] /\ passDone \in [Receivers -> Nat]
    /\ \A r \in Receivers : passDone[r] <= Len(lists[r])
    /\ recorded \subseteq TrackKeys /\ freshest \in [Tunings -> MaybePI \cup {NoTrack}]
    /\ heard \in [Keys -> MaybePI \cup {NoTrack}]
    /\ phase \in {"STARTING", "ACQUISITION", "MAINTENANCE", "STOPPED"}
    /\ watchlist \in [Receivers -> Seq(Stations)]
    /\ hops \in [Keys -> Hops \cup {NoHop}] /\ lastCt \in [Keys -> Hops \cup {NoHop}]
    /\ identity \in [Keys -> MaybePI]
    /\ tracks \in [TrackKeys -> {NoTrack, "none", "contributing", "outlier"}]
    /\ latest \in [Tunings -> MaybePI \cup {NoTrack}]
    /\ contributing \subseteq Tunings /\ outlying \subseteq Tunings
    /\ hopsDone \in Nat /\ passHops \in [Receivers -> Nat]
    /\ failed \subseteq Used /\ failures \in 0..MaxFailures

Init ==
    /\ listed \in Listings /\ stage = "start" /\ iteration = 0
    /\ todo = Used /\ broken = {} /\ up = {} /\ failures = 0
    /\ lists = [r \in Receivers |-> <<>>] /\ passDone = [r \in Receivers |-> 0]
    /\ recorded = {} /\ freshest = [t \in Tunings |-> NoTrack]
    /\ heard = [k \in Keys |-> NoTrack]
    /\ phase = "STARTING" /\ watchlist = [r \in Receivers |-> <<>>]
    /\ hops = [k \in Keys |-> NoHop] /\ lastCt = [k \in Keys |-> NoHop]
    /\ identity = [k \in Keys |-> NoPI]
    /\ tracks = [k \in TrackKeys |-> NoTrack] /\ latest = [t \in Tunings |-> NoTrack]
    /\ contributing = {} /\ outlying = {}
    /\ hopsDone = 0 /\ passHops = [r \in Receivers |-> 0] /\ failed = {}

-----------------------------------------------------------------------------
(* The phases of the run.                                                    *)

PhaseOver == todo = {} /\ broken = {} /\ up # {}

Connects(r) ==
    /\ stage \in {"start", "connect"} /\ r \in todo
    /\ todo' = todo \ {r} /\ up' = up \cup {r}
    /\ UNCHANGED <<listed, stage, iteration, broken, lists, passDone, failures, trackVars, phase,
                   rowVars, cycleVars, passVars, failed>>

\* The run has started, if any receiver has; those that did not are reported after it.
OnReconStarted ==
    /\ stage = "start" /\ todo = {} /\ up # {}
    /\ stage' = "started"
    /\ UNCHANGED <<listed, iteration, todo, broken, up, lists, passDone, failures, trackVars, phase,
                   rowVars, cycleVars, passVars, failed>>

\* The first iteration tries the receivers that failed again.
FirstIteration ==
    /\ stage = "started" /\ PhaseOver
    /\ stage' = "connect" /\ todo' = Used \ up
    /\ UNCHANGED <<listed, iteration, broken, up, lists, passDone, failures, trackVars, phase,
                   rowVars, cycleVars, passVars, failed>>

\* The connection, a scan or a hop of a receiver fails.
Fails(r) ==
    /\ r \in todo /\ failures < MaxFailures /\ failures' = failures + 1
    /\ todo' = todo \ {r} /\ broken' = broken \cup {r}
    /\ UNCHANGED <<listed, stage, iteration, up, lists, passDone, trackVars, phase, rowVars,
                   cycleVars, passVars, failed>>

\* _report, at the end of the phase, and _on_receiver_failed.
OnReceiverFailed(r) ==
    /\ stage # "start" /\ todo = {} /\ r \in broken /\ Multi
    /\ broken' = broken \ {r} /\ up' = up \ {r}
    /\ lists' = [lists EXCEPT ![r] = <<>>] /\ passDone' = [passDone EXCEPT ![r] = 0]
    /\ failed' = failed \cup {r}
    /\ UNCHANGED <<listed, stage, iteration, todo, failures, trackVars, phase, rowVars, cycleVars,
                   passVars>>

\* A scan asked for or due covers every receiver, otherwise those without stations.
OnAcquisitionStarted ==
    /\ stage = "connect" /\ PhaseOver
    /\ \/ todo' = up
       \/ todo' = {r \in up : lists[r] = <<>>} /\ todo' # {}
    /\ stage' = "acquire" /\ phase' = "ACQUISITION"
    /\ UNCHANGED <<listed, iteration, broken, up, lists, passDone, failures, trackVars, rowVars,
                   cycleVars, passVars, failed>>

\* Mutant: a scan_step is no sign of life.
BackOnlyListed(rs, kind) == IF kind = "scan_step" THEN failed ELSE failed \ rs
\* _receiver_back
Back(rs, kind) == failed \ rs

\* A step of a receiver's scan.
OnScanStep(r) ==
    /\ stage = "acquire" /\ r \in todo
    /\ failed' = Back({r}, "scan_step")
    /\ UNCHANGED <<runVars, trackVars, phase, rowVars, cycleVars, passVars>>

Receivable(t, pi) == pi \in Transmitters[t] \cup {NoPI}

\* The stations of a receiver that have RDS, best first.
StationLists(r) ==
    {[i \in DOMAIN order |-> [receiver |-> r, tuning |-> order[i], pi |-> pi[order[i]]]] :
        order \in UNION {SetToSeqs(T) : T \in SUBSET listed[r]},
        pi \in {f \in [listed[r] -> MaybePI] : \A t \in listed[r] : Receivable(t, f[t])}}

\* The last step of its scan, which decides its next watchlist.
OnLastScanStep(r) ==
    /\ stage = "acquire" /\ r \in todo
    /\ todo' = todo \ {r}
    /\ \E stations \in StationLists(r) : lists' = [lists EXCEPT ![r] = stations]
    /\ passDone' = [passDone EXCEPT ![r] = 0]
    /\ failed' = Back({r}, "scan_step")
    /\ UNCHANGED <<listed, stage, iteration, broken, up, failures, trackVars, phase, rowVars,
                   cycleVars, passVars>>

-----------------------------------------------------------------------------
(* Rows                                                                      *)

\* Mutant: a different PI leaves the caches.
KeepsCaches(k, pi) == TRUE
\* _confirm: a different confirmed PI invalidates the caches of its row.
Survives(k, pi) == pi = NoPI \/ identity[k] \in {NoPI, pi}
Confirmed(k, pi) == IF pi = NoPI THEN identity[k] ELSE pi

\* The rows of the new watchlist, and the station of each.
Places(k) == {i \in DOMAIN lists[k[1]] : KeyOf(lists[k[1]][i]) = k}
Watched == {k \in Keys : Places(k) # {}}
PiListed(k) == lists[k[1]][CHOOSE i \in Places(k) : TRUE].pi

OnWatchlistUpdated ==
    LET kept(cache) == [k \in Keys |->
            IF k \in Watched /\ Survives(k, PiListed(k)) THEN cache[k] ELSE NoHop]
    IN  /\ stage = "acquire" /\ PhaseOver
        /\ stage' = "listed" /\ watchlist' = lists
        /\ hops' = kept(hops) /\ lastCt' = kept(lastCt)
        /\ identity' = [k \in Keys |->
               IF k \in Watched THEN Confirmed(k, PiListed(k)) ELSE NoPI]
        /\ failed' = Back({k[1] : k \in Watched}, "watchlist_updated")
        /\ UNCHANGED <<listed, iteration, todo, broken, up, lists, passDone, failures, trackVars,
                       phase, cycleVars, passVars>>

\* Mutant: only the total starts at zero.
OnlyTotalReset == hopsDone' = 0 /\ UNCHANGED passHops
\* Both counters start a pass at zero.
CountersReset == hopsDone' = 0 /\ passHops' = [r \in Receivers |-> 0]

OnMaintenanceStarted ==
    /\ PhaseOver /\ iteration < MaxIterations
    /\ stage = "listed" \/ (stage = "connect" /\ \A r \in up : lists[r] # <<>>)
    /\ stage' = "maintain" /\ iteration' = iteration + 1
    /\ todo' = {r \in up : lists[r] # <<>>} /\ passDone' = [r \in Receivers |-> 0]
    /\ phase' = "MAINTENANCE" /\ CountersReset
    /\ UNCHANGED <<listed, broken, up, lists, failures, trackVars, rowVars, cycleVars, failed>>

\* _record_station: only a CT that can be used makes a track.  It is the latest one of
\* its tuning, unless another receiver has reported a later reception.
Enters(k, hop) ==
    IF hop.ct = "entered"
    THEN /\ recorded' = recorded \cup {<<k[2], hop.pi>>}
         /\ \/ freshest' = [freshest EXCEPT ![k[2]] = hop.pi]
            \/ Multi /\ freshest[k[2]] # NoTrack /\ UNCHANGED freshest
         /\ heard' = [heard EXCEPT ![k] = hop.pi]
    ELSE UNCHANGED trackVars

\* The CT that outlives hops without one: of a confirmed PI only.
Caches(hop) == hop.ct # "none" /\ hop.pi # NoPI

OnHopResult(r) ==
    /\ stage = "maintain" /\ r \in todo
    /\ \E hop \in Hops :
        LET k == KeyOf(lists[r][passDone[r] + 1])
            was == IF Survives(k, hop.pi) THEN lastCt[k] ELSE NoHop
        IN  /\ Receivable(k[2], hop.pi)
            /\ Enters(k, hop)
            /\ hops' = [hops EXCEPT ![k] = hop]
            /\ lastCt' = [lastCt EXCEPT ![k] = IF Caches(hop) THEN hop ELSE was]
            /\ identity' = [identity EXCEPT ![k] = Confirmed(k, hop.pi)]
    /\ passDone' = [passDone EXCEPT ![r] = @ + 1]
    /\ todo' = IF passDone'[r] = Len(lists[r]) THEN todo \ {r} ELSE todo
    /\ hopsDone' = hopsDone + 1 /\ passHops' = [passHops EXCEPT ![r] = @ + 1]
    /\ failed' = Back({r}, "hop_result")
    /\ UNCHANGED <<listed, stage, iteration, broken, up, lists, failures, phase, watchlist,
                   cycleVars>>

\* A receiver votes for the latest transmitter that it recorded on a tuning; its
\* vote contributes, is an outlier or is not counted (expired, or merged with others).
Votes == {<<k[2], heard[k]>> : k \in {key \in Keys : heard[key] # NoTrack}}

OnCycleCompleted ==
    /\ stage = "maintain" /\ PhaseOver
    /\ stage' = IF iteration = MaxIterations THEN "finished" ELSE "connect"
    /\ todo' = IF iteration = MaxIterations THEN {} ELSE Used \ up
    /\ \E status \in [Votes -> {"none", "contributing", "outlier"}] :
        /\ tracks' = [k \in TrackKeys |-> IF k \notin recorded THEN NoTrack
                                          ELSE IF k \in Votes THEN status[k] ELSE "none"]
        /\ contributing' = {k[1] : k \in {v \in Votes : status[v] = "contributing"}}
        /\ outlying' = {k[1] : k \in {v \in Votes : status[v] = "outlier"}}
    /\ latest' = freshest /\ watchlist' = lists
    /\ UNCHANGED <<listed, iteration, broken, up, lists, passDone, failures, trackVars, phase,
                   hops, lastCt, identity, passVars, failed>>

\* After the last iteration, on Ctrl+C anywhere, or (receiver_exited, without the record)
\* when no receiver is left.
OnReconStopped ==
    /\ stage # "ended"
    /\ stage' = "ended" /\ phase' = "STOPPED"
    /\ UNCHANGED <<listed, iteration, todo, broken, up, lists, passDone, failures, trackVars,
                   rowVars, cycleVars, passVars, failed>>

Next ==
    \/ \E r \in Receivers :
        \/ Connects(r) \/ Fails(r) \/ OnReceiverFailed(r)
        \/ OnScanStep(r) \/ OnLastScanStep(r) \/ OnHopResult(r)
    \/ OnReconStarted \/ FirstIteration \/ OnAcquisitionStarted \/ OnWatchlistUpdated \/ OnMaintenanceStarted
    \/ OnCycleCompleted \/ OnReconStopped

Spec == Init /\ [][Next]_vars

-----------------------------------------------------------------------------
(* _row and _station_status                                                  *)

Absent(k) == hops[k] = NoHop
UnconfirmedCt(k) == ~Absent(k) /\ hops[k].pi = NoPI /\ hops[k].ct # "none"

ShownPi(s) == IF Absent(KeyOf(s)) THEN s.pi ELSE hops[KeyOf(s)].pi
ShownCt(k) == IF UnconfirmedCt(k) THEN hops[k] ELSE lastCt[k]

Has(t, pi) == tracks[<<t, pi>>] # NoTrack

\* The track that a row's metrics are first taken from, and the one they stay with.
TrackFor(k) ==
    IF Multi /\ UnconfirmedCt(k)
    THEN IF hops[k].ct = "entered" /\ Has(k[2], NoPI) THEN NoPI ELSE NoTrack
    ELSE IF Multi /\ identity[k] # NoPI /\ Has(k[2], identity[k]) THEN identity[k]
    ELSE latest[k[2]]
ShownTrack(k) ==
    IF TrackFor(k) \in PIs /\ identity[k] \in PIs \ {TrackFor(k)} THEN NoTrack ELSE TrackFor(k)

Attributed(k) == ShownTrack(k) # NoTrack \/ latest[k[2]] = NoTrack

ShownStatus(k) ==
    IF Multi /\ ShownTrack(k) # NoTrack THEN tracks[<<k[2], ShownTrack(k)>>]
    ELSE IF Attributed(k) /\ k[2] \in outlying THEN "outlier"
    ELSE IF Attributed(k) /\ k[2] \in contributing THEN "contributing"
    ELSE "none"

\* _hop_progress and _parallel_hop_progress: the station said to be recorded now.
Nth(stations, i) == IF i \in DOMAIN stations THEN stations[i].tuning ELSE "done"
Recording(r) ==
    IF ~Multi THEN Nth(watchlist[r], hopsDone + 1)
    ELSE IF r \in failed THEN "failed"
    ELSE Nth(watchlist[r], passHops[r] + 1)

-----------------------------------------------------------------------------
(* Properties                                                                *)

\* What a row shows is of one transmitter, the one that its receiver last confirmed on that
\* tuning, whichever answered there before and whatever another receiver hears there: its
\* PI, its CT, the track of its age and trust, and its part in the consensus.  Only what
\* has no confirmed PI may stand beside it (DashboardState._row, _confirm).
RowIsOfOneTransmitter ==
    \A r \in Receivers : \A i \in DOMAIN watchlist[r] :
        LET k == KeyOf(watchlist[r][i])
            own == {NoPI, identity[k]}
        IN  /\ ShownPi(watchlist[r][i]) \in own /\ ShownCt(k).pi \in own
            /\ identity[k] # NoPI => ShownTrack(k) \in own \cup {NoTrack}
            /\ ShownStatus(k) # "none" /\ identity[k] # NoPI =>
                   \E pi \in own : tracks[<<k[2], pi>>] = ShownStatus(k)

\* The station that the progress says a receiver is recording is the one whose result
\* comes next, whichever receivers failed, came back or were scanned again before
\* (DashboardState._hop_progress, _parallel_hop_progress).
ProgressIsTrue ==
    [][\A r \in Receivers :
        passDone'[r] > passDone[r] =>
            phase = "MAINTENANCE" /\ Recording(r) = lists[r][passDone[r] + 1].tuning]_vars

\* A receiver that failed is shown as failed until it is seen to work again, and one that
\* works is not, at the latest when the pass begins (DashboardState._receiver_back).
FailedIsShown ==
    stage \in {"listed", "maintain"} => failed \cap up = {} /\ Used \ up \subseteq failed

=============================================================================
