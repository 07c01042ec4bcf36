---------------------------- MODULE TimeConsensus ----------------------------
(***************************************************************************)
(* The consensus of several stations' Clock-Times (time_consensus.py):     *)
(* tracks of observations, the selection of one vote per channel of each   *)
(* receiver and per known PI, the median, and the trust it earns.          *)
(*                                                                         *)
(* Receivers report what they heard in any order (_record_station), and a  *)
(* report may come minutes after the reception; the loop evaluates at any  *)
(* time (_complete_cycle), and sub_second_consensus may be called.         *)
(*                                                                         *)
(* Times and ages are counted in minutes.  An observation is the offset of *)
(* its CT from the monotonic clock, also in minutes: an estimate of "now"  *)
(* is that offset plus now, so estimates differ by their offsets, and now  *)
(* cancels out of the median.  A median of two values falls on half a      *)
(* minute, so medians and distances to them are counted in half minutes.   *)
(* Trust scores are counted in twentieths.  How late a reception is by the *)
(* host's wall clock, after the minute that the CT declares, is counted in *)
(* seconds.                                                                *)
(***************************************************************************)
EXTENDS Integers, Sequences, FiniteSets, FiniteSetsExt, SequencesExt

CONSTANTS
    Channels,        \* 100 kHz bins
    PIs, NoPI,       \* programme codes, and "not confirmed"
    Receivers,
    MissionAge,      \* mission_precision_s
    Limits           \* bounds: what a behaviour may contain, one of these

\* A bound is a record: the sets of channels, pis, receivers, offsets (of a CT) and late
\* (seconds) that occur; maxObs, the observations that a track keeps (30 in the code);
\* maxDelay, how late a reception is reported; and the extent of the behaviour.
Extents == {"maxDelay", "maxNow", "maxReports", "maxEvaluations", "maxPrecise"}
ASSUME NamesAssumption ==
    /\ IsFiniteSet(Channels) /\ IsFiniteSet(PIs) /\ IsFiniteSet(Receivers)
    /\ NoPI \notin PIs
ASSUME LimitsAssumption ==
    /\ MissionAge \in Nat
    /\ \A l \in Limits :
        /\ l.channels \subseteq Channels /\ l.pis \subseteq PIs /\ l.receivers \subseteq Receivers
        /\ l.offsets \subseteq Int /\ l.late \subseteq Int /\ l.maxObs \in Nat \ {0}
        /\ \A extent \in Extents : l[extent] \in Nat

VARIABLES
    now,       \* the monotonic clock
    tracks,    \* TimeConsensus.tracks; a track without observations is absent
    result,    \* the latest ConsensusResult
    precise,   \* the latest SubSecondEstimate
    reports, evaluations, precises,
    limits

vars == <<now, tracks, result, precise, reports, evaluations, precises, limits>>

Keys == [channel : limits.channels, pi : limits.pis \cup {NoPI}]
Observations == [at : 0..limits.maxNow, offset : limits.offsets, late : limits.late,
                 receiver : limits.receivers]
Statuses == {"contributing", "outlier", "none"}

StaleAge == 5           \* STALE_AGE_S
HighAge == 2            \* _trust_level
MediumAge == 3
OutlierThreshold == 3   \* OUTLIER_THRESHOLD_S, in half minutes
SpreadLimit == 2        \* uncertainty < 30 s: a MAD under one minute

FullTrust == 20         \* trust_score 1.0
NeutralTrust == 10

OutlierPenalty == 8     \* OUTLIER_PENALTY
AgreementBonus == 1     \* AGREEMENT_BONUS

Minute == 60            \* MINUTE_NS
NoLatency == -1

StationTracks == [observations : Seq(Observations), trust : 0..FullTrust,
                  outliers : 0..evaluations, status : Statuses,
                  latency : 0..Minute - 1 \cup {NoLatency}]

TypeOK ==
    /\ limits \in Limits
    /\ now \in 0..limits.maxNow
    /\ reports \in 0..limits.maxReports /\ evaluations \in 0..limits.maxEvaluations
    /\ precises \in 0..limits.maxPrecise
    /\ tracks \in [Keys -> StationTracks]
    /\ \A k \in Keys : Len(tracks[k].observations) <= limits.maxObs
    /\ result.contributing \subseteq Keys /\ result.outlying \subseteq Keys
    /\ result.level \in {"HIGH", "MEDIUM", "LOW", "STALE"}
    /\ precise.stations \subseteq Keys /\ precise.utc \in Int

EmptyResult == [contributing |-> {}, outlying |-> {}, level |-> "STALE"]
NoEstimate == [utc |-> 0, stations |-> {}]

Init ==
    /\ limits \in Limits
    /\ now = 0 /\ reports = 0 /\ evaluations = 0 /\ precises = 0
    /\ tracks = [k \in Keys |-> [observations |-> <<>>, trust |-> NeutralTrust,
                                 outliers |-> 0, status |-> "none",
                                 latency |-> NoLatency]]
    /\ result = EmptyResult /\ precise = NoEstimate

-----------------------------------------------------------------------------
(* Tracks.                                                                   *)

\* Mutant: reports are kept in the order they come.
AddedAtTheEnd(observations, obs) ==
    LET all == Append(observations, obs)
    IN  SubSeq(all, IF Len(all) > limits.maxObs THEN Len(all) - limits.maxObs + 1 ELSE 1, Len(all))

\* bisect.insort_right by reception time, and the trim to the latest ones.
Before(observations, obs) == {i \in DOMAIN observations : observations[i].at <= obs.at}
Added(observations, obs) ==
    LET all == InsertAt(observations, Cardinality(Before(observations, obs)) + 1, obs)
    IN  SubSeq(all, IF Len(all) > limits.maxObs THEN Len(all) - limits.maxObs + 1 ELSE 1, Len(all))

Known(k) == tracks[k].observations # <<>>
Anchor(k) == Last(tracks[k].observations)       \* StationTrack.last
Age(k) == now - Anchor(k).at
Recent(at) == now - at \in 0..StaleAge

ActiveTracks == {k \in Keys : Known(k) /\ Recent(Anchor(k).at)}

\* A receiver hears one transmitter on a channel at a time.
Heard(r, c, at) ==
    \E k \in Keys : k.channel = c /\
        \E i \in DOMAIN tracks[k].observations :
            tracks[k].observations[i].receiver = r /\ tracks[k].observations[i].at = at

\* record: a station's CT, heard at some time and reported now.
Record(k, r, at, offset, late) ==
    /\ ~Heard(r, k.channel, at)
    /\ reports < limits.maxReports /\ reports' = reports + 1
    /\ tracks' = [tracks EXCEPT ![k].observations =
                      Added(@, [at |-> at, offset |-> offset, late |-> late, receiver |-> r])]
    /\ UNCHANGED <<now, result, precise, evaluations, precises, limits>>

-----------------------------------------------------------------------------
(* _distinct_source_tracks                                                   *)

HeardBy(r, k) == {i \in DOMAIN tracks[k].observations : tracks[k].observations[i].receiver = r}

\* _latest_by_receiver: this receiver's own latest reception of the track.
LatestBy(r, k) == LET heard == HeardBy(r, k) IN
    tracks[k].observations[CHOOSE i \in heard : \A j \in heard : j <= i].at

\* Mutant: an expired reception votes while another receiver keeps the track active.
CandidatesOfAnyReceiver(r, c) == {k \in ActiveTracks : k.channel = c /\ HeardBy(r, k) # {}}

\* The tracks of a channel that a receiver can vote for: with its own receptions.
Candidates(r, c) ==
    {k \in ActiveTracks : k.channel = c /\ HeardBy(r, k) # {} /\ Recent(LatestBy(r, k))}

\* The vote of a receiver on a channel.
Vote(r, c) ==
    CHOOSE k \in Candidates(r, c) :
        \A other \in Candidates(r, c) : LatestBy(r, other) <= LatestBy(r, k)

Listening == {rc \in limits.receivers \X limits.channels : Candidates(rc[1], rc[2]) # {}}
Kept == {Vote(rc[1], rc[2]) : rc \in Listening}

\* What is left of the tracks some receiver votes for: all those without a known
\* PI, and of each known PI one of the freshest.
Selections ==
    LET kept == Kept IN
    {S \in SUBSET kept :
        /\ \A k \in kept : IF k.pi = NoPI THEN k \in S ELSE \E chosen \in S : chosen.pi = k.pi
        /\ \A chosen \in S : chosen.pi # NoPI =>
            /\ \A k \in S : k.pi = chosen.pi => k = chosen
            /\ \A k \in kept : k.pi = chosen.pi => Age(chosen) <= Age(k)}

-----------------------------------------------------------------------------
(* consensus                                                                 *)

Abs(x) == IF x < 0 THEN -x ELSE x

\* sorted(f[k] for k in S)[i]
Nth(S, f, i) ==
    CHOOSE v \in {f[k] : k \in S} :
        /\ Cardinality({k \in S : f[k] < v}) <= i
        /\ Cardinality({k \in S : f[k] <= v}) > i

\* Mutant: the mean.
MeanForMedian(S) == (2 * MapThenSumSet(LAMBDA k : Anchor(k).offset, S)) \div Cardinality(S)

\* _median_and_mad, in half minutes.
Median(S) ==
    LET f == [k \in S |-> Anchor(k).offset]
        n == Cardinality(S)
    IN  IF n % 2 = 1 THEN 2 * Nth(S, f, n \div 2)
        ELSE Nth(S, f, n \div 2 - 1) + Nth(S, f, n \div 2)

Deviation(S, k) == Abs(2 * Anchor(k).offset - Median(S))
Mad(S) == Nth(S, [k \in S |-> Deviation(S, k)], Cardinality(S) \div 2)

Contributing(S) == {k \in S : Deviation(S, k) <= OutlierThreshold}

\* Mutant: the freshest contributor decides.
FreshestAge(C) == Nth(C, [k \in C |-> Age(k)], 0)

\* _median_age_of_contributors
MedianAge(C) == Nth(C, [k \in C |-> Age(k)], Cardinality(C) \div 2)

\* Mutant: unconfirmed stations earn trust.
ConfirmedOrNot(C) == C

\* n_confirmed
Confirmed(C) == {k \in C : k.pi # NoPI}

\* _trust_level; without contributors the median age is infinite.
TrustLevel(S) ==
    LET C == Contributing(S)
        confirmed == Cardinality(Confirmed(C))
    IN  IF C = {} THEN "STALE"
        ELSE IF confirmed >= 3 /\ MedianAge(C) < HighAge /\ Mad(S) < SpreadLimit THEN "HIGH"
        ELSE IF confirmed >= 2 /\ MedianAge(C) < MediumAge THEN "MEDIUM"
        ELSE IF MedianAge(C) < MissionAge THEN "LOW"
        ELSE "STALE"

\* Mutant: a track not counted this time keeps its status.
StatusKept(track) == track

\* The reset at the beginning of consensus().
StatusReset(track) == [track EXCEPT !.status = "none"]

\* _classify_tracks, after the reset of every status.
Classified(track, status) ==
    CASE status = "outlier" ->
             [track EXCEPT !.outliers = @ + 1, !.status = "outlier",
                           !.trust = IF @ < OutlierPenalty THEN 0 ELSE @ - OutlierPenalty]
      [] status = "contributing" ->
             [track EXCEPT !.outliers = 0, !.status = "contributing",
                           !.trust = IF @ + AgreementBonus > FullTrust THEN FullTrust
                                     ELSE @ + AgreementBonus]
      [] OTHER -> StatusReset(track)

Evaluate ==
    /\ evaluations < limits.maxEvaluations /\ evaluations' = evaluations + 1
    /\ \E S \in Selections :
        LET C == Contributing(S)
            status == [k \in Keys |-> IF k \in C THEN "contributing"
                                      ELSE IF k \in S THEN "outlier" ELSE "none"]
        IN  /\ tracks' = [k \in Keys |-> Classified(tracks[k], status[k])]
            /\ result' = [contributing |-> C, outlying |-> S \ C, level |-> TrustLevel(S)]
    /\ UNCHANGED <<now, precise, reports, precises, limits>>

-----------------------------------------------------------------------------

(* sub_second_consensus                                                      *)

\* _observation_phase_ns: the reception after the declared minute, by the wall clock; the
\* monotonic clock and the minutes of the offset cancel out.
Phase(observation) == observation.late % Minute

\* Mutant: a latency is taken from a single reception.
LearnedAtOnce(k) ==
    LET observations == tracks[k].observations
    IN  IF observations = <<>> THEN tracks[k].latency ELSE Phase(Last(observations))

\* _median_int
MedianInt(S, f) ==
    LET n == Cardinality(S)
    IN  IF n % 2 = 1 THEN Nth(S, f, n \div 2)
        ELSE (Nth(S, f, n \div 2 - 1) + Nth(S, f, n \div 2)) \div 2

\* _update_station_latencies, _apply_tx_latency
Learned(k) ==
    LET observations == tracks[k].observations
    IN  IF Len(observations) < 3 THEN tracks[k].latency
        ELSE MedianInt(DOMAIN observations, [i \in DOMAIN observations |-> Phase(observations[i])])

\* Mutant: the latency is added.
BoundaryAfter(k) == Minute * Anchor(k).at + Anchor(k).late + Learned(k)

\* The latest reception, by the wall clock, less the latency of its station.
Boundary(k) == Minute * Anchor(k).at + Anchor(k).late - Learned(k)

\* _sub_second_station_estimates counts the votes of confirmed, calibrated stations.
Calibrated(S) == {k \in S : k.pi # NoPI /\ Learned(k) # NoLatency}

Estimate(stations) ==
    IF Cardinality(stations) < 2 THEN NoEstimate
    ELSE [utc |-> MedianInt(stations, [k \in stations |-> Boundary(k)]), stations |-> stations]

SubSecond ==
    /\ precises < limits.maxPrecise /\ precises' = precises + 1
    /\ tracks' = [k \in Keys |-> [tracks[k] EXCEPT !.latency = Learned(k)]]
    /\ \E S \in Selections : precise' = Estimate(Calibrated(S))
    /\ UNCHANGED <<now, result, reports, evaluations, limits>>

-----------------------------------------------------------------------------

Tick ==
    /\ now < limits.maxNow /\ now' = now + 1
    /\ UNCHANGED <<tracks, result, precise, reports, evaluations, precises, limits>>

Next ==
    \/ \E k \in Keys, r \in limits.receivers, delay \in 0..limits.maxDelay :
        \E offset \in limits.offsets, late \in limits.late :
            delay <= now /\ Record(k, r, now - delay, offset, late)
    \/ Evaluate
    \/ SubSecond
    \/ Tick

Spec == Init /\ [][Next]_vars

-----------------------------------------------------------------------------

Voters == result.contributing \cup result.outlying
Evaluated == evaluations' # evaluations

\* A late report never becomes the anchor that ages a track (add_observation):
\* the reception that a track is judged by is never replaced by an older one,
\* also when the track is full.
AnchorNeverGoesBack ==
    [][\A k \in Keys : Known(k) => Known(k)' /\ Anchor(k)'.at >= Anchor(k).at]_vars

\* A channel has no more votes than receivers with a reception there that has not
\* expired: a channel that changed its PI does not count twice, and a receiver that keeps
\* a shared track active does not revive the vote of another one.  Only a track that
\* votes shows a status, whatever an earlier evaluation said of it.
VotesOfListeners ==
    /\ \A c \in limits.channels :
        Cardinality({k \in Voters' : k.channel = c}) <=
            Cardinality({r \in limits.receivers :
                \E k \in Keys : k.channel = c /\ HeardBy(r, k) # {} /\ Recent(LatestBy(r, k))})
    /\ Voters' = {k \in Keys : tracks'[k].status # "none"}

\* consensus() counts the votes of listeners only (_distinct_source_tracks).
VotesHaveListeners == [][Evaluated => VotesOfListeners]_vars

\* More than half of the votes, all within the outlier threshold of each other, all
\* contribute, whatever the others say.
MajorityContributes ==
    \A M \in SUBSET Voters' :
        /\ 2 * Cardinality(M) > Cardinality(Voters')
        /\ \A k, other \in M : 2 * Abs(Anchor(k).offset - Anchor(other).offset) <= OutlierThreshold
        => M \subseteq result'.contributing

\* A minority cannot outvote a majority: the median is what the majority says
\* (_median_and_mad, _classify_tracks).
MajorityNeverOutvoted == [][Evaluated => MajorityContributes]_vars

\* "3 distinct confirmed PIs agree on recent CT (<2 min old)" earn HIGH, two earn MEDIUM
\* (TrustLevel).  That most of the confirmed stations are recent holds unless a recent
\* unconfirmed one contributes as well: the code takes the median age of all contributors,
\* so that what always holds is that most of those are recent.
LevelIsEarned ==
    LET C == result'.contributing
        confirmed == {k \in C : k.pi # NoPI}
        Under(S, age) == {k \in S : Age(k) < age}
        mostAreUnder(S, age) == 2 * Cardinality(Under(S, age)) > Cardinality(S)
        earned(n, age) ==
            /\ Cardinality({k.pi : k \in confirmed}) >= n
            /\ Under(C \ confirmed, age) = {} => mostAreUnder(confirmed, age)
            /\ mostAreUnder(C, age)
    IN  /\ result'.level = "HIGH" => earned(3, HighAge)
        /\ result'.level = "MEDIUM" => earned(2, MediumAge)

\* consensus() shows the confidence that the documentation of its levels asks for, but for
\* recent unconfirmed contributors, which may make up for confirmed ones that are not
\* (_trust_level, _median_age_of_contributors).
ConfidenceIsEarned == [][Evaluated => LevelIsEarned]_vars

Given == precises' # precises /\ precise' # NoEstimate
Edge(k) == Minute * Anchor(k).at

\* A sub-second estimate comes of two programmes at least, each of them learned from three
\* receptions.  While no reception comes before its minute by the host's clock, it lies
\* between the declared minutes of its stations, to their jitter.
OfItsMinutes ==
    LET stations == precise'.stations
    IN  /\ Cardinality({k.pi : k \in stations}) >= 2
        /\ \A k \in stations : Len(tracks[k].observations) >= 3
        /\ limits.late \subseteq Nat =>
              /\ \E k \in stations, jitter \in limits.late : Edge(k) - jitter <= precise'.utc
              /\ \E k \in stations, jitter \in limits.late : precise'.utc <= Edge(k) + jitter

\* What sub_second_consensus gives is between the minutes that it comes of.
SubSecondIsOfItsMinutes == [][Given => OfItsMinutes]_vars

\* "It returns the median of the latest calibrated reception boundaries"
\* (sub_second_consensus): receptions within a second of their minutes put the estimate
\* within a second of a minute, too.
SubSecondIsAtAMinute ==
    [][Given /\ limits.late \subseteq -1..1 =>
        \E n \in -1..limits.maxNow : Abs(precise'.utc - Minute * n) <= 2]_vars

=============================================================================
