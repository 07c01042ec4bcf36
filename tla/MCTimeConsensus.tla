-------------------------- MODULE MCTimeConsensus --------------------------
(* Model values for TimeConsensus: channels, programmes and receivers are    *)
(* interchangeable.  Each bound is one question.                             *)
EXTENDS TimeConsensus, TLC

CONSTANTS c1, c2, c3, p1, p2, p3, a, b

ThreeChannels == {c1, c2, c3}
ThreePIs == {p1, p2, p3}
TwoReceivers == {a, b}

\* Which votes agree: clocks that do, or differ by less than the outlier threshold, and
\* one that is an hour away, as a station that sends local time is.
Agreement ==
    [channels |-> {c1, c2, c3}, pis |-> {p1, p2, p3}, receivers |-> {a},
     offsets |-> {0, 1, 60}, late |-> {0}, maxObs |-> 1, maxDelay |-> 0,
     maxNow |-> 3, maxReports |-> 3, maxEvaluations |-> 1, maxPrecise |-> 0]

\* Late reports of two receivers on one channel, past the expiry of a reception and the
\* size of a track; the second evaluation follows the first on the same tracks.
Reports ==
    [channels |-> {c1}, pis |-> {p1, p2}, receivers |-> {a, b},
     offsets |-> {0}, late |-> {0}, maxObs |-> 2, maxDelay |-> 1,
     maxNow |-> 6, maxReports |-> 4, maxEvaluations |-> 2, maxPrecise |-> 0]

\* Two stations heard three times each, at a latency that varies.
Latencies ==
    [channels |-> {c1, c2}, pis |-> {p1, p2}, receivers |-> {a},
     offsets |-> {0}, late |-> {0, 2}, maxObs |-> 3, maxDelay |-> 0,
     maxNow |-> 2, maxReports |-> 6, maxEvaluations |-> 0, maxPrecise |-> 1]

\* The same, a second before and after the minute.
AroundTheMinute == [Latencies EXCEPT !.late = {-1, 1}]

Questions == {Agreement, Reports, Latencies}
OneQuestion == {AroundTheMinute}

Symmetry == Permutations(Channels) \cup Permutations(PIs) \cup Permutations(Receivers)

=============================================================================
