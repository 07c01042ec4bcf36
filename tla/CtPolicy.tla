------------------------------- MODULE CtPolicy -------------------------------
(***************************************************************************)
(* How the UTC field of a Clock-Time is read (ct_policy.py): as UTC, or as *)
(* the wall clock of the zone that an operator's rule names for a station. *)
(***************************************************************************)
EXTENDS Integers, Sequences

CONSTANTS
    Zones,        \* zone -> its changes, in order: [at, before, after], offsets in minutes
    Standard      \* UTC

\* A change begins with the offset that the one before it left, and no two are so close
\* that their skipped or repeated hours meet.
Later(change) == change.at + (IF change.before < change.after THEN change.after ELSE change.before)
Earlier(change) == change.at + (IF change.before < change.after THEN change.before ELSE change.after)

ASSUME ZonesAssumption ==
    /\ Standard \notin DOMAIN Zones
    /\ \A z \in DOMAIN Zones :
          /\ Zones[z] \in Seq([at : Int, before : Int, after : Int]) /\ Zones[z] # <<>>
          /\ \A i \in 1..Len(Zones[z]) - 1 :
                /\ Zones[z][i].after = Zones[z][i + 1].before
                /\ Later(Zones[z][i]) < Earlier(Zones[z][i + 1])

-----------------------------------------------------------------------------
(* The rules.  A tuning, and the value of a frequency rule, is counted in    *)
(* units of 10 kHz.                                                          *)

\* _channel: rounded to 100 kHz, and to the even channel from half way
Channel(tuning) ==
    LET below == tuning \div 10
    IN  IF tuning % 10 < 5 \/ (tuning % 10 = 5 /\ below % 2 = 0) THEN below ELSE below + 1

Precedence == [all |-> 0, freq |-> 1, pi |-> 2]

Selector(rule) ==
    IF rule.kind = "all" THEN <<"all">>
    ELSE <<rule.kind, IF rule.kind = "freq" THEN Channel(rule.value) ELSE rule.value>>

\* CTPolicy.__post_init__ raises for two zones for the same stations.
Conflicting(rules) ==
    \E i, j \in DOMAIN rules :
        Selector(rules[i]) = Selector(rules[j]) /\ rules[i].zone # rules[j].zone

\* Of rules with the same selector the first is kept.
Policy(rules) == {i \in DOMAIN rules : \A j \in 1..i - 1 : Selector(rules[j]) # Selector(rules[i])}

Matches(rule, pi, tuning) ==
    \/ rule.kind = "all"
    \/ rule.kind = "pi" /\ pi = rule.value       \* no rule is for a PI not confirmed
    \/ rule.kind = "freq" /\ Channel(tuning) = Selector(rule)[2]

Covering(rules, pi, tuning) == {i \in Policy(rules) : Matches(rules[i], pi, tuning)}

\* Mutant: the last rule of those that match.
ZoneOfLast(rules, pi, tuning) ==
    LET covering == Covering(rules, pi, tuning)
    IN  IF covering = {} THEN Standard
        ELSE rules[CHOOSE i \in covering : \A j \in covering : j <= i].zone

\* The zone of the most specific rule; of two that are equally specific, the first.
ZoneFor(rules, pi, tuning) ==
    LET covering == Covering(rules, pi, tuning)
        rank(i) == Precedence[rules[i].kind]
    IN  IF covering = {} THEN Standard
        ELSE rules[CHOOSE i \in covering :
                       \A j \in covering : rank(j) <= rank(i) /\ (j < i => rank(j) < rank(i))].zone

-----------------------------------------------------------------------------
(* A zone (zoneinfo.ZoneInfo).                                               *)

\* The offset after the last change that At puts at the time or before it.
After(zone, time, At(_)) ==
    LET past == {i \in DOMAIN zone : At(zone[i]) <= time}
    IN  IF past = {} THEN zone[1].before
        ELSE zone[CHOOSE i \in past : \A j \in past : j <= i].after

\* Of an instant.
OffsetAt(zone, utc) == After(zone, utc, LAMBDA change : change.at)

\* Of a wall clock: a change counts from the later of its two wall times with fold 0,
\* and from the earlier with fold 1.
OffsetOfWall(zone, wall, fold) ==
    After(zone, wall,
          LAMBDA change : IF fold = 0 THEN Later(change) ELSE Earlier(change))

-----------------------------------------------------------------------------

Reading(utc, status) == [utc |-> utc, status |-> status]

\* Mutant: an hour that is repeated is taken as its first occurrence.
InterpretFirst(clock, zone) ==
    IF zone = Standard THEN Reading(<<clock.utc>>, "standard")
    ELSE LET utc == clock.utc - OffsetOfWall(Zones[zone], clock.utc, 0)
         IN  IF utc + OffsetAt(Zones[zone], utc) # clock.utc THEN Reading(<<>>, "nonexistent")
             ELSE Reading(<<utc>>, "converted")

\* interpret_in_zone.  A skipped time does not survive the way to UTC and back; a
\* repeated one has two offsets.
InterpretInZone(clock, zone) ==
    IF zone = Standard THEN Reading(<<clock.utc>>, "standard")
    ELSE LET wall == clock.utc
             offset(fold) == OffsetOfWall(Zones[zone], wall, fold)
             earlier == wall - offset(0)
         IN  IF earlier + OffsetAt(Zones[zone], earlier) # wall THEN Reading(<<>>, "nonexistent")
             ELSE IF offset(0) # offset(1) THEN Reading(<<>>, "ambiguous")
             ELSE Reading(<<earlier>>, "converted")

=============================================================================
