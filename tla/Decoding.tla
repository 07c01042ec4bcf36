------------------------------- MODULE Decoding -------------------------------
(***************************************************************************)
(* From the symbols of a capture to the Clock-Time that may enter the      *)
(* consensus (decoder.decode_iq, the head of recon._record_station): the   *)
(* groups that GroupSearch finds are parsed in the order in which they     *)
(* were found, as StationInfo says, and the latest Clock-Time is read by   *)
(* the rules of CtPolicy.                                                  *)
(***************************************************************************)
EXTENDS RdsBlocks, GroupSearch, StationInfo, CtPolicy

CONSTANTS
    NoTime,          \* a group with no receive time
    Captures         \* what is received: [symbols, clear, air, words, rules, tuning]

ASSUME CapturesAssumption ==
    \A capture \in Captures :
        /\ capture.symbols \in Nat
        /\ capture.words \subseteq {<<>>} \cup [Blocks -> SUBSET (0..DataBits - 1)]
        /\ \A g \in capture.air :
              /\ g.pi \in PIs /\ g.low \in Nat /\ g.c \in Nat /\ g.d \in Nat
              /\ g.type = 4 /\ g.version = "A" => WordsAsSent(g)
        /\ capture.rules \in Seq(Range(capture.rules))
        /\ \A i \in DOMAIN capture.rules : /\ capture.rules[i].kind \in DOMAIN Precedence
                                          /\ capture.rules[i].zone \in DOMAIN Zones \cup {Standard}

VARIABLES
    air,             \* the groups that may be received
    rules, tuning,   \* --ct-timezone, and the tuning of the capture
    timed            \* the pilot was found, so that groups can be dated

captureVars == <<air, rules, tuning, timed>>
vars == <<blockVars, searchVars, infoVars, captureVars>>

TypeOK ==
    /\ start \in 0..symbols /\ tried \in 0..Attempts /\ done \in BOOLEAN
    /\ clean + corrected = Len(positions) /\ Len(places) = Len(positions)
    /\ \A k \in DOMAIN positions : positions[k] \in 0..symbols - 1 - GroupBits
    /\ Len(groups) <= Len(positions)
    /\ DOMAIN counts = Range(order) /\ Range(order) \subseteq PIs
    /\ DOMAIN payloads \subseteq PIs

Init ==
    /\ \E capture \in Captures :
           /\ sent \in capture.words /\ flipped = {}
           /\ symbols = capture.symbols /\ clear = capture.clear
           /\ air = capture.air /\ rules = capture.rules /\ tuning = capture.tuning
    /\ ~Conflicting(rules)
    /\ timed \in BOOLEAN
    /\ SearchInit /\ InfoInit

\* One of the groups, bit by bit, on its way to the search.
Receive ==
    /\ tried = 0 /\ ~done /\ sent # <<>>
    /\ Noise
    /\ UNCHANGED <<searchVars, infoVars, captureVars>>

Search == (Attempt \/ EndWindow \/ EndSearch) /\ UNCHANGED <<blockVars, infoVars, captureVars>>

\* A group is received when its last bit is (_rx_monotonic_ns_by_group).
ReceivedAt(position) == IF timed THEN position + GroupBits ELSE NoTime
EndOf(place) == IF timed THEN Max(place) + 1 ELSE NoTime

Parsing == done /\ Len(groups) < Len(positions)

Parse ==
    /\ Parsing
    /\ \E g \in air :
           LET i == Len(groups) + 1
           IN  ParseGroup(g, ReceivedAt(positions[i]), EndOf(places[i]))
    /\ UNCHANGED <<blockVars, searchVars, captureVars>>

\* A caller that knows the station sets its PI, once, before the groups are parsed.
Identify ==
    /\ Parsing /\ groups = <<>> /\ seed = <<>>
    /\ \E value \in PIs \cup {NoPI} : SetPi(value)
    /\ UNCHANGED <<blockVars, searchVars, captureVars>>

Next == Receive \/ Search \/ Parse \/ Identify

Spec == Init /\ [][Next]_vars

\* How the latest Clock-Time is read (_record_station).
Zone == ZoneFor(rules, ConfirmedPi, tuning)
Interpretation == InterpretInZone(Last(fields.clocks), Zone)

-----------------------------------------------------------------------------
(* Properties                                                                *)

\* A group with one flipped bit is found, repaired, with the words that were sent, whichever
\* bit it is, the one that tells the version included.  One with two is never taken for
\* clean, and is not found at all if they are in two blocks (block_valid,
\* _group_starts_with_correction, _materialize_group).
RepairedAsSent ==
    flipped # {} =>
        LET blocks == Received
        IN  /\ Clean(blocks) # Blocks
            /\ Cardinality(flipped) = 1 => Starts(blocks) /\ Words(blocks) = sent
            /\ Starts(blocks) => Cardinality({flip[1] : flip \in flipped}) = 1

\* No group is counted twice, whatever the windows and the overlapping starts, and the
\* position of each is where it was read on the capture, on either axis
\* (_decode_in_windows, _positions_on_capture_axis).
PlacesAreKept ==
    /\ \A i, j \in DOMAIN places : i # j => places[i] \cap places[j] = {}
    /\ \A i \in DOMAIN places : places[i] = positions[i]..positions[i] + GroupBits - 1
    /\ ~Whole => \A i, j \in DOMAIN positions : i < j => positions[i] < positions[j]

\* A corrected group never takes the place of a clean one: whatever the search emits, a
\* clean start is emitted unless it overlaps a clean group that is
\* (_drop_corrected_starts_overlapping_clean).
CleanComesFirst ==
    best # <<>> =>
        \A i \in CleanStarts(best[1].look) :
            \E j \in best[1].found \cap CleanStarts(best[1].look) : j - i < GroupBits /\ i - j < GroupBits

\* What a capture is cut into are its groups, each at its place and clean if it can be.
GroupsKeepTheirPlace == PlacesAreKept /\ CleanComesFirst

\* What is shown of a station is of one PI, whichever PIs corrupted groups name, and is
\* what that station sent: its name was received twice, its text is of one message, and
\* its Clock-Times are those that were encoded (StationInfo, rds_clock).
StationIsTrue ==
    IF groups = <<>> THEN fields = NewPayload
    ELSE \E pi \in PIs :
             /\ Dominates(pi) /\ fields = Built(groups, pi)
             /\ NameHeardTwice(groups, fields, pi) /\ RtOfOneMessage(groups, fields, pi)
             /\ ClocksAsSent(groups, fields, pi)

Wins(i) ==
    /\ Matches(rules[i], ConfirmedPi, tuning)
    /\ \A j \in DOMAIN rules : Matches(rules[j], ConfirmedPi, tuning) =>
           Precedence[rules[j].kind] <= Precedence[rules[i].kind]

\* Every instant at which a wall clock of the zone shows the time.
Instants(zone, wall) ==
    LET offsets == UNION {{change.before, change.after} : change \in Range(zone)}
    IN  {utc \in {wall - offset : offset \in offsets} : utc + OffsetAt(zone, utc) = wall}

\* The Clock-Time is read in the zone of the most specific rule, in whatever order the
\* rules are given, and gets the UTC at which that zone's clocks show it, or none if
\* there is no such instant or two (CTPolicy, interpret_in_zone).
ReadingIsExact ==
    fields.clocks # <<>> =>
        LET wall == Last(fields.clocks).utc
            instants == Instants(Zones[Zone], wall)
        IN  /\ \A i \in DOMAIN rules : Wins(i) => Zone = rules[i].zone
            /\ (\A i \in DOMAIN rules : ~Wins(i)) => Zone = Standard
            /\ IF Zone = Standard THEN Interpretation = Reading(<<wall>>, "standard")
               ELSE /\ Interpretation.status = "nonexistent" <=> instants = {}
                    /\ Interpretation.status = "ambiguous" <=> Cardinality(instants) > 1
                    /\ Range(Interpretation.utc) = IF Cardinality(instants) = 1 THEN instants ELSE {}

=============================================================================
