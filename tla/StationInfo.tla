------------------------------ MODULE StationInfo ------------------------------
(***************************************************************************)
(* What a capture's groups say of a station (rds_groups.StationInfo and    *)
(* parse_group): the counts of the PIs, and for each PI the fields that    *)
(* its groups, and no others, build up.                                    *)
(*                                                                         *)
(* A group is [pi, pty, type, version, low, c, d, sent]: low are the bits  *)
(* 4..0 of block B, c and d the words of two characters or of a Clock-Time *)
(* field.  The parser does not see sent: the Clock-Time that was encoded,  *)
(* or <<>> for a dummy.                                                    *)
(***************************************************************************)
EXTENDS RdsClock, Sequences, FiniteSets, Bags, SequencesExt

CONSTANTS
    PIs, NoPI,
    PsSegments,      \* of two characters each; PS_LEN is twice as many
    RtLen,           \* RT_LEN
    Confirmation     \* PI_CONFIRMATION_THRESHOLD

ASSUME StationAssumption ==
    /\ NoPI \notin PIs /\ PsSegments \in Nat \ {0} /\ RtLen \in Nat /\ Confirmation \in Nat \ {0}

VARIABLES
    counts, order,   \* _pi_counts: the counts, and the order of their first insertion
    firstPi,
    payloads,        \* _station_payloads
    fields,          \* the payload fields of the StationInfo itself
    seed,            \* history: the PI that was set, if one was
    groups           \* history: the groups since, [group, rx, end]

infoVars == <<counts, order, firstPi, payloads, fields, seed, groups>>

Space == 32
NoPty == -1
NoFlag == -1

NewPayload ==
    [pty |-> NoPty, ps |-> [k \in 0..2 * PsSegments - 1 |-> Space],
     candidate |-> [k \in 0..2 * PsSegments - 1 |-> Space], seen |-> {}, latest |-> <<>>, stable |-> 0,
     rt |-> [k \in 0..RtLen - 1 |-> Space], flag |-> NoFlag, clocks |-> <<>>, counted |-> EmptyBag]

InfoInit ==
    /\ counts = <<>> /\ order = <<>> /\ firstPi = NoPI
    /\ payloads = <<>> /\ fields = NewPayload
    /\ seed = <<>> /\ groups = <<>>

-----------------------------------------------------------------------------
(* The payload of one PI.                                                    *)

\* _safe_char: printable ASCII and the end of a RadioText
SafeChar(byte) == IF byte = 13 \/ byte \in 32..126 THEN byte ELSE Space

\* Two characters, at their places in a text.
Pair(at, word) == [k \in {at, at + 1} |-> SafeChar(IF k = at THEN word \div 256 ELSE word % 256)]

\* Characters laid over a text.
Over(new, text) == [k \in DOMAIN new \cup DOMAIN text |-> IF k \in DOMAIN new THEN new[k] ELSE text[k]]

Segment(g) == g.low % PsSegments

\* Mutant: a complete frame does not begin a new one.
UpdatePsKeeping(p, g) ==
    LET seg == Segment(g)
        candidate == IF seg \in p.seen THEN p.candidate ELSE Over(Pair(2 * seg, g.d), p.candidate)
        seen == p.seen \cup {seg}
        stable == IF p.latest = <<candidate>> THEN p.stable + 1 ELSE 1
    IN  IF seen # 0..PsSegments - 1 THEN [p EXCEPT !.candidate = candidate, !.seen = seen]
        ELSE [p EXCEPT !.candidate = candidate, !.seen = seen, !.latest = <<candidate>>,
                       !.stable = stable, !.ps = IF stable >= 2 THEN candidate ELSE @]

\* _update_ps: the first word of each segment counts; a frame is complete with all of
\* them, and shown when it is the same as the one before.
UpdatePs(p, g) ==
    LET seg == Segment(g)
        candidate == IF seg \in p.seen THEN p.candidate ELSE Over(Pair(2 * seg, g.d), p.candidate)
        seen == p.seen \cup {seg}
        stable == IF p.latest = <<candidate>> THEN p.stable + 1 ELSE 1
    IN  IF seen # 0..PsSegments - 1 THEN [p EXCEPT !.candidate = candidate, !.seen = seen]
        ELSE [p EXCEPT !.candidate = NewPayload.candidate, !.seen = {}, !.latest = <<candidate>>,
                       !.stable = stable, !.ps = IF stable >= 2 THEN candidate ELSE @]

\* The characters of a RadioText group: four in version A, two in version B.
RtChars(g) ==
    LET addr == g.low % 16
    IN  IF g.version = "A" THEN Over(Pair(4 * addr, g.c), Pair(4 * addr + 2, g.d))
        ELSE Pair(2 * addr, g.d)

AbFlag(g) == g.low \div 16

\* _update_rt: the text begins anew when the A/B flag changes.
UpdateRt(p, g) ==
    LET kept == IF p.flag # NoFlag /\ p.flag # AbFlag(g) THEN NewPayload.rt ELSE p.rt
    IN  [p EXCEPT !.rt = Over(RtChars(g), kept), !.flag = AbFlag(g)]

\* _update_clock
UpdateClock(p, g, rx) ==
    LET decoded == DecodeClockTime(g.low, g.c, g.d)
    IN  IF decoded = <<>> THEN p
        ELSE [p EXCEPT !.clocks = Append(@, [utc |-> decoded[1].utc, offset |-> decoded[1].offset,
                                             rx |-> rx])]

\* What a group adds to the payload of its PI.
Parsed(payload, g, rx) ==
    LET p == [payload EXCEPT !.pty = IF @ = NoPty THEN g.pty ELSE @,
                             !.counted = @ (+) SetToBag({<<g.type, g.version>>})]
    IN  CASE g.type = 0 -> UpdatePs(p, g)
          [] g.type = 2 -> UpdateRt(p, g)
          [] g.type = 4 /\ g.version = "A" -> UpdateClock(p, g, rx)
          [] OTHER -> p

-----------------------------------------------------------------------------

\* Counter.most_common(1): of the PIs with most groups, the one inserted first
MostCommon(order_, counts_) ==
    order_[CHOOSE i \in DOMAIN order_ :
               \A j \in DOMAIN order_ :
                   /\ counts_[order_[j]] <= counts_[order_[i]]
                   /\ j < i => counts_[order_[j]] < counts_[order_[i]]]

\* StationInfo.pi
ConfirmedPi ==
    IF order = <<>> \/ counts[MostCommon(order, counts)] < Confirmation THEN NoPI
    ELSE MostCommon(order, counts)

\* Mutant: a PI that is new continues the payload that is shown.
PayloadShown(known, pi) == IF pi \in DOMAIN known THEN known[pi] ELSE fields

PayloadOf(known, pi) == IF pi \in DOMAIN known THEN known[pi] ELSE NewPayload

\* A dictionary after an assignment.
Put(dict, key, value) == [k \in DOMAIN dict \cup {key} |-> IF k = key THEN value ELSE dict[k]]

\* The first group finds the fields of a StationInfo that may have been seeded.
ParseGroup(g, rx, end) ==
    /\ firstPi' = IF firstPi = NoPI THEN g.pi ELSE firstPi
    /\ LET known == IF payloads = <<>> THEN Put(<<>>, firstPi', fields) ELSE payloads
       IN  payloads' = Put(known, g.pi, Parsed(PayloadOf(known, g.pi), g, rx))
    /\ IF g.pi \in DOMAIN counts THEN counts' = Put(counts, g.pi, counts[g.pi] + 1) /\ UNCHANGED order
       ELSE counts' = Put(counts, g.pi, 1) /\ order' = Append(order, g.pi)
    /\ fields' = payloads'[MostCommon(order', counts')]
    /\ groups' = Append(groups, [group |-> g, rx |-> rx, end |-> end])
    /\ UNCHANGED seed

\* Setting the PI forgets what was built up, lest it be taken for that PI's.
SetPi(value) ==
    /\ firstPi' = value /\ payloads' = <<>> /\ fields' = NewPayload
    /\ IF value = NoPI THEN counts' = <<>> /\ order' = <<>>
       ELSE counts' = Put(<<>>, value, Confirmation) /\ order' = <<value>>
    /\ seed' = <<value>> /\ groups' = <<>>

-----------------------------------------------------------------------------
(* What the fields should say, from the groups alone.                        *)

\* Where a PI was heard.
HeardAt(heard, pi) == {i \in DOMAIN heard : heard[i].group.pi = pi}
OfType(heard, pi, type) == {i \in HeardAt(heard, pi) : heard[i].group.type = type}

\* How often, and before which others: a PI that was set counts as confirmed and as heard first.
Heard(pi) == Cardinality(HeardAt(groups, pi)) + (IF seed = <<pi>> THEN Confirmation ELSE 0)
HeardBefore(pi, other) ==
    \/ seed = <<pi>>
    \/ seed # <<other>> /\ \E i \in HeardAt(groups, pi) : \A j \in HeardAt(groups, other) : i < j

\* The PI heard most, and of those the one heard first.
Dominates(pi) ==
    /\ Heard(pi) > 0
    /\ \A other \in PIs \ {pi} :
           Heard(other) < Heard(pi) \/ (Heard(other) = Heard(pi) /\ HeardBefore(pi, other))

\* What the groups of one PI make of an empty payload, one after the other.
Extended(p, x, pi) == IF x.group.pi = pi THEN Parsed(p, x.group, x.rx) ELSE p
Built(heard, pi) ==
    LET built[n \in 0..Len(heard)] ==
            IF n = 0 THEN NewPayload ELSE Extended(built[n - 1], heard[n], pi)
    IN  built[Len(heard)]

\* Each segment of the name was received twice.
Characters(g) == Pair(2 * Segment(g), g.d)
Shows(text, characters) == \A k \in DOMAIN characters : k \in DOMAIN text /\ text[k] = characters[k]
NameHeardTwice(heard, p, pi) ==
    p.ps # NewPayload.ps =>
        \A seg \in 0..PsSegments - 1 :
            \E i, j \in OfType(heard, pi, 0) :
                /\ i # j /\ Segment(heard[i].group) = seg /\ Segment(heard[j].group) = seg
                /\ Shows(p.ps, Characters(heard[i].group)) /\ Shows(p.ps, Characters(heard[j].group))

\* Every character of the text is of the message that the A/B flag last began.
RtOfOneMessage(heard, p, pi) ==
    LET texts == OfType(heard, pi, 2)
        ofMessage(i) == \A j \in texts : j >= i => AbFlag(heard[j].group) = AbFlag(heard[i].group)
    IN  \A k \in DOMAIN p.rt : p.rt[k] # Space =>
            \E i \in texts : /\ ofMessage(i) /\ k \in DOMAIN RtChars(heard[i].group)
                             /\ RtChars(heard[i].group)[k] = p.rt[k]

\* The Clock-Times are those that were sent, in order, each dated when its group ended.
ClocksAsSent(heard, p, pi) ==
    LET timed == {i \in OfType(heard, pi, 4) :
                      /\ heard[i].group.version = "A" /\ heard[i].group.sent # <<>>
                      /\ Mjd(heard[i].group.sent[1].utc) \in SensibleDays}
    IN  /\ Len(p.clocks) = Cardinality(timed)
        /\ \A i \in timed :
               p.clocks[Cardinality({j \in timed : j <= i})]
                   = [utc |-> heard[i].group.sent[1].utc, offset |-> heard[i].group.sent[1].offset,
                      rx |-> heard[i].end]

\* The words of a Clock-Time group are those that were encoded, or say no Clock-Time.
WordsAsSent(g) ==
    IF g.sent = <<>> THEN DecodeClockTime(g.low, g.c, g.d) = <<>>
    ELSE LET clock == g.sent[1]
             words == EncodeClockTime(clock.utc + clock.offset, clock.offset)
         IN  /\ clock \in [utc : Int, offset : Int] /\ Encodable(clock)
             /\ g.low = words.b /\ g.c = words.c /\ g.d = words.d

=============================================================================
