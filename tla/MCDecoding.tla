------------------------------ MODULE MCDecoding ------------------------------
(* Captures for Decoding: short ones with every pattern of valid and damaged *)
(* blocks, and clear ones in which two programmes send names, texts or       *)
(* Clock-Times at the edges of their fields and of the zones' changes.       *)
EXTENDS Decoding

CONSTANTS p1, p2

TwoPIs == {p1, p2}

At(day, minute) == day * DayMinutes + minute

\* In 2025 in Warsaw and New York, and the day that Apia skipped in 2011.
Changes == [Warsaw |-> <<[at |-> At(60764, 60), before |-> 60, after |-> 120],
                         [at |-> At(60974, 60), before |-> 120, after |-> 60]>>,
            NewYork |-> <<[at |-> At(60743, 420), before |-> -300, after |-> -240],
                          [at |-> At(60981, 360), before |-> -240, after |-> -300]>>,
            Apia |-> <<[at |-> At(55925, 600), before |-> -600, after |-> 840]>>]

\* Characters, one of them not printable.
AB == 65 * 256 + 66
CD == 67 * 256 + 7

Group(pi, type, version, low, c, d) ==
    [pi |-> pi, pty |-> IF pi = p1 THEN 1 ELSE low, type |-> type, version |-> version,
     low |-> low, c |-> c, d |-> d, sent |-> <<>>]

Ct(pi, utc, offset) ==
    LET words == EncodeClockTime(utc + offset, offset)
    IN  [Group(pi, 4, "A", words.b, words.c, words.d) EXCEPT !.sent = <<ClockTime(utc, offset)>>]

Other == {Group(p1, 8, "A", 0, 0, 0)}
Names == {Group(p1, 0, "A", seg, 0, d) : seg \in {0, 1}, d \in {AB, CD}} \cup {Group(p2, 0, "B", 0, 0, AB)}
Texts == {Group(p1, 2, "A", flag, AB, CD) : flag \in {0, 16}}
         \cup {Group(p1, 2, "B", 1, 0, AB), Group(p1, 2, "B", 18, 0, CD), Group(p2, 2, "A", 0, CD, AB)}
Times ==
    {Ct(p1, t, 0) : t \in {At(60764, 90), At(60764, 120), At(60764, 150), At(60764, 180),
                           At(60974, 119), At(60974, 150), At(60974, 180), At(55925, 720)}}
    \cup {Ct(p1, At(15020, 0), -930), Ct(p1, At(88069, 1439), 930), Ct(p1, At(15019, 1439), 30),
          Ct(p2, At(60764, 960), 120), Group(p1, 4, "A", 1, 2^16 - 1, 2^16 - 1), Group(p2, 4, "B", 0, 0, 0)}

Rule(kind, value, zone) == [kind |-> kind, value |-> value, zone |-> zone]
ByAll == Rule("all", "any", "Warsaw")
ByChannel == Rule("freq", 9875, "Apia")
ByPi == Rule("pi", p1, "Warsaw")
Rules == {<<>>, <<ByAll>>, <<ByPi, Rule("all", "any", "NewYork"), ByChannel>>,
          <<ByChannel, Rule("pi", p2, "UTC"), ByAll, Rule("freq", 9880, "Apia")>>,
          <<ByPi, Rule("pi", p1, "NewYork")>>}

\* Words of a group of each version, with no, all and some bits set.
SomeWords ==
    {<<{}, {}, {}, {}>>, <<0..15, 0..15, 0..15, 0..15>>, <<{1, 15}, {0, 11}, {7, 8}, {2, 4, 13}>>}

Capture(symbols_, clear_, air_, rules_, tuning_) ==
    [symbols |-> symbols_, clear |-> clear_, air |-> air_, words |-> {<<>>},
     rules |-> rules_, tuning |-> tuning_]

SomeCaptures ==
    {[Capture(1, FALSE, Other, <<>>, 9880) EXCEPT !.words = SomeWords]}
    \cup {Capture(n, FALSE, Other, <<>>, 9880) : n \in {8, 16}}
    \cup {Capture(19, TRUE, air_, <<>>, 9880) : air_ \in {Names, Texts}}
    \cup {Capture(10, TRUE, Times, rules_, tuning_) : rules_ \in Rules, tuning_ \in {9880, 9870}}

=============================================================================
