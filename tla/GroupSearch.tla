------------------------------ MODULE GroupSearch ------------------------------
(***************************************************************************)
(* How groups are found in the symbols of a capture: window by window      *)
(* (decoder._decode_in_windows), in several attempts at each window that   *)
(* differ in the symbol offset and in the axis (_decode_with_offset_sweep, *)
(* _best_variant_groups), by a search for starts of groups, which may have *)
(* one block corrected (rds_blocks).                                       *)
(*                                                                         *)
(* Bit k of the stream lies between the symbols k and k + 1.               *)
(***************************************************************************)
EXTENDS Integers, Sequences, FiniteSets, SequencesExt

CONSTANTS
    GroupBits,       \* GROUP_BITS
    Window,          \* _SWEEP_WINDOW_BITS
    MinSymbols,      \* of a window, 100
    Attempts,        \* bound: attempts at a window; every other one is reversed
    Candidates       \* bound: places where an attempt may see a group start

ASSUME SearchAssumption ==
    /\ GroupBits \in Nat \ {0} /\ Window \in Nat /\ Window > GroupBits
    /\ MinSymbols \in Nat \ {0} /\ Attempts \in Nat \ {0} /\ Candidates \in Nat

VARIABLES
    symbols,         \* the symbols of the capture
    clear,           \* whether every attempt sees group after group
    start,           \* of the window
    tried, best,     \* attempts made; the best one, [look, found, reversed]
    positions,       \* _DecodeAttempt.positions
    clean, corrected,
    places,          \* history: the bits of the capture that each group was read from
    done

searchVars == <<symbols, clear, start, tried, best, positions, clean, corrected, places, done>>

SearchInit ==
    /\ start = 0 /\ tried = 0 /\ best = <<>> /\ positions = <<>>
    /\ clean = 0 /\ corrected = 0 /\ places = <<>> /\ done = FALSE

-----------------------------------------------------------------------------
(* The search in one stream of bits.  What an attempt looks at says of every *)
(* place where a group could start how many of the four blocks there are not *)
(* valid for their position and for the version that block B names: none,    *)
(* one that a single flipped bit explains, or worse.                         *)

Looks(bits) ==
    IF clear THEN {[i \in 0..bits - GroupBits |-> IF i % GroupBits = 0 THEN 0 ELSE 2]}
    ELSE {look \in [0..bits - GroupBits -> 0..2] : Cardinality({i \in DOMAIN look : look[i] < 2}) <= Candidates}

CleanStarts(look) == {i \in DOMAIN look : look[i] = 0}
CorrectedStarts(look) == {i \in DOMAIN look : look[i] = 1}

\* Mutant: only a clean start to the left displaces a corrected one.
KeptAfter(look) ==
    CleanStarts(look) \cup
    {i \in CorrectedStarts(look) : ~\E j \in CleanStarts(look) : j \in i - GroupBits + 1..i}

\* A corrected start is dropped if it overlaps a clean one.
Kept(look) ==
    CleanStarts(look) \cup
    {i \in CorrectedStarts(look) :
        ~\E j \in CleanStarts(look) : j \in i - GroupBits + 1..i + GroupBits - 1}

\* From left to right, every start that does not overlap a group that was emitted.
Emitted(look) ==
    CHOOSE found \in SUBSET Kept(look) :
        \A j \in Kept(look) : j \in found <=> \A k \in found : k < j => k + GroupBits <= j

\* _group_score: more groups, then more clean ones and so fewer corrected ones
Better(one, other) ==
    LET n(a) == Cardinality(a.found)
        c(a) == Cardinality(a.found \cap CleanStarts(a.look))
    IN  n(one) > n(other) \/ (n(one) = n(other) /\ c(one) > c(other))

\* Mutant: the position is that of the end of the group.
OnCaptureAxisAtEnd(bits, position, reversed) ==
    IF reversed THEN bits - position ELSE position

\* _positions_on_capture_axis
OnCaptureAxis(bits, position, reversed) ==
    IF reversed THEN bits - position - GroupBits ELSE position

-----------------------------------------------------------------------------
(* The windows.                                                              *)

\* Streams up to two windows long are swept whole.
Whole == symbols <= 2 * Window

\* There is no short last window.
Stop ==
    IF Whole \/ symbols - (start + Window) < Window \div 2 THEN symbols ELSE start + Window

Bits == Stop - start - 1

Searching == ~done /\ (Whole \/ symbols - start >= MinSymbols)

\* An attempt that is not better than the best one is discarded.
Attempt ==
    /\ Searching /\ tried < Attempts
    /\ tried' = tried + 1
    /\ \E look \in Looks(Bits) :
           LET attempt == [look |-> look, found |-> Emitted(look), reversed |-> tried % 2 = 1]
           IN  best' = IF best = <<>> \/ Better(attempt, best[1]) THEN <<attempt>> ELSE best
    /\ UNCHANGED <<symbols, clear, start, positions, clean, corrected, places, done>>

\* Where the attempt that was best found its groups, in the order of its axis; the groups
\* of several windows are sorted, those of a whole sweep are as they were found.
Before(i) == {j \in best[1].found : j < i}
Found ==
    [k \in 1..Cardinality(best[1].found) |-> CHOOSE i \in best[1].found : Cardinality(Before(i)) = k - 1]
InOrder == IF Whole \/ ~best[1].reversed THEN Found ELSE Reverse(Found)
OnAxis(position) == OnCaptureAxis(Bits, position, best[1].reversed)

\* Mutant: the next window starts with the last group.
NextStartWithin == IF Found # <<>> /\ Stop < symbols THEN start + OnAxis(Last(InOrder)) ELSE Stop

\* The next window starts where the last group of this one ends.
NextStart ==
    IF Found # <<>> /\ Stop < symbols THEN start + OnAxis(Last(InOrder)) + GroupBits ELSE Stop

\* The bits of the capture that a group was read from.
PlaceOf(position) ==
    {start + (IF best[1].reversed THEN Bits - 1 - bit ELSE bit) : bit \in position..position + GroupBits - 1}

EndWindow ==
    /\ Searching /\ tried = Attempts
    /\ positions' = positions \o [k \in DOMAIN InOrder |-> start + OnAxis(InOrder[k])]
    /\ places' = places \o [k \in DOMAIN InOrder |-> PlaceOf(InOrder[k])]
    /\ LET cleanOnes == best[1].found \cap CleanStarts(best[1].look)
       IN  /\ clean' = clean + Cardinality(cleanOnes)
           /\ corrected' = corrected + Cardinality(best[1].found \ cleanOnes)
    /\ start' = NextStart /\ done' = Whole
    /\ tried' = 0 /\ best' = <<>>
    /\ UNCHANGED <<symbols, clear>>

EndSearch ==
    /\ ~done /\ ~Searching /\ done' = TRUE
    /\ UNCHANGED <<symbols, clear, start, tried, best, positions, clean, corrected, places>>

=============================================================================
